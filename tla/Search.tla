------------------------------- MODULE Search -------------------------------
(***************************************************************************)
(* The search boxes: what is suggested while the reader types (web.rs      *)
(* search_suggest, anchoring_suggest) and where pressing Enter leads        *)
(* (search_page, anchoring_page).  The two ask the same index and the same *)
(* contract, each in an order and with limits of its own, and the index    *)
(* grows between them.                                                      *)
(*                                                                          *)
(* The query stays what it is; every other text is known by how it compares *)
(* with it, its match.  A destination is a kind and a number, 0 for the     *)
(* block, transaction or address the query itself names.                    *)
(***************************************************************************)
EXTENDS Naturals, FiniteSets, SequencesExt, Orders

CONSTANTS
    Limit,              \* SUGGESTION_LIMIT (8)
    PageLimit,          \* registries to the anchoring page (PER_PAGE, 25)
    Overfetch,          \* OVERFETCH (8)
    TypedId,            \* the number a query of digits is
    Tokens,             \* the tokens there may be, in the order of addresses
    NewRows,            \* what the row of one indexed meanwhile may be
    Catalogs,           \* the tokens, registries, records, built-in names there may be
    MaxRegistry         \* the registries there will ever be

\* A registry's name may differ in case alone, which only the name index folds.
Matches == {"exact", "folded", "prefix", "inside", "none"}
TokenRows == [symbol : Matches, name : Matches, holders : Nat]

ASSUME SearchAssumption ==
    /\ {Limit, PageLimit, Overfetch} \subseteq Nat \ {0} /\ Limit <= PageLimit
    /\ TypedId \in Nat /\ MaxRegistry \in Nat
    /\ IsFiniteSet(Tokens) /\ Tokens \subseteq Nat /\ NewRows \subseteq TokenRows
    /\ Catalogs \subseteq [tokens : [Tokens -> TokenRows], registries : Seq(Matches),
                           records : Nat, names : Seq(Matches)]

VARIABLES
    query,              \* its field and shape, and whether it is a single character
    indexed,            \* what the query names, in the index
    catalog,            \* what is searched by name
    box                 \* what the reader was shown and where it went

searchVars == <<query, indexed, catalog, box>>

\* A bare hash has no 0x before it.  An address is one with it or without.
Shapes == {"number", "#number", "hash", "bare hash", "address", "name"}

Hashes == {"hash", "bare hash"}

\* A field of the anchoring page knows numbers and takes the rest for names, of
\* whatever length.
Whole == {"exact", "folded"}
Begins == Whole \cup {"prefix"}

\* What the query can name: a hash is a block's or a transaction's.
Named ==
    CASE query.shape \in {"number", "#number"} -> {"block"}
      [] query.shape \in Hashes -> {"block", "transaction"}
      [] query.shape = "address" -> {"token"}
      [] OTHER -> {}

NotRow == [symbol |-> "none", name |-> "none", holders |-> 0]

Empty == [pc |-> "typed", list |-> <<>>, answer |-> <<>>,
          asked |-> FALSE, stale |-> FALSE, node |-> {}, then |-> {}]

SearchInit ==
    /\ query \in [field : {"search", "anchoring"}, shape : Shapes, short : BOOLEAN]
    /\ query.short => query.shape \in {"number", "name"}
    /\ query.field = "anchoring" => query.shape \in {"number", "name"} /\ ~query.short
    /\ indexed \in {{}} \cup {{fact} : fact \in Named}
    /\ catalog \in Catalogs
    /\ box = Empty

\* One change between what is shown and Enter: the bound on growth, as the
\* catalogs already differ before.
Changes ==
    /\ box.pc = "typed" /\ box.asked /\ ~box.stale
    /\ box' = [box EXCEPT !.stale = TRUE]

\* A block, with its transactions and token, is indexed.
IndexNamed ==
    /\ Changes
    /\ indexed = {}
    /\ \E fact \in Named : indexed' = {fact}
    /\ UNCHANGED <<query, catalog>>

IndexToken ==
    /\ Changes
    /\ \E t \in Tokens, row \in NewRows :
          /\ catalog.tokens[t] = NotRow
          /\ catalog' = [catalog EXCEPT !.tokens[t] = row]
    /\ UNCHANGED <<query, indexed>>

\* Registries are the contract's state, numbered from 1.
AddRegistry ==
    /\ Changes
    /\ Len(catalog.registries) < MaxRegistry
    /\ \E match \in Matches : catalog' = [catalog EXCEPT !.registries = Append(@, match)]
    /\ UNCHANGED <<query, indexed>>

-----------------------------------------------------------------------------
(* Tokens, by name.                                                        *)

FirstOf(s, n) == SubSeq(s, 1, IF Len(s) < n THEN Len(s) ELSE n)

Row(t) == catalog.tokens[t]

\* The CASE of search_tokens.
TokenTier(t) ==
    CASE Row(t).symbol = "exact" -> 0
      [] Row(t).symbol = "prefix" -> 1
      [] Row(t).name \in Begins -> 2
      [] OTHER -> 3

\* Symbols go up as addresses go down.
BetterToken(s, t) ==
    \/ TokenTier(s) < TokenTier(t)
    \/ TokenTier(s) = TokenTier(t) /\ Row(s).holders > Row(t).holders
    \/ TokenTier(s) = TokenTier(t) /\ Row(s).holders = Row(t).holders /\ s > t

\* One character is not searched for.
SearchTokens(limit) ==
    LET found == {t \in Tokens : {Row(t).symbol, Row(t).name} # {"none"}}
    IN IF query.short THEN <<>>
       ELSE FirstOf(InOrder(found, {p \in found \X found : BetterToken(p[1], p[2])}), limit)

\* The token of that very symbol or name, which may be one character.
TokenBySymbolOrName ==
    LET named == {t \in Tokens : "exact" \in {Row(t).symbol, Row(t).name}}
        better(s, t) == \/ Row(s).holders > Row(t).holders
                        \/ Row(s).holders = Row(t).holders /\ s < t
    IN FirstOf(InOrder(named, {p \in named \X named : better(p[1], p[2])}), 1)

\* The built-in contracts whose name contains the query, best first.
SearchNamed(limit) ==
    LET tier(n) == CASE catalog.names[n] \in Whole -> 0
                     [] catalog.names[n] = "prefix" -> 1
                     [] OTHER -> 2
        better(m, n) == tier(m) < tier(n) \/ (tier(m) = tier(n) /\ m < n)
        found == {n \in DOMAIN catalog.names : catalog.names[n] # "none"}
    IN IF query.short THEN <<>>
       ELSE FirstOf(InOrder(found, {p \in found \X found : better(p[1], p[2])}), limit)

-----------------------------------------------------------------------------
(* Registries and records, by asking the node.  node says what of it       *)
(* answers in time: the contract, the name index.                          *)

Nodes == SUBSET {"contract", "names"}

Registries == DOMAIN catalog.registries

RegistryTier(id) ==
    CASE catalog.registries[id] \in Whole -> 0
      [] catalog.registries[id] = "prefix" -> 1
      [] OTHER -> 2

BetterRegistry(a, b) ==
    RegistryTier(a) < RegistryTier(b) \/ (RegistryTier(a) = RegistryTier(b) /\ a < b)

\* rank: the better first, equals by id.
Ranking(ids) == InOrder(ids, {p \in ids \X ids : BetterRegistry(p[1], p[2])})

\* The contract's part: whole names, by id.
Lookup == Ascending({id \in Registries : catalog.registries[id] = "exact"})

\* The name index answers by id and is asked for more than is shown, to be
\* ranked here (name_search.rs ask).
Matching(node, limit) ==
    LET containing == {id \in Registries : catalog.registries[id] # "none"}
        answer == FirstOf(Ascending(containing), limit * Overfetch)
    IN IF "names" \in node
       THEN FirstOf(Ranking(ToSet(answer)), limit)
       ELSE <<>>

\* Slip: the whole names come a second time.
AnchoringSearchTwice(node, limit) ==
    [registries |-> Lookup \o Matching(node, limit), records |-> catalog.records]

\* What the contract knows comes first, and is struck from the rest (retain).
AnchoringSearch(node, limit) ==
    [registries |-> Lookup \o Ranking(ToSet(Matching(node, limit)) \ ToSet(Lookup)),
     records |-> catalog.records]

Each(kind, ids) == [i \in DOMAIN ids |-> <<kind, ids[i]>>]

Hits(found) == Each("registry", found.registries) \o [n \in 1..found.records |-> <<"record", n>>]

\* anchoring_hits: nothing without the contract.
AnchoringHits(node, limit) ==
    IF "contract" \in node THEN FirstOf(Hits(AnchoringSearch(node, limit)), limit) ELSE <<>>

-----------------------------------------------------------------------------
(* What is suggested.                                                      *)

If(holds, kind) == IF holds THEN <<<<kind, 0>>>> ELSE <<>>

\* Slip: a hash is taken for a transaction's without a look at the blocks.
SuggestHashAsTx == <<<<"transaction", 0>>>>

\* A hash is offered whether indexed or not.
SuggestHash == IF "block" \in indexed THEN <<<<"block", 0>>>> ELSE <<<<"transaction", 0>>>>

SuggestName(node) ==
    Each("token", SearchTokens(Limit))
        \o AnchoringHits(node, Limit)
        \o Each("precompile", SearchNamed(Limit))

SearchSuggest(node) ==
    FirstOf(If("block" \in indexed /\ query.shape \in {"number", "#number"}, "block") \o
              CASE query.shape = "address" -> If("token" \in indexed, "token") \o <<<<"address", 0>>>>
                [] query.shape = "hash" -> SuggestHash
                [] OTHER -> SuggestName(node),
            Limit)

\* In the anchoring page's own field a number is a registry's.
AnchoringSuggest(node) ==
    IF query.shape = "number"
    THEN IF "contract" \in node /\ TypedId \in Registries THEN <<<<"registry", TypedId>>>> ELSE <<>>
    ELSE AnchoringHits(node, Limit)

Suggest ==
    /\ box.pc = "typed" /\ ~box.asked
    /\ \E node \in Nodes :
          box' = [box EXCEPT !.asked = TRUE, !.node = node,
                    !.list = IF query.field = "search" THEN SearchSuggest(node)
                             ELSE AnchoringSuggest(node)]
    /\ UNCHANGED <<query, indexed, catalog>>

-----------------------------------------------------------------------------
(* Where Enter leads.                                                      *)

\* resolve_search: the first of these the index has.  The index takes a hash in
\* either spelling (hex_blob).
ResolveSearch ==
    FirstOf(If("block" \in indexed /\ query.shape = "number", "block")
              \o If("transaction" \in indexed, "transaction")
              \o If("block" \in indexed /\ query.shape \in Hashes, "block")
              \o If(query.shape = "address", "address")
              \o Each("token", TokenBySymbolOrName)
              \o Each("token", SearchTokens(1)), 1)

\* The contract is asked when the index knows nothing.
SearchPage(node) == IF ResolveSearch # <<>> THEN ResolveSearch ELSE AnchoringHits(node, 1)

\* A number is a registry's page; anything else a list, or the node's failure.
AnchoringPage(node) ==
    IF "contract" \notin node THEN <<>>
    ELSE IF query.shape = "number"
    THEN IF TypedId \in Registries THEN <<<<"registry", TypedId>>>> ELSE <<>>
    ELSE Hits(AnchoringSearch(node, PageLimit))

Enter ==
    /\ box.pc = "typed"
    /\ \E node \in Nodes :
          box' = [box EXCEPT !.pc = "entered",
                    !.then = node,
                    !.answer = IF query.field = "search" THEN SearchPage(node) ELSE AnchoringPage(node)]
    /\ UNCHANGED <<query, indexed, catalog>>

SearchNext == IndexNamed \/ IndexToken \/ AddRegistry \/ Suggest \/ Enter

SearchSpec == SearchInit /\ [][SearchNext]_searchVars

-----------------------------------------------------------------------------
(* Properties.                                                             *)

Entered == box.pc = "entered" /\ box.asked /\ box.node = box.then

HashUnknown == query.shape = "hash" /\ indexed = {}
BareHashKnown == query.shape = "bare hash" /\ indexed # {}

\* While index and contract stay as they are, Enter leads to one of the
\* suggestions (web.rs resolve_search), though they come from other queries in
\* another order.  What it finds besides: a token whose name is one character,
\* what a full box had no room for, a text shaped like a hash that is a record's
\* checksum, and a hash the index knows without its 0x, which the box takes for
\* a name (is_hash) and Enter looks up (hex_blob).
EnterLeadsToASuggestion ==
    (Entered /\ ~box.stale /\ query.field = "search") =>
        \/ ToSet(box.answer) \subseteq ToSet(box.list)
        \/ query.short
        \/ Len(box.list) = Limit
        \/ HashUnknown
        \/ BareHashKnown

\* No registry is suggested or listed twice, though contract and name index both
\* know it, and none before one that answers the query better.
BestOnceFirst ==
    \A list \in {box.list, box.answer} : \A i, j \in DOMAIN list :
        (i < j /\ list[i][1] = "registry" /\ list[j][1] = "registry") =>
            list[i] # list[j] /\ RegistryTier(list[i][2]) <= RegistryTier(list[j][2])
=============================================================================
