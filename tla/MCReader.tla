------------------------------ MODULE MCReader ------------------------------
(***************************************************************************)
(* A reader of the explorer, who either pages through a listing or searches. *)
(* The two share no state, so a behaviour has the one and rests the other. *)
(***************************************************************************)
EXTENDS Listing, Search

vars == <<listingVars, searchVars>>

\* Three tokens, two of as many holders.
MCTokens == 1..3
MCHolders == <<1, 1, 0>>

\* One row for each way to be found: each tier, and by name exactly beside
\* a symbol that only contains the query.
MCPairs == {<<"exact", "none">>, <<"inside", "exact">>, <<"prefix", "none">>,
            <<"none", "prefix">>, <<"none", "inside">>}
MCRow(t) == {NotRow} \cup {[symbol |-> p[1], name |-> p[2], holders |-> MCHolders[t]] : p \in MCPairs}
MCTables == {f \in [MCTokens -> UNION {MCRow(t) : t \in MCTokens}] : \A t \in MCTokens : f[t] \in MCRow(t)}
NoTokens == [t \in MCTokens |-> NotRow]
OneToken == [NoTokens EXCEPT ![1] = [symbol |-> "none", name |-> "inside", holders |-> 1]]

\* The best and the worst a token can answer.
MCNewRows == {[symbol |-> "exact", name |-> "none", holders |-> 1],
              [symbol |-> "none", name |-> "inside", holders |-> 0]}

MCNames == <<"inside", "prefix">>

\* Every table of tokens with two registries, and any three registries with
\* hardly a token.
MCCatalogs ==
    {[tokens |-> table, registries |-> <<"inside", "exact">>, records |-> 1, names |-> MCNames] :
        table \in MCTables}
    \cup
    {[tokens |-> table, registries |-> ids, records |-> n, names |-> MCNames] :
        table \in {NoTokens, OneToken}, ids \in BoundedSeq(Matches \ {"none"}, 3), n \in 0..1}

Pages ==
    /\ ListingInit
    /\ query = [field |-> "none"] /\ indexed = {} /\ catalog = <<>>
    /\ box = [pc |-> "none", list |-> <<>>, answer |-> <<>>]

Searches ==
    /\ SearchInit
    /\ lo = 1 /\ hi = 0 /\ role = <<>> /\ counted = {} /\ listing = "none" /\ reader = [pc |-> "idle"]

Init == Pages \/ Searches

Next ==
    \/ listing # "none" /\ ListingNext /\ UNCHANGED searchVars
    \/ listing = "none" /\ SearchNext /\ UNCHANGED listingVars

Spec == Init /\ [][Next]_vars
=============================================================================
