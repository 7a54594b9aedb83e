------------------------------ MODULE BatchCall ------------------------------
(***************************************************************************)
(* One request with many calls (rpc.rs batch_call), and the two readers    *)
(* that fill the store from it (tokens.rs): the views of tokens, and the   *)
(* balances their holders had at genesis.  Results go to the calls by id,  *)
(* since the node may put them in any order, leave some out, and fail some *)
(* that it would answer another time.                                      *)
(*                                                                         *)
(* What a stored field holds is the call whose answer it is, Silent for the *)
(* default that stands for no answer.  Of the five views there are two     *)
(* here, and each token has one holder.  A client that is told to slow down *)
(* waits and asks the same again.                                          *)
(***************************************************************************)
EXTENDS Naturals, FiniteSets, SequencesExt

CONSTANT Contracts

VARIABLES
  node,      \* what each contract answers: now and at genesis
  request,   \* the request under way, if any: what for, and its calls
  described, \* the token_metadata rows there are
  opening,   \* the genesis balances there are
  unsaid     \* history: the balances whose answer had neither result nor error

batchVars == <<node, request, described, opening, unsaid>>

Views == <<"name", "symbol">>
Silent == <<>>
Failed == <<"failed">>
Null == <<"null">>
Reverted == <<"reverted">>
NoRequest == [for |-> "none", calls |-> <<>>]

\* A contract answers the call, has nothing to say to it ("0x") or reverts.
Manners == {"answers", "lacks", "reverts"}

BatchInit ==
  /\ node \in [Contracts -> [now : Manners \ {"lacks"}, genesis : Manners]]
  /\ request = NoRequest
  /\ described = <<>>
  /\ opening = <<>>
  /\ unsaid = {}

-----------------------------------------------------------------------------
(***************************************************************************)
(* batch_call.                                                             *)
(***************************************************************************)
Call(c, v) == <<c, v>>

\* What the node says of a call, when it gets to it.
Says(call) ==
  LET manner == IF call[2] = "balance" THEN node[call[1]].genesis ELSE node[call[1]].now
  IN  CASE manner = "answers" -> call
        [] manner = "lacks" -> Silent
        [] manner = "reverts" -> Reverted

\* An item brings what the node says, an error of its own, a limit the node
\* enforces or a fault, or neither error nor result.
Outcomes == {"said", "failed", "neither"}

\* The items of an answer: some of the ids, in any order.
Items(ids) == {[i \in DOMAIN ids |-> [id |-> ids[i], brings |-> brought[i]]] :
                 brought \in [DOMAIN ids -> Outcomes]}

Answers(n) ==
  UNION {Items(ids) : ids \in {s \in UNION {[1..k -> 1..n] : k \in 0..n} : IsInjective(s)}}

\* What an item makes of its call: without an error it is Ok, and null if it has
\* no result either.
Outcome(item, call) ==
  CASE item.brings = "said" -> Says(call)
    [] item.brings = "neither" -> Null
    [] OTHER -> Failed

\* Slip: results are taken in the order they come.
ByPosition(calls, items) ==
  [i \in DOMAIN calls |-> IF i > Len(items) THEN Failed
                          ELSE Outcome(items[i], calls[items[i].id])]

\* Results in the order of the calls; one with no item of its id has failed.
Results(calls, items) ==
  [i \in DOMAIN calls |->
     IF \E k \in DOMAIN items : items[k].id = i
     THEN Outcome(items[CHOOSE k \in DOMAIN items : items[k].id = i], calls[i])
     ELSE Failed]

\* A single call goes alone, and its answer is its result: it has no id to
\* look for, and none can be missing.
Answerable(calls) ==
  IF Len(calls) = 1 THEN {items \in Answers(1) : items # <<>>} ELSE Answers(Len(calls))

-----------------------------------------------------------------------------
(***************************************************************************)
(* fetch_token_metadata, for new tokens and for rows worth repairing.      *)
(***************************************************************************)
\* The views of the first token, then those of the second, and so on.
ViewCalls(asked) ==
  [k \in 1..(2 * Len(asked)) |-> Call(asked[(k + 1) \div 2], Views[2 - (k % 2)])]

\* New tokens, or tokens the blocks minted or burned, with a row or without.
AskTokens(asked) ==
  /\ request = NoRequest
  /\ request' = [for |-> "tokens", calls |-> ViewCalls(asked)]
  /\ UNCHANGED <<node, described, opening, unsaid>>

\* Rows whose texts are garbled, or that a fixed name was made up for.
AskRepair(stale) ==
  /\ request = NoRequest
  /\ \A i \in DOMAIN stale : stale[i] \in DOMAIN described
  /\ request' = [for |-> "repair", calls |-> ViewCalls(stale)]
  /\ UNCHANGED <<node, described, opening, unsaid>>

\* A view with an error, or without an answer or a text in it, reads as empty.
Text(result) == IF result \in {Failed, Reverted, Null} THEN Silent ELSE result

\* The rows that come of the results, chunk by chunk.
TokenRows(results) ==
  LET At(c, v) == CHOOSE i \in DOMAIN request.calls : request.calls[i] = Call(c, v)
  IN  [c \in {call[1] : call \in Range(request.calls)} |->
         [name |-> Text(results[At(c, "name")]), symbol |-> Text(results[At(c, "symbol")])]]

\* A token that answers to neither view leaves the row to be repaired as it was.
Upsert(found) ==
  LET empty == {c \in DOMAIN found : found[c] = [name |-> Silent, symbol |-> Silent]}
      saved == IF request.for = "repair" THEN DOMAIN found \ empty ELSE DOMAIN found
  IN  [c \in saved \cup DOMAIN described |->
         IF c \in saved THEN found[c] ELSE described[c]]

TokensAnswered(items) ==
  /\ request.for \in {"tokens", "repair"}
  /\ described' = Upsert(TokenRows(Results(request.calls, items)))
  /\ request' = NoRequest
  /\ UNCHANGED <<node, opening, unsaid>>

-----------------------------------------------------------------------------
(***************************************************************************)
(* balances_at_genesis, for a page of holders none is known of.            *)
(***************************************************************************)
AskBalances(asked) ==
  /\ request = NoRequest
  /\ \A i \in DOMAIN asked : asked[i] \notin DOMAIN opening
  /\ request' = [for |-> "balances", calls |-> [i \in DOMAIN asked |-> Call(asked[i], "balance")]]
  /\ UNCHANGED <<node, described, opening, unsaid>>

\* A token not created yet reverts, and has no balance to speak of; nor has an
\* answer that is null (unwrap_or).
BalanceOf(result) == IF result \in {Reverted, Null} THEN Silent ELSE result

\* Any other error is one of the page, which is read again.
BalancesAnswered(items) ==
  LET results == Results(request.calls, items)
      At(c) == CHOOSE i \in DOMAIN request.calls : request.calls[i][1] = c
      asked == {call[1] : call \in Range(request.calls)}
  IN  /\ request.for = "balances"
      /\ Failed \notin Range(results)
      /\ opening' = [c \in asked \cup DOMAIN opening |->
                       IF c \in asked THEN BalanceOf(results[At(c)]) ELSE opening[c]]
      /\ unsaid' = (unsaid \ asked) \cup {c \in asked : results[At(c)] = Null}
      /\ request' = NoRequest
      /\ UNCHANGED <<node, described>>

\* No answer, none that is a batch, one error for the whole batch, or a balance
\* that was not read: nothing is stored.
Refused ==
  /\ request # NoRequest
  /\ request' = NoRequest
  /\ UNCHANGED <<node, described, opening, unsaid>>

\* Lists of different contracts.
Asked == {s \in BoundedSeq(Contracts, Cardinality(Contracts)) \ {<<>>} : IsInjective(s)}

BatchNext ==
  \/ \E asked \in Asked : AskTokens(asked) \/ AskRepair(asked) \/ AskBalances(asked)
  \/ \E items \in Answerable(request.calls) : TokensAnswered(items) \/ BalancesAnswered(items)
  \/ Refused

BatchSpec == BatchInit /\ [][BatchNext]_batchVars

-----------------------------------------------------------------------------
(***************************************************************************)
(* Properties.                                                             *)
(***************************************************************************)
\* Whatever is missing, failed or out of order, a stored field is the node's
\* answer to that very call or the default.  A genesis balance, which is asked
\* for once and never again, is the node's answer: the default only when the
\* node said the holder has none, or in the one case where it said nothing and
\* the page is not failed for it, an item with neither result nor error (rpc.rs
\* batch_call: "Results come back in request order"; tokens.rs:198).
EachItsOwnAnswer ==
  /\ \A c \in DOMAIN described : \A v \in Range(Views) :
       described[c][v] \in {Silent, Says(Call(c, v))}
  /\ \A c \in DOMAIN opening : 
       opening[c] = IF c \in unsaid THEN Silent ELSE BalanceOf(Says(Call(c, "balance")))

\* tokens.rs:113, fetch_token_metadata: "a token is never stored from an answer
\* the node never gave".  An empty name is one the contract does not have.
EmptyIsAnswered ==
  \A c \in DOMAIN described : \A v \in Range(Views) :
    described[c][v] = Silent => node[c].now # "answers"
=============================================================================
