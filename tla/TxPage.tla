------------------------------- MODULE TxPage -------------------------------
(***************************************************************************)
(* web.rs tx_page and what it calls in decoder.rs and summary.rs: from a   *)
(* stored transaction, its receipt and what the node adds, which calls are *)
(* shown, what each did, which call a failure is named after, and the      *)
(* sentence on top of the page.                                            *)
(*                                                                         *)
(* A transaction is its outcome, its top-level calls, TRUE for one with a  *)
(* destination and FALSE for a CREATE, and whether its receipt carries a   *)
(* reason.  A page view asks the node up to twice: for a trace (WalkInit's *)
(* choice of one, or of none) and for a replay of the calls.               *)
(***************************************************************************)
EXTENDS CallTree, FiniteSets, SequencesExt

CONSTANTS
    MaxCalls,           \* the most top-level calls of a transaction
    MaxActions          \* the most things a transaction does

ASSUME BoundsAssumption == MaxCalls \in Nat /\ MaxActions \in Nat

VARIABLES
    tx,                 \* the transaction
    pc,                 \* where the view stands
    reason,             \* whether a reason for the failure is known
    outcomes,           \* what the replay said of the calls it replayed
    acts,               \* what the transaction did, as its logs will tell it
    known,              \* the events the page has words for
    headline            \* what the summary leads with

pageVars == <<tx, pc, reason, outcomes, acts, known, headline>>
viewVars == <<walkVars, pageVars>>

-----------------------------------------------------------------------------
(* The receipt: each thing a transaction does as the logs it emits.        *)

\* Some places, the lowest first.
Ordered(S) == [k \in 1..Cardinality(S) |-> CHOOSE j \in S : Cardinality(S \cap 1..j) = k]

Payments == {1, 2}      \* a contract, two parties and an amount
Fee == 0                \* a payment to the fee manager

Actions ==
    [kind : {"transfer", "memo"}, what : Payments]
      \cup [kind : {"fee", "bookkeeping", "unknown"}, what : {Fee}]

\* A memo transfer emits Transfer, then TransferWithMemo, for one payment.
LogsOf(act) ==
    CASE act.kind = "memo" -> <<[name |-> "Transfer", what |-> act.what],
                                [name |-> "TransferWithMemo", what |-> act.what]>>
      [] act.kind \in {"transfer", "fee"} -> <<[name |-> "Transfer", what |-> act.what]>>
      [] act.kind = "bookkeeping" -> <<[name |-> "KeyAuthorized", what |-> Fee]>>
      [] act.kind = "unknown" -> <<[name |-> "Other", what |-> Fee]>>

\* Where the logs of the first i things done end.
EndOf(did, i) == i + Cardinality({j \in 1..i : did[j].kind = "memo"})

ReceiptLogs(did) ==
    [p \in 1..EndOf(did, Len(did)) |->
       LET i == CHOOSE i \in DOMAIN did : EndOf(did, i - 1) < p /\ p <= EndOf(did, i)
       IN LogsOf(did[i])[p - EndOf(did, i - 1)]]

\* Slip: any log of the same payment restates it.
RestatedByAny(log, next) == log.name = "Transfer" /\ log.what = next.what

\* The pair of logs of one memo transfer.
RestatedBy(log, next) ==
    /\ log.name = "Transfer"
    /\ next.name = "TransferWithMemo"
    /\ log.what = next.what

\* What a log did, for the logs with a phrasing; a payment to the fee manager
\* is a fee and not something the sender set out to do.
KnownEvent(log) ==
    [name |-> log.name, what |-> log.what,
     isFee |-> log.name = "Transfer" /\ log.what = Fee,
     preferred |-> log.name # "KeyAuthorized",
     note |-> log.name = "TransferWithMemo"]

\* The logs an event is made of.
Told(logs) ==
    {i \in DOMAIN logs : /\ ~(i < Len(logs) /\ RestatedBy(logs[i], logs[i + 1]))
                         /\ logs[i].name # "Other"}

KnownEvents(logs) ==
    LET told == Ordered(Told(logs)) IN [k \in DOMAIN told |-> KnownEvent(logs[told[k]])]

\* The key of min_by_key: bookkeeping after the rest, then fees.
LeadKey(event) == (IF event.preferred THEN 0 ELSE 2) + (IF event.isFee THEN 1 ELSE 0)

\* min_by_key: of equal events, the first.
Leading(events) ==
    CHOOSE i \in DOMAIN events : \A j \in DOMAIN events :
        \/ LeadKey(events[i]) < LeadKey(events[j])
        \/ LeadKey(events[i]) = LeadKey(events[j]) /\ i <= j

-----------------------------------------------------------------------------
(* The calls and what each did.                                            *)

\* A transaction that failed has a root that failed, and one that succeeded
\* has none; the calls below may have failed and been caught.  Its raw calls
\* are not looked at then, and are left out.
TraceFits ==
    trace.size > 0 => /\ tx.ok <=> ~\E c \in trace.failed : trace.parent[c] = 0
                      /\ tx.raw = <<>>

PageInit ==
    /\ WalkInit
    /\ tx \in [ok : BOOLEAN, raw : BoundedSeq(BOOLEAN, MaxCalls), reason : BOOLEAN]
    /\ tx.reason => ~tx.ok
    /\ TraceFits
    /\ pc = "walk"
    /\ reason = tx.reason
    /\ outcomes = <<>>
    /\ acts = <<>>
    /\ known = <<>>
    /\ headline = [kind |-> "none", at |-> 0]

\* A call as the raw transaction gives it, and the one built from the
\* transaction when it has no calls array: nothing says what it did.
RawCall(node, to) ==
    [node |-> node, depth |-> 0, to |-> to, children |-> <<>>, status |-> "none", error |-> FALSE]

RawCalls == [i \in DOMAIN tx.raw |-> RawCall(i, tx.raw[i])]

TopLevelCall == RawCall(1, TRUE)

Walk == pc = "walk" /\ WalkNext /\ UNCHANGED pageVars

\* extract_calls and its fallback.
ExtractCalls ==
    /\ pc = "walk"
    /\ Walked
    /\ calls' = IF calls # <<>> THEN calls
                ELSE IF tx.raw # <<>> THEN RawCalls ELSE <<TopLevelCall>>
    /\ pc' = "resolve"
    /\ UNCHANGED <<trace, stack, tx, reason, outcomes, acts, known, headline>>

\* The first call, when nothing said what it did, mirrors the transaction.
Mirrored(list, why) ==
    IF list[1].status # "none" THEN list
    ELSE [list EXCEPT ![1].status = IF tx.ok THEN "success" ELSE "failed",
                      ![1].error = ~tx.ok /\ why]

Roots == {i \in DOMAIN calls : calls[i].depth = 0}

\* A transaction that succeeded: a lone top-level call did, too.
ResolveSuccess ==
    /\ pc = "resolve"
    /\ tx.ok
    /\ calls' = Mirrored(IF Cardinality(Roots) = 1
                         THEN [calls EXCEPT ![1].status = "success"] ELSE calls, FALSE)
    /\ pc' = "summary"
    /\ UNCHANGED <<trace, stack, tx, reason, outcomes, acts, known, headline>>

ReasonInCalls == \E i \in DOMAIN calls : calls[i].error

\* A transaction that failed, with a reason in its receipt or on its calls.
ResolveFailure ==
    /\ pc = "resolve"
    /\ ~tx.ok
    /\ reason \/ ReasonInCalls
    /\ reason' = TRUE
    /\ calls' = Mirrored(calls, TRUE)
    /\ pc' = "summary"
    /\ UNCHANGED <<trace, stack, tx, outcomes, acts, known, headline>>

\* The calls replay_tx_calls asks for: those with a destination, in order.
Replayable == {i \in DOMAIN tx.raw : tx.raw[i]}

\* Slip: the outcomes are laid on the calls one by one.
ReplayedInStep ==
    [i \in DOMAIN calls |-> IF calls[i].depth = 0 THEN i ELSE 0]

\* Which outcome a call gets: its place among the top-level calls with a
\* destination; 0 for the others.
Replayed ==
    [i \in DOMAIN calls |->
       IF calls[i].depth = 0 /\ calls[i].to
       THEN Cardinality({j \in 1..i : calls[j].depth = 0 /\ calls[j].to}) ELSE 0]

\* apply_replay_outcomes: up to the first call that reverted.
Reached(out, place) ==
    place \in 1..Len(out) /\ \A k \in 1..(place - 1) : out[k] = "ok"

Apply(out) ==
    [i \in DOMAIN calls |->
       IF ~Reached(out, Replayed[i]) THEN calls[i]
       ELSE IF out[Replayed[i]] = "ok" THEN [calls[i] EXCEPT !.status = "success"]
       ELSE [calls[i] EXCEPT !.status = "failed", !.error = TRUE]]

\* A transaction that failed and nobody says why: its calls are replayed.  Each
\* is replayed by itself at the end of the block, so any may pass or revert;
\* the batch may fail as a whole, and then nothing is known of any call.
Replay ==
    /\ pc = "resolve"
    /\ ~tx.ok
    /\ ~reason /\ ~ReasonInCalls
    /\ \E out \in [1..Cardinality(Replayable) -> {"ok", "reverted"}] \cup {<<>>} :
          LET why == \E k \in DOMAIN out : out[k] = "reverted" IN
          /\ outcomes' = out
          /\ reason' = why
          /\ calls' = Mirrored(Apply(out), why)
    /\ pc' = "summary"
    /\ UNCHANGED <<trace, stack, tx, acts, known, headline>>

-----------------------------------------------------------------------------
(* The summary.                                                            *)

FailedCalls == {i \in DOMAIN calls : calls[i].status = "failed"}

\* Slip: of calls equally deep, the first.
BlamedFirst ==
    CHOOSE i \in FailedCalls : \A j \in FailedCalls :
        \/ calls[j].depth < calls[i].depth
        \/ calls[j].depth = calls[i].depth /\ i <= j

\* failure_of: the deepest failed call, and of calls equally deep the last
\* (max_by_key).
Blamed ==
    CHOOSE i \in FailedCalls : \A j \in FailedCalls :
        \/ calls[j].depth < calls[i].depth
        \/ calls[j].depth = calls[i].depth /\ j <= i

\* build_summary of a transaction that succeeded: its leading event.
Lead(events) ==
    IF events = <<>> THEN [kind |-> "none", at |-> 0] ELSE [kind |-> "event", at |-> Leading(events)]

\* failure_summary: the call that is blamed, when its function has a name, or
\* else the first event that is not bookkeeping.
FailureLead(events, named) ==
    LET preferred == {i \in DOMAIN events : events[i].preferred} IN
    IF FailedCalls # {} /\ named THEN [kind |-> "call", at |-> Blamed]
    ELSE IF preferred # {} THEN [kind |-> "event", at |-> First(preferred)]
    ELSE [kind |-> "none", at |-> 0]

\* named: whether an ABI or the signature directory has a name for the call.
Summarise ==
    /\ pc = "summary"
    /\ \E did \in BoundedSeq(Actions, MaxActions), named \in BOOLEAN :
          LET events == KnownEvents(ReceiptLogs(did)) IN
          /\ acts' = did
          /\ known' = events
          /\ headline' = IF tx.ok THEN Lead(events) ELSE FailureLead(events, named)
    /\ pc' = "done"
    /\ UNCHANGED <<walkVars, tx, reason, outcomes>>

Done == pc = "done" /\ UNCHANGED viewVars

PageNext == Walk \/ ExtractCalls \/ ResolveSuccess \/ ResolveFailure \/ Replay \/ Summarise \/ Done

PageSpec == PageInit /\ [][PageNext]_viewVars

-----------------------------------------------------------------------------
(* Properties.                                                             *)

HasTrace == trace.size > 0

\* A replayed call shows its own outcome, never a neighbour's, and a call after
\* the one that reverted shows none (web.rs apply_replay_outcomes, whose
\* outcomes skip the calls replay_tx_calls could not ask for).
EachCallItsOutcome ==
    (pc = "done" /\ outcomes # <<>>) =>
        \A i \in DOMAIN calls :
            calls[i].to =>
                LET Place(j) == Cardinality(Replayable \cap 1..j)
                    before == {j \in 1..(i - 1) : tx.raw[j] /\ outcomes[Place(j)] = "reverted"}
                IN calls[i].status = IF before # {} THEN "none"
                                     ELSE IF outcomes[Place(i)] = "ok" THEN "success" ELSE "failed"

\* The call a failure is named after made no call that failed, and is the one
\* the replay found reverting when there was a replay (web.rs failure_of).
BlameIsWarranted ==
    (pc = "done" /\ headline.kind = "call") =>
        /\ HasTrace => Kids(calls[headline.at].node) \cap trace.failed = {}
        /\ HasTrace => calls[headline.at].node \in trace.failed
        /\ (\E k \in DOMAIN outcomes : outcomes[k] = "reverted") => calls[headline.at].to

\* Every payment is told once, in order, and with its memo: a memo transfer is
\* one event, and two equal transfers are two (summary.rs restated_by).
EachActionSaidOnce ==
    pc = "done" =>
        LET said == Ordered({i \in DOMAIN acts : acts[i].kind # "unknown"}) IN
        /\ Len(known) = Len(said)
        /\ \A k \in DOMAIN known :
              /\ known[k].what = acts[said[k]].what
              /\ known[k].note <=> acts[said[k]].kind = "memo"
=============================================================================
