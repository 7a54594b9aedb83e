------------------------------ MODULE Indexer -------------------------------
(***************************************************************************)
(* The block pipeline of src/indexer.rs: a feed of chain heads, the        *)
(* forward loop that follows them, the backfill loop that descends to      *)
(* block 1, one channel both send on, and the writer that empties it.  A   *)
(* bundle is its block number here; Ledger models what writing one does.   *)
(*                                                                         *)
(* Whatever a loop holds in memory is lost when the process stops, and a   *)
(* power loss takes the last commits too.                                  *)
(***************************************************************************)
EXTENDS Integers, FiniteSets, Sequences, Ranges

CONSTANTS
  FirstHead,     \* the chain's height when the explorer first runs
  MaxHead,       \* bound: the height the chain stops growing at
  FetchBatch,    \* blocks one range asks for (cfg.batch)
  QueueCap,      \* bundles the channel holds (1024 in the code)
  MaxBatch,      \* bundles one commit carries (MAX_BATCH, 64 in the code)
  TipYieldLag,   \* TIP_YIELD_LAG: the lag at which backfill gives way
  RestartLimit   \* bound: how often the process may restart

ASSUME PipelineAssumption ==
  /\ FirstHead \in Nat \ {0}
  /\ MaxHead \in Nat
  /\ FirstHead <= MaxHead
  /\ FetchBatch \in Nat \ {0}
  /\ QueueCap \in Nat \ {0}
  /\ MaxBatch \in Nat \ {0}
  /\ TipYieldLag \in Nat
  /\ RestartLimit \in Nat

Block == 1..MaxHead

\* 0 stands for None, and for the forward loop's "nothing sent yet".
None == 0

-----------------------------------------------------------------------------
VARIABLES
  chain,      \* the chain's height
  heads,      \* the highest head announced and not yet received, if any
  forward,    \* the forward loop: pc, sent, head, upTo, bundles
  backfill,   \* the backfill loop: pc, frontier, bundles
  pending,    \* blocks sent to the writer and not yet written, in order
  taken,      \* how many of them, from the front, are the writer's batch
  stored,     \* blocks on record
  durable,    \* blocks on record that a power loss would leave
  tipLag,     \* the lag the forward loop last published
  chainHead,  \* the head it last published, for the statistics
  restarts    \* bound: restarts so far

vars == <<chain, heads, forward, backfill, pending, taken, stored, durable,
          tipLag, chainHead, restarts>>

writer == <<pending, taken, stored, durable>>

\* A task that has not run yet.
NewForward  == [pc |-> "start", sent |-> None, head |-> 0, upTo |-> 0, bundles |-> {}]
NewBackfill == [pc |-> "start", frontier |-> None, bundles |-> {}]

Init ==
  /\ chain = FirstHead
  /\ heads = {}
  /\ forward = NewForward
  /\ backfill = NewBackfill
  /\ pending = <<>>
  /\ taken = 0
  /\ stored = {}
  /\ durable = {}
  /\ tipLag = 0
  /\ chainHead = 0
  /\ restarts = 0

\* The channel takes one more bundle; a send waits until it does.
Room == Len(pending) - taken < QueueCap

\* get_latest_block and get_min_block_number, None on an empty table.
Latest(n)    == IF stored = {} THEN n = None ELSE IsHighest(n, stored)
MinNumber(n) == IF stored = {} THEN n = None ELSE IsLowest(n, stored)

-----------------------------------------------------------------------------
(***************************************************************************)
(* The node.  It announces the head it had when it was asked: the poll and *)
(* the subscription race, and the slower one brings an older head.  Who    *)
(* receives drains the queue to its highest head, so that one stands for   *)
(* all that are queued.                                                    *)
(***************************************************************************)
Grow ==
  /\ chain < MaxHead
  /\ chain' = chain + 1
  /\ UNCHANGED <<heads, forward, backfill, writer, tipLag, chainHead, restarts>>

Announce(head) ==
  /\ \A h \in heads : h < head
  /\ heads' = {head}
  /\ UNCHANGED <<chain, forward, backfill, writer, tipLag, chainHead, restarts>>

-----------------------------------------------------------------------------
(***************************************************************************)
(* The forward loop.                                                       *)
(***************************************************************************)
StartForward ==
  /\ forward.pc = "start"
  /\ \E n \in Block \cup {None} :
       Latest(n) /\ forward' = [forward EXCEPT !.pc = "recv", !.sent = n]
  /\ UNCHANGED <<chain, heads, backfill, writer, tipLag, chainHead, restarts>>

\* All queued heads fold into the highest.  On a fresh database the loop then
\* waits for the backfill to seed it.
ReceiveHeads ==
  /\ forward.pc = "recv"
  /\ \E head \in heads :
       /\ IsHighest(head, heads)
       /\ chainHead' = head
       /\ forward' = [forward EXCEPT
                        !.pc   = IF forward.sent = None THEN "seed" ELSE "loop",
                        !.head = head]
  /\ heads' = {}
  /\ UNCHANGED <<chain, backfill, writer, tipLag, restarts>>

SeedFound ==
  /\ forward.pc = "seed"
  /\ \E n \in stored :
       /\ IsHighest(n, stored)
       /\ forward' = [forward EXCEPT
                        !.pc   = IF n >= forward.head THEN "recv" ELSE "loop",
                        !.sent = n]
  /\ UNCHANGED <<chain, heads, backfill, writer, tipLag, chainHead, restarts>>

\* Five seconds, and still nothing on record: wait for another head.
SeedTimeout ==
  /\ forward.pc = "seed"
  /\ stored = {}
  /\ forward' = [forward EXCEPT !.pc = "recv"]
  /\ UNCHANGED <<chain, heads, backfill, writer, tipLag, chainHead, restarts>>

\* Once round the catch-up: newer heads, the lag, and a range to ask for.
CatchUp ==
  /\ forward.pc = "loop"
  /\ forward.sent < forward.head
  /\ \E head \in heads \cup {forward.head} :
       /\ IsHighest(head, heads \cup {forward.head})
       /\ chainHead' = head
       /\ tipLag' = head - forward.sent
       /\ \E n \in Block :
            /\ IsLowest(n, {forward.sent + FetchBatch, head})
            /\ forward' = [forward EXCEPT !.pc = "fetch", !.head = head, !.upTo = n]
  /\ heads' = {}
  /\ UNCHANGED <<chain, backfill, writer, restarts>>

\* The node answers with some of the blocks asked for.  Nothing that runs on
\* from `sent`: ask again.
ForwardFetched(answer) ==
  LET kept == ContiguousFrom(answer, forward.sent + 1)
  IN  /\ forward.pc = "fetch"
      /\ answer \subseteq (forward.sent + 1)..forward.upTo
      /\ forward' = [forward EXCEPT !.pc      = IF kept = {} THEN "loop" ELSE "send",
                                    !.upTo    = 0,
                                    !.bundles = kept]
      /\ UNCHANGED <<chain, heads, backfill, writer, tipLag, chainHead, restarts>>

\* Slip: the cut range counts as the whole range.
ForwardSendWhole ==
  /\ forward.pc = "send"
  /\ Room
  /\ \E n \in forward.bundles :
       LET rest == forward.bundles \ {n}
       IN  /\ IsLowest(n, forward.bundles)
           /\ pending' = Append(pending, n)
           /\ forward' = [forward EXCEPT
                            !.bundles = rest,
                            !.pc      = IF rest = {} THEN "loop" ELSE "send",
                            !.sent    = IF rest = {} THEN forward.head ELSE @]
  /\ UNCHANGED <<chain, heads, backfill, taken, stored, durable, tipLag, chainHead, restarts>>

ForwardSend ==
  /\ forward.pc = "send"
  /\ Room
  /\ \E n \in forward.bundles :
       LET rest == forward.bundles \ {n}
       IN  /\ IsLowest(n, forward.bundles)
           /\ pending' = Append(pending, n)
           /\ forward' = [forward EXCEPT
                            !.bundles = rest,
                            !.pc      = IF rest = {} THEN "loop" ELSE "send",
                            !.sent    = IF rest = {} THEN n ELSE @]
  /\ UNCHANGED <<chain, heads, backfill, taken, stored, durable, tipLag, chainHead, restarts>>

\* Slip: the lag is never taken back once the loop is at the tip.
CaughtUpStillLagging ==
  /\ forward.pc = "loop"
  /\ forward.sent >= forward.head
  /\ forward' = [forward EXCEPT !.pc = "recv"]
  /\ UNCHANGED <<chain, heads, backfill, writer, tipLag, chainHead, restarts>>

CaughtUp ==
  /\ forward.pc = "loop"
  /\ forward.sent >= forward.head
  /\ tipLag' = 0
  /\ forward' = [forward EXCEPT !.pc = "recv"]
  /\ UNCHANGED <<chain, heads, backfill, writer, chainHead, restarts>>

-----------------------------------------------------------------------------
(***************************************************************************)
(* The backfill loop.                                                      *)
(***************************************************************************)
StartBackfill ==
  /\ backfill.pc = "start"
  /\ \E n \in Block \cup {None} :
       MinNumber(n) /\ backfill' = [backfill EXCEPT !.pc = "loop", !.frontier = n]
  /\ UNCHANGED <<chain, heads, forward, writer, tipLag, chainHead, restarts>>

\* At the bottom: rest for a poll interval ...
Rest ==
  /\ backfill.pc = "loop"
  /\ tipLag <= TipYieldLag
  /\ backfill.frontier = 1
  /\ backfill' = [backfill EXCEPT !.pc = "rest"]
  /\ UNCHANGED <<chain, heads, forward, writer, tipLag, chainHead, restarts>>

\* ... and look at what is on record again.
RereadFrontier ==
  /\ backfill.pc = "rest"
  /\ \E n \in Block \cup {None} :
       MinNumber(n) /\ backfill' = [backfill EXCEPT !.pc = "loop", !.frontier = n]
  /\ UNCHANGED <<chain, heads, forward, writer, tipLag, chainHead, restarts>>

\* The block the next range ends at: below the frontier, or the node's head.
BackfillTop(n) ==
  IF backfill.frontier = None THEN n \in FirstHead..chain
                              ELSE n = backfill.frontier - 1 /\ n >= 1

BackfillRange(top) == {n \in Block : top - FetchBatch < n /\ n <= top}

\* A range that brings nothing that runs down from its top changes nothing;
\* the loop asks again.
BackfillFetched(top, answer) ==
  LET kept == ContiguousDownTo(answer, top)
  IN  /\ backfill.pc = "loop"
      /\ tipLag <= TipYieldLag
      /\ BackfillTop(top)
      /\ answer \subseteq BackfillRange(top)
      /\ kept # {}
      /\ backfill' = [backfill EXCEPT !.pc = "send", !.bundles = kept]
      /\ UNCHANGED <<chain, heads, forward, writer, tipLag, chainHead, restarts>>

\* Slip: the range goes out lowest block first.
BackfillSendAscending ==
  /\ backfill.pc = "send"
  /\ Room
  /\ \E n \in backfill.bundles :
       LET rest == backfill.bundles \ {n}
       IN  /\ IsLowest(n, backfill.bundles)
           /\ pending' = Append(pending, n)
           /\ backfill' = [backfill EXCEPT
                             !.bundles  = rest,
                             !.pc       = IF rest = {} THEN "loop" ELSE "send",
                             !.frontier = IF rest = {} THEN n ELSE @]
  /\ UNCHANGED <<chain, heads, forward, taken, stored, durable, tipLag, chainHead, restarts>>

\* Tip first.
BackfillSend ==
  /\ backfill.pc = "send"
  /\ Room
  /\ \E n \in backfill.bundles :
       LET rest == backfill.bundles \ {n}
       IN  /\ IsHighest(n, backfill.bundles)
           /\ pending' = Append(pending, n)
           /\ backfill' = [backfill EXCEPT
                             !.bundles  = rest,
                             !.pc       = IF rest = {} THEN "loop" ELSE "send",
                             !.frontier = IF rest = {} THEN n ELSE @]
  /\ UNCHANGED <<chain, heads, forward, taken, stored, durable, tipLag, chainHead, restarts>>

-----------------------------------------------------------------------------
(***************************************************************************)
(* The writer.  A write that fails is tried again with the same batch.     *)
(***************************************************************************)
TakeBatch ==
  /\ taken = 0
  /\ pending # <<>>
  /\ taken' = IF Len(pending) < MaxBatch THEN Len(pending) ELSE MaxBatch
  /\ UNCHANGED <<chain, heads, forward, backfill, pending, stored, durable,
                 tipLag, chainHead, restarts>>

\* Slip: a batch whose write fails is dropped instead of tried again.
CommitOrDropBatch ==
  /\ taken > 0
  /\ stored' \in {stored, stored \cup {pending[i] : i \in 1..taken}}
  /\ pending' = SubSeq(pending, taken + 1, Len(pending))
  /\ taken' = 0
  /\ UNCHANGED <<chain, heads, forward, backfill, durable, tipLag, chainHead, restarts>>

CommitBatch ==
  /\ taken > 0
  /\ stored' = stored \cup {pending[i] : i \in 1..taken}
  /\ pending' = SubSeq(pending, taken + 1, Len(pending))
  /\ taken' = 0
  /\ UNCHANGED <<chain, heads, forward, backfill, durable, tipLag, chainHead, restarts>>

\* The write-ahead log reaches the disk.
Checkpoint ==
  /\ durable # stored
  /\ durable' = stored
  /\ UNCHANGED <<chain, heads, forward, backfill, pending, taken, stored,
                 tipLag, chainHead, restarts>>

\* A shutdown or a crash leaves what is committed, a power loss what is on
\* disk; everything else starts over.
Restart(left) ==
  /\ restarts < RestartLimit
  /\ restarts' = restarts + 1
  /\ stored' = left
  /\ forward' = NewForward
  /\ backfill' = NewBackfill
  /\ heads' = {}
  /\ pending' = <<>>
  /\ taken' = 0
  /\ tipLag' = 0
  /\ chainHead' = 0
  /\ UNCHANGED <<chain, durable>>

-----------------------------------------------------------------------------
Next ==
  \/ Grow
  \/ \E head \in FirstHead..chain : Announce(head)
  \/ StartForward
  \/ ReceiveHeads
  \/ SeedFound
  \/ SeedTimeout
  \/ CatchUp
  \/ \E answer \in SUBSET ((forward.sent + 1)..forward.upTo) : ForwardFetched(answer)
  \/ ForwardSend
  \/ CaughtUp
  \/ StartBackfill
  \/ Rest
  \/ RereadFrontier
  \/ \E top \in Block : \E answer \in SUBSET BackfillRange(top) : BackfillFetched(top, answer)
  \/ BackfillSend
  \/ TakeBatch
  \/ CommitBatch
  \/ Checkpoint
  \/ \E left \in {stored, durable} : Restart(left)

Spec == Init /\ [][Next]_vars

-----------------------------------------------------------------------------
(***************************************************************************)
(* Scheduling.  A task that can go on is polled until it does (WF).  The   *)
(* channel's permits are handed out in order, so no sender is passed over  *)
(* for ever (SF).  The node goes on being polled, and a loop that asks     *)
(* again and again for blocks that exist gets them in the end (SF of the   *)
(* whole answer); a write that is tried again succeeds in the end.         *)
(***************************************************************************)
RunForward ==
  \/ StartForward \/ ReceiveHeads \/ SeedFound \/ CatchUp \/ CaughtUp
  \/ \E answer \in SUBSET ((forward.sent + 1)..forward.upTo) : ForwardFetched(answer)

RunBackfill ==
  \/ StartBackfill \/ Rest \/ RereadFrontier
  \/ \E top \in Block : \E answer \in SUBSET BackfillRange(top) : BackfillFetched(top, answer)

RunWriter == TakeBatch \/ CommitBatch

Fairness ==
  /\ WF_vars(Announce(chain))
  /\ WF_vars(RunForward)
  /\ SF_vars(ForwardFetched((forward.sent + 1)..forward.upTo))
  /\ SF_vars(ForwardSend)
  /\ WF_vars(RunBackfill)
  /\ SF_vars(BackfillSend)
  /\ WF_vars(RunWriter)

FairSpec == Spec /\ Fairness

-----------------------------------------------------------------------------
(***************************************************************************)
(* Properties.                                                             *)
(***************************************************************************)
TypeOK ==
  /\ chain \in FirstHead..MaxHead
  /\ heads \in SUBSET (FirstHead..chain)
  /\ forward \in [pc : {"start", "recv", "seed", "loop", "fetch", "send"},
                  sent : Block \cup {None}, head : 0..MaxHead, upTo : 0..MaxHead,
                  bundles : SUBSET Block]
  /\ backfill \in [pc : {"start", "loop", "rest", "send"},
                   frontier : Block \cup {None}, bundles : SUBSET Block]
  /\ pending \in Seq(Block)
  /\ taken \in 0..Len(pending)
  /\ stored \in SUBSET Block
  /\ durable \in SUBSET Block
  /\ tipLag \in 0..MaxHead
  /\ chainHead \in 0..MaxHead
  /\ restarts \in Nat

\* The blocks on record or on their way there.
AllSent == stored \cup {pending[i] : i \in 1..Len(pending)}

\* A chain long enough that backfill cannot send all of it before the writer
\* has committed something.
LongChain == FirstHead > QueueCap + MaxBatch

\* No commit, and so no crash, leaves a hole: neither loop would come back for
\* one (contiguous_from, contiguous_down_to, the order on the channel).
NoHoles == IsInterval(stored) /\ IsInterval(durable)

\* What the loops' positions say is done is on record or on its way: every
\* block from the frontier up to `sent`.
NothingSkipped ==
  forward.sent # None /\ backfill.frontier # None =>
    backfill.frontier..forward.sent \subseteq AllSent

\* A database that is not empty reaches up to a head the node announced: the
\* first block on record is the tip, which the forward loop starts from.
TipFirst == stored # {} => \E n \in stored : n >= FirstHead

\* The pipeline keeps the promise of an index: a run of blocks that commits
\* extend at its ends and a power loss cuts back to what it was.
Index == INSTANCE BlockIndex WITH index <- stored, kept <- durable
IsAnIndex == Index!Spec

\* Once the chain stops, the whole of it is indexed: yielding to the tip, a
\* seed that times out, failed fetches and full queues only delay that.
CatchesUp == <>[](stored = 1..chain)

\* indexer.rs, backfill_loop: "Writes are idempotent, so a crash just
\* re-fetches the last in-flight batch."  What a start finds on record has no
\* hole below which or above which the loops go on.
CrashCostsTheBatchOnly ==
  forward.pc = "start" /\ backfill.pc = "start" => IsInterval(stored)

=============================================================================
