----------------------------- MODULE Anchoring -----------------------------
(***************************************************************************)
(* The anchoring rows (src/indexer.rs, backfill_anchoring): blocks an      *)
(* older build indexed have none, so a task fills them in from the node's  *)
(* logs, window by window behind a watermark, beside the writer whose      *)
(* blocks bring their own.                                                 *)
(*                                                                         *)
(* Every block has one anchoring write.  A request the node does not       *)
(* answer changes nothing but the pause before the next.                   *)
(***************************************************************************)
EXTENDS Integers

CONSTANTS
  Legacy,       \* blocks on record from a build without the table
  FirstHead,    \* the chain's height at the first start
  MaxHead,      \* bound: the height the chain stops growing at
  Window,       \* WINDOW, blocks of the first request
  RestartLimit  \* bound: how often the process may restart

Block == 1..MaxHead

ASSUME AnchoringAssumption ==
  /\ FirstHead \in Nat
  /\ MaxHead \in Nat
  /\ FirstHead <= MaxHead
  /\ Legacy \subseteq 1..FirstHead
  /\ Window \in Nat \ {0}
  /\ RestartLimit \in Nat

VARIABLES
  chain,      \* the chain's height
  stored,     \* blocks on record
  rows,       \* blocks whose anchoring rows are on record
  watermark,  \* anchoring_backfilled_to
  task,       \* the backfill: pc, from, window and the head it stops at
  restarts    \* bound: restarts so far

vars == <<chain, stored, rows, watermark, task, restarts>>

Starting == [pc |-> "start", from |-> 0, window |-> Window, head |-> 0]

Init ==
  /\ chain = FirstHead
  /\ stored = Legacy
  /\ rows = {}
  /\ watermark = 0
  /\ task = Starting
  /\ restarts = 0

Grow ==
  /\ chain < MaxHead
  /\ chain' = chain + 1
  /\ UNCHANGED <<stored, rows, watermark, task, restarts>>

\* A block is written with the rows its receipts bring.
IndexBlock(n) ==
  /\ n \in 1..chain \ stored
  /\ stored' = stored \cup {n}
  /\ rows' = rows \cup {n}
  /\ UNCHANGED <<chain, watermark, task, restarts>>

\* A node that lags answers with an older head.
Start(head) ==
  /\ task.pc = "start"
  /\ head <= chain
  /\ task' = IF watermark >= head
             THEN [task EXCEPT !.pc = "done"]
             ELSE [pc |-> "ask", from |-> watermark, window |-> Window, head |-> head]
  /\ UNCHANGED <<chain, stored, rows, watermark, restarts>>

\* The head, or the save of a window, fails: the task is over until a restart.
Fail ==
  /\ task.pc \in {"start", "save"}
  /\ task' = [task EXCEPT !.pc = "failed"]
  /\ UNCHANGED <<chain, stored, rows, watermark, restarts>>

\* The last block of the window.
To == IF task.from + task.window - 1 < task.head THEN task.from + task.window - 1 ELSE task.head

Answer ==
  /\ task.pc = "ask"
  /\ task' = [task EXCEPT !.pc = "save"]
  /\ UNCHANGED <<chain, stored, rows, watermark, restarts>>

\* The node answers with an error: half the window, until it is one block.
Refuse ==
  /\ task.pc = "ask"
  /\ task' = IF task.window = 1 THEN [task EXCEPT !.pc = "failed"]
                                ELSE [task EXCEPT !.window = @ \div 2]
  /\ UNCHANGED <<chain, stored, rows, watermark, restarts>>

\* One transaction: the rows of the blocks on record by now, and the watermark.
SaveWindow(reached, next) ==
  /\ task.pc = "save"
  /\ rows' = rows \cup ((task.from..To) \cap stored)
  /\ watermark' = reached
  /\ task' = [task EXCEPT !.pc = IF next > task.head THEN "done" ELSE "ask", !.from = next]
  /\ UNCHANGED <<chain, stored, restarts>>

\* Slip: the watermark is the head the task set out for.
SaveAtHead == SaveWindow(task.head, To + 1)

\* Slip: the next window starts at the watermark, as a restart does.
SaveOverlapping == SaveWindow(To, To)

Save == SaveWindow(To, To + 1)

Restart ==
  /\ restarts < RestartLimit
  /\ restarts' = restarts + 1
  /\ task' = Starting
  /\ UNCHANGED <<chain, stored, rows, watermark>>

Next ==
  \/ Grow
  \/ \E n \in Block : IndexBlock(n)
  \/ \E head \in 0..chain : Start(head)
  \/ Answer \/ Refuse \/ Save \/ Fail
  \/ Restart

Spec == Init /\ [][Next]_vars

\* The node answers in the end, with logs or with an error.
FairSpec == Spec /\ WF_vars(Answer \/ Refuse) /\ WF_vars(Save \/ Fail)

-----------------------------------------------------------------------------
TypeOK ==
  /\ chain \in FirstHead..MaxHead
  /\ stored \subseteq Block
  /\ rows \subseteq stored
  /\ watermark \in 0..MaxHead
  /\ task \in [pc : {"start", "ask", "save", "done", "failed"}, from : 0..(MaxHead + 1),
               window : 1..Window, head : 0..MaxHead]
  /\ restarts \in 0..RestartLimit

\* No block on record behind the watermark lacks its rows, whichever of the
\* writer and the backfill came to it first: no start goes back for one.
RowsBehindWatermark == \A n \in stored : n <= watermark => n \in rows

\* A backfill that has its head comes to an end, however often the node refuses.
Ends == task.pc = "ask" ~> task.pc \in {"done", "failed", "start"}

=============================================================================
