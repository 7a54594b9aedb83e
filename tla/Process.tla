------------------------------ MODULE Process -------------------------------
(***************************************************************************)
(* The tasks of the process and how they end: the head watcher, the        *)
(* forward and backfill loops and the writer of src/indexer.rs, each       *)
(* waiting on another, and src/main.rs, which on a signal raises one flag, *)
(* lets the connections finish and gives the indexer a window to flush.    *)
(*                                                                         *)
(* What the loops fetch and write is Indexer's; here a range is one block, *)
(* a bundle is a place in the channel, and the loops are what they wait    *)
(* for.  Requests end by themselves (30 seconds); how long a second is     *)
(* next to another is left out.  A second signal, which exits at once, is  *)
(* a crash to the other modules.                                           *)
(***************************************************************************)
EXTENDS HeadWatcher

CONSTANTS
  QueueCap,   \* bundles the channel to the writer holds (1024)
  MaxBatch,   \* bundles one commit carries (64)
  MaxOpen     \* bound: connections open at once

ASSUME ProcessAssumption ==
  QueueCap \in Nat \ {0} /\ MaxBatch \in Nat \ {0} /\ MaxOpen \in Nat

VARIABLES
  backfill,   \* "look" (fetching or resting), "send", "gone"
  bundles,    \* bundles in the channel to the writer
  writer,     \* "recv", "write", "retry" (a write failed), "gone"
  main,       \* "serve", "flush" (the indexer is awaited), "exited", "cut"
  open        \* connections in flight, while the server is there

indexerVars == <<forward, backfill, bundles, writer>>
mainVars == <<main, open>>
vars == <<chain, shutdown, watcherVars, indexerVars, mainVars>>

Init ==
  /\ chain = 0
  /\ shutdown = FALSE
  /\ WatcherInit
  /\ forward = [pc |-> "recv", sent |-> 0, head |-> 0]
  /\ backfill = "look"
  /\ bundles = 0
  /\ writer = "recv"
  /\ main = "serve"
  /\ open = 0

Grow ==
  /\ chain < MaxHead
  /\ chain' = chain + 1
  /\ UNCHANGED <<shutdown, watcherVars, indexerVars, mainVars>>

-----------------------------------------------------------------------------
(***************************************************************************)
(* The forward loop.                                                       *)
(***************************************************************************)
\* What a task held goes with it, the channel it receives from included.
ForwardGone == [pc |-> "gone", sent |-> 0, head |-> 0]

BundleRoom == bundles < QueueCap
WriterGone == writer = "gone"

Queued == {heads[i] : i \in 1..Len(heads)}
Highest(S) == CHOOSE n \in S : \A m \in S : m <= n

\* Once round the loop: caught up, told to stop, or on to a range with the
\* newest head queued.
Turn(sent, head) ==
  IF sent >= head THEN forward' = [pc |-> "recv", sent |-> sent, head |-> head] /\ UNCHANGED heads
  ELSE IF shutdown THEN forward' = ForwardGone /\ heads' = <<>>
  ELSE /\ forward' = [pc |-> "fetch", sent |-> sent, head |-> Highest(Queued \cup {head})]
       /\ heads' = <<>>

ForwardUnchanged == UNCHANGED <<chain, shutdown, watcher, socket, backfill, writer, mainVars>>

ReceiveHeads ==
  /\ forward.pc = "recv"
  /\ heads # <<>>
  /\ heads' = <<>>
  /\ forward' = IF shutdown THEN ForwardGone
                ELSE [forward EXCEPT
                        !.pc = IF forward.sent = 0 /\ Highest(Queued) > 0 THEN "seed" ELSE "turn",
                        !.head = Highest(Queued)]
  /\ UNCHANGED bundles
  /\ ForwardUnchanged

\* Both senders are gone, and nothing is left to receive.
HeadFeedClosed ==
  /\ forward.pc = "recv"
  /\ heads = <<>>
  /\ HeadsClosed
  /\ forward' = ForwardGone
  /\ UNCHANGED <<heads, bundles>>
  /\ ForwardUnchanged

\* wait_for_seed, five seconds that no flag cuts short: nothing on record, or
\* some block.
SeedOrTimeout ==
  /\ forward.pc = "seed"
  /\ \E n \in 0..chain :
       forward' = [forward EXCEPT !.pc = IF n = 0 \/ n >= forward.head THEN "recv" ELSE "turn",
                                  !.sent = n]
  /\ UNCHANGED <<heads, bundles>>
  /\ ForwardUnchanged

TakeTurn ==
  /\ forward.pc = "turn"
  /\ Turn(forward.sent, forward.head)
  /\ UNCHANGED bundles
  /\ ForwardUnchanged

ForwardFetched ==
  /\ forward.pc = "fetch"
  /\ forward' = [forward EXCEPT !.pc = "send"]
  /\ UNCHANGED <<heads, bundles>>
  /\ ForwardUnchanged

\* Nothing came back: rest a poll interval or until the flag is raised.
ForwardRests ==
  /\ forward.pc = "fetch"
  /\ Turn(forward.sent, forward.head)
  /\ UNCHANGED bundles
  /\ ForwardUnchanged

ForwardSend ==
  /\ forward.pc = "send"
  /\ IF WriterGone THEN forward' = ForwardGone /\ heads' = <<>> /\ UNCHANGED bundles
     ELSE /\ BundleRoom
          /\ bundles' = bundles + 1
          /\ forward' = [forward EXCEPT !.pc = "turn", !.sent = @ + 1]
          /\ UNCHANGED heads
  /\ ForwardUnchanged

-----------------------------------------------------------------------------
(***************************************************************************)
(* The backfill loop and the writer.                                       *)
(***************************************************************************)
BackfillUnchanged == UNCHANGED <<chain, shutdown, watcherVars, forward, writer, mainVars>>

\* A fetch that began before the flag was raised still has its bundles sent.
BackfillFetched ==
  /\ backfill = "look"
  /\ backfill' = "send"
  /\ UNCHANGED bundles
  /\ BackfillUnchanged

BackfillStops ==
  /\ backfill = "look"
  /\ shutdown
  /\ backfill' = "gone"
  /\ UNCHANGED bundles
  /\ BackfillUnchanged

\* The range has more, or the loop comes round and sees the flag.
BackfillSend ==
  /\ backfill = "send"
  /\ IF WriterGone THEN backfill' = "gone" /\ UNCHANGED bundles
     ELSE /\ BundleRoom
          /\ bundles' = bundles + 1
          /\ backfill' \in {"send", IF shutdown THEN "gone" ELSE "look"}
  /\ BackfillUnchanged

WriterUnchanged == UNCHANGED <<chain, shutdown, watcherVars, forward, backfill, mainVars>>

\* A batch is written; at shutdown what is queued is dropped.
TakeBatch ==
  /\ writer = "recv"
  /\ bundles > 0
  /\ writer' = IF shutdown THEN "gone" ELSE "write"
  /\ bundles' = IF shutdown \/ bundles < MaxBatch THEN 0 ELSE bundles - MaxBatch
  /\ WriterUnchanged

BundlesClosed ==
  /\ writer = "recv"
  /\ bundles = 0
  /\ forward.pc = "gone" /\ backfill = "gone"
  /\ writer' = "gone"
  /\ UNCHANGED bundles
  /\ WriterUnchanged

Written == writer = "write" /\ writer' = "recv" /\ UNCHANGED bundles /\ WriterUnchanged

\* Slip: a batch that does not commit ends the writer.
GiveUp == writer = "write" /\ writer' = "gone" /\ bundles' = 0 /\ WriterUnchanged

WriteFails == writer = "write" /\ writer' = "retry" /\ UNCHANGED bundles /\ WriterUnchanged
WriteAgain == writer = "retry" /\ writer' = "write" /\ UNCHANGED bundles /\ WriterUnchanged
RetryStops ==
  writer = "retry" /\ shutdown /\ writer' = "gone" /\ bundles' = 0 /\ WriterUnchanged

\* run_forever returns: the first loop to end, then the writer.
IndexerDone == (forward.pc = "gone" \/ backfill = "gone") /\ writer = "gone"

-----------------------------------------------------------------------------
(***************************************************************************)
(* main.                                                                   *)
(***************************************************************************)
MainUnchanged == UNCHANGED <<chain, watcherVars, indexerVars>>

Signal ==
  /\ ~shutdown
  /\ shutdown' = TRUE
  /\ UNCHANGED mainVars
  /\ MainUnchanged

\* Graceful shutdown accepts no more connections.
Accept ==
  /\ main = "serve" /\ ~shutdown
  /\ open < MaxOpen
  /\ open' = open + 1
  /\ UNCHANGED <<shutdown, main>>
  /\ MainUnchanged

Answered ==
  /\ open > 0
  /\ open' = open - 1
  /\ UNCHANGED <<shutdown, main>>
  /\ MainUnchanged

\* Every connection is done, ...
ServerStops ==
  /\ main = "serve" /\ shutdown
  /\ open = 0
  /\ main' = "flush"
  /\ UNCHANGED <<shutdown, open>>
  /\ MainUnchanged

\* ... or the deadline has passed, and nobody waits for those that are left.
GraceOver ==
  /\ main = "serve" /\ shutdown
  /\ main' = "flush"
  /\ open' = 0
  /\ UNCHANGED shutdown
  /\ MainUnchanged

Exit ==
  /\ main = "flush"
  /\ IndexerDone
  /\ main' = "exited"
  /\ UNCHANGED <<shutdown, open>>
  /\ MainUnchanged

\* The window is over, and what the indexer was at is cut short.
ExitUnflushed ==
  /\ main = "flush"
  /\ main' = "cut"
  /\ UNCHANGED <<shutdown, open>>
  /\ MainUnchanged

-----------------------------------------------------------------------------
RunForward == ReceiveHeads \/ HeadFeedClosed \/ SeedOrTimeout \/ TakeTurn \/ ForwardFetched
                \/ ForwardRests \/ ForwardSend
RunBackfill == BackfillFetched \/ BackfillStops \/ BackfillSend
RunWriter == TakeBatch \/ BundlesClosed \/ Written \/ WriteFails \/ WriteAgain \/ RetryStops

Ended == main \in {"exited", "cut"}

\* What the watcher's steps leave alone.
others == <<backfill, bundles, writer, mainVars>>

Next ==
  /\ ~Ended
  /\ \/ Grow
     \/ (RunPoll \/ PauseRunsOut \/ RunSocket) /\ UNCHANGED others
     \/ RunForward \/ RunBackfill \/ RunWriter
     \/ Signal \/ Accept \/ Answered \/ GraceOver
     \/ ServerStops \/ Exit \/ ExitUnflushed

Spec == Init /\ [][Next]_vars

(***************************************************************************)
(* Scheduling.  A task that can go on is polled until it does (WF).  The   *)
(* node answers a poll in the end, the channel's room is handed out in     *)
(* order, and a write that is tried again succeeds in the end (SF).        *)
(* Nothing is asked of a socket that is open, of the connections, or of    *)
(* the window: what ends must end without it.                              *)
(***************************************************************************)
Fairness ==
  /\ WF_vars(~Ended /\ RunPoll /\ UNCHANGED others)
  /\ SF_vars(~Ended /\ HeadPolled /\ UNCHANGED others)
  /\ WF_vars(~Ended /\ PauseRunsOut /\ UNCHANGED others)
  /\ WF_vars(~Ended /\ socket.pc = "connect" /\ RunSocket /\ UNCHANGED others)
  /\ WF_vars(~Ended /\ RunForward)
  /\ SF_vars(~Ended /\ ForwardSend)
  /\ WF_vars(~Ended /\ RunBackfill)
  /\ WF_vars(~Ended /\ RunWriter)
  /\ SF_vars(~Ended /\ Written)
  /\ WF_vars(~Ended /\ (GraceOver \/ ServerStops \/ Exit))

FairSpec == Spec /\ Fairness

-----------------------------------------------------------------------------
(***************************************************************************)
(* Properties.                                                             *)
(***************************************************************************)
\* Types; no task knows of a height the chain has not reached, and the forward
\* loop is never ahead of the head it works towards.
ProcessTypeOK ==
  /\ chain \in 0..MaxHead /\ shutdown \in BOOLEAN
  /\ watcher \in [pc : {"check", "ask", "send", "wait", "gone"},
                  until : {"socket", "pause", "over", "never"}, head : 0..chain]
  /\ socket \in [pc : {"none", "connect", "open", "send", "failed", "closed"}, head : 0..chain]
  /\ heads \in Seq(0..chain) /\ Len(heads) <= HeadCap
  /\ forward \in [pc : {"recv", "seed", "turn", "fetch", "send", "gone"},
                  sent : 0..chain, head : 0..chain]
  /\ forward.pc \in {"fetch", "send"} => forward.sent < forward.head
  /\ backfill \in {"look", "send", "gone"}
  /\ bundles \in 0..QueueCap
  /\ writer \in {"recv", "write", "retry", "gone"}
  /\ main \in {"serve", "flush", "exited", "cut"}
  /\ open \in 0..MaxOpen

\* Nothing starts a task again, and main looks at none of them before the flag
\* is raised (main.rs, indexer_task): an indexer that ended would be served from
\* as if it ran.  So until then none does, whatever fails, although each ends as
\* soon as one it sends to or receives from has.
EndsOnlyByTheFlag ==
  ~shutdown => /\ watcher.pc # "gone" /\ forward.pc # "gone"
               /\ backfill # "gone" /\ writer # "gone"
               /\ main = "serve"

\* What the tasks wait for: something in a channel, or room in it.
WaitsForHead == forward.pc = "recv" /\ heads = <<>> /\ ~HeadsClosed
WaitsForHeadRoom == watcher.pc = "send" /\ ~ReceiverGone /\ ~HeadRoom
ForwardWaitsForRoom == forward.pc = "send" /\ ~WriterGone /\ ~BundleRoom
BackfillWaitsForRoom == backfill = "send" /\ ~WriterGone /\ ~BundleRoom
WaitsForBundle == writer = "recv" /\ bundles = 0 /\ ~(forward.pc = "gone" /\ backfill = "gone")

WatcherGoesOn == watcher.pc # "gone" /\ ~WaitsForHeadRoom
ForwardGoesOn == forward.pc # "gone" /\ ~WaitsForHead /\ ~ForwardWaitsForRoom
BackfillGoesOn == backfill # "gone" /\ ~BackfillWaitsForRoom
WriterGoesOn == writer # "gone" /\ ~WaitsForBundle

\* head_watcher, forward_loop, backfill_loop and write_loop wait on each other
\* through two channels, before the flag and after.  A wait, or the wait it is
\* for, is for a task that is there and goes on: never round in a circle, nor
\* for a socket nobody watches any more.
EveryWaitIsForOneThatGoesOn ==
  /\ WaitsForHead => WatcherGoesOn
  /\ ForwardWaitsForRoom \/ BackfillWaitsForRoom => WriterGoesOn
  /\ WaitsForHeadRoom => ForwardGoesOn \/ ForwardWaitsForRoom
  /\ WaitsForBundle => ForwardGoesOn \/ WaitsForHead \/ BackfillGoesOn

\* No task is left alone by one it works with: none ends unasked, and none waits
\* for one that is gone or waits as well.
NoneLeftWaiting == EndsOnlyByTheFlag /\ EveryWaitIsForOneThatGoesOn

\* ws.rs, head_watcher: "polling eth_blockNumber runs throughout, so heads keep
\* arriving meanwhile".  The forward loop learns of every height the chain
\* reaches, whatever the socket does: refused, silent, dropped, or kept
\* waiting by a full channel.
HeadsKeepArriving ==
  chain = MaxHead ~> forward.head = MaxHead \/ shutdown

\* A subscription that ended is tried again.
SocketReturns == socket.pc \in {"failed", "closed"} ~> socket.pc = "connect" \/ shutdown

\* Once signalled the process ends, without the indexer's window running out:
\* no loop, sender or writer waits on another for ever, whatever it was waiting
\* for when the flag was raised, and a connection left open holds it only for
\* the grace.
StopsInOrder == shutdown ~> Ended

=============================================================================
