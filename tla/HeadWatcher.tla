---------------------------- MODULE HeadWatcher -----------------------------
(***************************************************************************)
(* The head watcher of src/ws.rs: a task that polls the node for its head  *)
(* all the time, and beside it a task that subscribes to new heads on a    *)
(* socket, is watched until it ends and is started again after a pause.    *)
(* Both send to one channel, which the forward loop drains.                *)
(*                                                                         *)
(* How long a poll interval or a pause lasts is left out.  Messages the    *)
(* socket brings that tell no head change nothing.                         *)
(***************************************************************************)
EXTENDS Naturals, Sequences

CONSTANTS
  MaxHead,    \* bound: the height the chain stops growing at
  HeadCap,    \* heads the channel holds (256)
  IndexWs     \* whether the socket is used at all (INDEX_WS)

ASSUME WatcherAssumption ==
  MaxHead \in Nat \ {0} /\ HeadCap \in Nat \ {0} /\ IndexWs \in BOOLEAN

VARIABLES
  chain,      \* the chain's height
  shutdown,   \* the flag every loop watches
  watcher,    \* head_watcher: pc, what it polls until, the head it is sending
  socket,     \* subscribe_ws: pc, the head it is sending
  heads,      \* the channel
  forward     \* the forward loop, the channel's receiver: pc, sent, head

watcherVars == <<watcher, socket, heads>>

NoSocket  == [pc |-> "none", head |-> 0]
NewSocket == [pc |-> "connect", head |-> 0]

WatcherInit ==
  /\ watcher = [pc |-> "check", until |-> IF IndexWs THEN "socket" ELSE "never", head |-> 0]
  /\ socket = IF IndexWs THEN NewSocket ELSE NoSocket
  /\ heads = <<>>

\* A send waits for room, and fails once the receiver is dropped.
HeadRoom == Len(heads) < HeadCap
ReceiverGone == forward.pc = "gone"

\* A sender is dropped with its task.
HeadsClosed == watcher.pc = "gone" /\ socket.pc \in {"none", "failed", "closed"}

-----------------------------------------------------------------------------
(***************************************************************************)
(* The poll, until the socket's task ends, the pause is over, or never.    *)
(***************************************************************************)
\* Slip: the socket's task is let go of, not stopped.
LeaveAlone ==
  /\ watcher' = [pc |-> "gone", until |-> "never", head |-> 0]
  /\ UNCHANGED socket

\* poll_until gives None: the watcher stops the socket's task and returns.
Leave ==
  /\ watcher' = [pc |-> "gone", until |-> "never", head |-> 0]
  /\ socket' = NoSocket

CheckShutdown ==
  /\ watcher.pc = "check"
  /\ IF shutdown THEN Leave
     ELSE watcher' = [watcher EXCEPT !.pc = "ask"] /\ UNCHANGED socket
  /\ UNCHANGED <<chain, shutdown, heads, forward>>

HeadPolled ==
  /\ watcher.pc = "ask"
  /\ watcher' = [watcher EXCEPT !.pc = "send", !.head = chain]
  /\ UNCHANGED <<chain, shutdown, socket, heads, forward>>

PollFailed ==
  /\ watcher.pc = "ask"
  /\ watcher' = [watcher EXCEPT !.pc = "wait"]
  /\ UNCHANGED <<chain, shutdown, socket, heads, forward>>

SendPolled ==
  /\ watcher.pc = "send"
  /\ IF ReceiverGone THEN Leave /\ UNCHANGED heads
     ELSE /\ HeadRoom
          /\ heads' = Append(heads, watcher.head)
          /\ watcher' = [watcher EXCEPT !.pc = "wait", !.head = 0]
          /\ UNCHANGED socket
  /\ UNCHANGED <<chain, shutdown, forward>>

\* What the poll goes on until is ready.  An interval only begins when none of
\* it is, so select! comes round to it.
SocketDone == watcher.until = "socket" /\ socket.pc \in {"failed", "closed"}
Stopped == shutdown \/ SocketDone \/ watcher.until = "over"

\* Slip: while a subscription runs nothing is polled.
PollOnlyWithoutSocket ==
  /\ watcher.pc = "wait"
  /\ ~Stopped
  /\ watcher.until # "socket"
  /\ watcher' = [watcher EXCEPT !.pc = "check"]
  /\ UNCHANGED <<chain, shutdown, socket, heads, forward>>

\* The interval is over.
PollAgain ==
  /\ watcher.pc = "wait"
  /\ ~Stopped
  /\ watcher' = [watcher EXCEPT !.pc = "check"]
  /\ UNCHANGED <<chain, shutdown, socket, heads, forward>>

StopPolling ==
  /\ watcher.pc = "wait"
  /\ shutdown
  /\ Leave
  /\ UNCHANGED <<chain, shutdown, heads, forward>>

\* Slip: only a subscription that ended well is followed by another.
CleanEndOnly ==
  /\ watcher.pc = "wait"
  /\ watcher.until = "socket" /\ socket.pc = "closed"
  /\ watcher' = [watcher EXCEPT !.pc = "check", !.until = "pause"]
  /\ socket' = NoSocket
  /\ UNCHANGED <<chain, shutdown, heads, forward>>

\* The subscription ended, well or badly: pause.
SocketEnded ==
  /\ watcher.pc = "wait"
  /\ SocketDone
  /\ watcher' = [watcher EXCEPT !.pc = "check", !.until = "pause"]
  /\ socket' = NoSocket
  /\ UNCHANGED <<chain, shutdown, heads, forward>>

\* The pause runs while the poll does ...
PauseRunsOut ==
  /\ watcher.pc # "gone"
  /\ watcher.until = "pause"
  /\ watcher' = [watcher EXCEPT !.until = "over"]
  /\ UNCHANGED <<chain, shutdown, socket, heads, forward>>

\* ... and once it is over the watcher subscribes again.
Resubscribe ==
  /\ watcher.pc = "wait"
  /\ watcher.until = "over"
  /\ watcher' = [watcher EXCEPT !.pc = "check", !.until = "socket"]
  /\ socket' = NewSocket
  /\ UNCHANGED <<chain, shutdown, heads, forward>>

-----------------------------------------------------------------------------
(***************************************************************************)
(* The subscription.  A connection comes up or does not in three seconds;  *)
(* an open one tells heads, a reorganised height again, or nothing, and    *)
(* may fail or close.                                                      *)
(***************************************************************************)
SocketOpens ==
  /\ socket.pc = "connect"
  /\ socket' = [socket EXCEPT !.pc = "open"]
  /\ UNCHANGED <<chain, shutdown, watcher, heads, forward>>

SocketTold ==
  /\ socket.pc = "open"
  /\ socket' = [pc |-> "send", head |-> chain]
  /\ UNCHANGED <<chain, shutdown, watcher, heads, forward>>

SendTold ==
  /\ socket.pc = "send"
  /\ IF ReceiverGone THEN socket' = [pc |-> "closed", head |-> 0] /\ UNCHANGED heads
     ELSE /\ HeadRoom
          /\ heads' = Append(heads, socket.head)
          /\ socket' = [pc |-> "open", head |-> 0]
  /\ UNCHANGED <<chain, shutdown, watcher, forward>>

\* A connection that does not come up, a refused subscription, a read or a
\* pong that fails.
SocketFails ==
  /\ socket.pc \in {"connect", "open"}
  /\ socket' = [socket EXCEPT !.pc = "failed"]
  /\ UNCHANGED <<chain, shutdown, watcher, heads, forward>>

SocketCloses ==
  /\ socket.pc = "open"
  /\ socket' = [socket EXCEPT !.pc = "closed"]
  /\ UNCHANGED <<chain, shutdown, watcher, heads, forward>>

RunPoll == CheckShutdown \/ HeadPolled \/ PollFailed \/ SendPolled \/ PollAgain
             \/ StopPolling \/ SocketEnded \/ Resubscribe

RunSocket == SocketOpens \/ SocketTold \/ SendTold \/ SocketFails \/ SocketCloses

=============================================================================
