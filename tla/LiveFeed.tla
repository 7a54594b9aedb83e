------------------------------ MODULE LiveFeed ------------------------------
(***************************************************************************)
(* The live feed (src/web.rs): a task polls the database for new tip       *)
(* blocks and stats and broadcasts them; each viewer's stream starts with  *)
(* the tip, follows the broadcast, and is replayed from the database what  *)
(* it lost when it falls behind.                                           *)
(*                                                                         *)
(* Viewers only read, so one of them stands for all.  What the indexer     *)
(* commits is an interval of blocks (Indexer's NoHoles) that grows at both *)
(* ends.  The keep-alive and what an event shows of a block are left out.  *)
(***************************************************************************)
EXTENDS Integers, Sequences

CONSTANTS
  FirstTip,    \* the tip of the first commit on an empty database
  MaxTip,      \* bound: the highest block committed
  MaxBatch,    \* bound: blocks one commit adds at each end
  MaxStats,    \* bound: how often the stats change
  Capacity,    \* messages the broadcast channel holds (8192 in the code)
  MaxReplay,   \* SSE_MAX_REPLAY
  MaxSessions  \* bound: how often the viewer connects

ASSUME LiveFeedAssumption ==
  /\ FirstTip \in Nat \ {0}
  /\ MaxTip \in Nat
  /\ FirstTip <= MaxTip
  /\ MaxBatch \in Nat \ {0}
  /\ MaxStats \in Nat
  /\ Capacity \in Nat \ {0}
  /\ MaxReplay \in Nat \ {0}
  /\ MaxSessions \in Nat

None == -1   \* the tip of an empty table, and what a viewer of it was sent

VARIABLES
  low, tip,    \* the blocks on record are low..tip
  stats,       \* the version of the stats stored
  feed,        \* pc, head (the tip it read), sent (the tip published) and
               \* shown (the stats published)
  sending,     \* blocks of the range the feed is publishing
  viewer,      \* the stream: "off", "new" or "live"
  rx,          \* what the channel holds for the viewer
  lagged,      \* the channel dropped a message the viewer had not read
  pending,     \* blocks read for replay
  lastNum,     \* last_num: the highest block delivered
  delivered,   \* history: the blocks delivered, in order
  truncated,   \* history: a replay stopped short of the tip
  sessions,    \* bound: connections so far
  stopping     \* the shutdown flag

store    == <<low, tip, stats>>
stream   == <<viewer, rx, lagged, pending, lastNum, delivered, truncated>>
publisher == <<feed, sending>>
feedVars == <<store, publisher, stream, sessions, stopping>>

BlockMsg(n) == [type |-> "block", number |-> n]
StatsMsg    == [type |-> "stats"]

\* main spawns the feed before it binds the listener: the feed reads the tip it
\* starts from before any viewer connects.
FeedInit ==
  /\ \/ low = 0 /\ tip = None
     \/ low = FirstTip /\ tip = FirstTip
  /\ stats = 0
  /\ feed = [pc |-> "poll", head |-> tip, sent |-> tip, shown |-> 0]
  /\ sending = <<>>
  /\ viewer = "off"
  /\ rx = <<>> /\ lagged = FALSE
  /\ pending = <<>>
  /\ lastNum = None
  /\ delivered = <<>> /\ truncated = FALSE
  /\ sessions = 0
  /\ stopping = FALSE

-----------------------------------------------------------------------------
(***************************************************************************)
(* The database, as the indexer fills it.                                  *)
(***************************************************************************)
FirstCommit(n) ==
  /\ tip = None
  /\ n < FirstTip
  /\ low' = FirstTip - n
  /\ tip' = FirstTip
  /\ UNCHANGED <<stats, publisher, stream, sessions, stopping>>

Commit(up, down) ==
  /\ tip # None
  /\ up + down > 0
  /\ tip' = tip + up
  /\ low' = low - down
  /\ tip' <= MaxTip /\ low' >= 1
  /\ UNCHANGED <<stats, publisher, stream, sessions, stopping>>

StoreStats ==
  /\ stats < MaxStats
  /\ stats' = stats + 1
  /\ UNCHANGED <<low, tip, publisher, stream, sessions, stopping>>

\* Blocks on record among from..to, in number order.
OnRecord(from, to) ==
  LET lo == IF from < low THEN low ELSE from
      hi == IF tip < to THEN tip ELSE to
  IN  [i \in 1..(IF lo <= hi THEN hi - lo + 1 ELSE 0) |-> lo + i - 1]

-----------------------------------------------------------------------------
(***************************************************************************)
(* The feed.                                                               *)
(***************************************************************************)
\* A send never waits: a viewer with a full channel loses its oldest message.
Broadcast(msg) ==
  IF viewer = "off"
  THEN UNCHANGED <<rx, lagged>>
  ELSE IF Len(rx) = Capacity
       THEN rx' = Append(Tail(rx), msg) /\ lagged' = TRUE
       ELSE rx' = Append(rx, msg) /\ UNCHANGED lagged

FeedPoll ==
  /\ feed.pc = "poll"
  /\ feed' = [feed EXCEPT !.head = tip,
                          !.pc = CASE stopping                     -> "stopped"
                                   [] ~stopping /\ tip > feed.sent -> "read"
                                   [] OTHER                        -> "stats"]
  /\ UNCHANGED <<store, sending, stream, sessions, stopping>>

FeedRead ==
  /\ feed.pc = "read"
  /\ sending' = OnRecord(feed.sent + 1, feed.head)
  /\ feed' = [feed EXCEPT !.pc = "publish", !.sent = feed.head]
  /\ UNCHANGED <<store, stream, sessions, stopping>>

FeedBlock ==
  /\ feed.pc = "publish"
  /\ IF sending = <<>>
     THEN /\ feed' = [feed EXCEPT !.pc = "stats"]
          /\ UNCHANGED <<sending, rx, lagged>>
     ELSE /\ Broadcast(BlockMsg(Head(sending)))
          /\ sending' = Tail(sending)
          /\ UNCHANGED feed
  /\ UNCHANGED <<store, viewer, pending, lastNum, delivered, truncated, sessions, stopping>>

FeedStats ==
  /\ feed.pc = "stats"
  /\ IF stats # feed.shown THEN Broadcast(StatsMsg) ELSE UNCHANGED <<rx, lagged>>
  /\ feed' = [feed EXCEPT !.pc = "poll", !.shown = stats]
  /\ UNCHANGED <<store, sending, viewer, pending, lastNum, delivered, truncated, sessions, stopping>>

-----------------------------------------------------------------------------
(***************************************************************************)
(* A viewer's stream: events subscribes, sse_step delivers one event.      *)
(***************************************************************************)
NewStream(state) ==
  /\ viewer' = state
  /\ rx' = <<>> /\ lagged' = FALSE
  /\ pending' = <<>> /\ lastNum' = None
  /\ delivered' = <<>> /\ truncated' = FALSE

Connect ==
  /\ viewer = "off" /\ ~stopping
  /\ sessions < MaxSessions
  /\ sessions' = sessions + 1
  /\ NewStream("new")
  /\ UNCHANGED <<store, publisher, stopping>>

\* The viewer leaves, or its stream sees the shutdown flag.
Disconnect ==
  /\ viewer # "off"
  /\ NewStream("off")
  /\ UNCHANGED <<store, publisher, sessions, stopping>>

EndStream == stopping /\ Disconnect

Streaming == viewer = "live" /\ ~stopping

SendTip ==
  /\ viewer = "new" /\ ~stopping
  /\ viewer' = "live"
  /\ lastNum' = tip
  /\ delivered' = IF tip = None THEN <<>> ELSE <<tip>>
  /\ UNCHANGED <<store, publisher, rx, lagged, pending, truncated, sessions, stopping>>

SendPending ==
  /\ Streaming
  /\ pending # <<>>
  /\ delivered' = Append(delivered, Head(pending))
  /\ pending' = Tail(pending)
  /\ UNCHANGED <<store, publisher, viewer, rx, lagged, lastNum, truncated, sessions, stopping>>

\* Slip: a block still in the channel after a replay is delivered again.
ReceiveAgain ==
  /\ Streaming
  /\ pending = <<>> /\ ~lagged /\ rx # <<>>
  /\ IF Head(rx).type = "block"
     THEN /\ delivered' = Append(delivered, Head(rx).number)
          /\ lastNum' = Head(rx).number
     ELSE UNCHANGED <<delivered, lastNum>>
  /\ rx' = Tail(rx)
  /\ UNCHANGED <<store, publisher, viewer, lagged, pending, truncated, sessions, stopping>>

\* A block delivered already, by a replay or as the tip, is passed over.
Receive ==
  /\ Streaming
  /\ pending = <<>> /\ ~lagged /\ rx # <<>>
  /\ IF Head(rx).type = "block" /\ Head(rx).number > lastNum
     THEN /\ delivered' = Append(delivered, Head(rx).number)
          /\ lastNum' = Head(rx).number
     ELSE UNCHANGED <<delivered, lastNum>>
  /\ rx' = Tail(rx)
  /\ UNCHANGED <<store, publisher, viewer, lagged, pending, truncated, sessions, stopping>>

\* Slip: the window counts as delivered whole, past the tip.
ReplayWindow == lastNum + MaxReplay

\* The end of a replay: as far as the tip, and MaxReplay blocks at most.
ReplayEnd ==
  LET window == lastNum + MaxReplay IN IF tip < window THEN tip ELSE window

\* Slip: the viewer goes on from what the channel still holds.
CatchUpFromChannel ==
  /\ Streaming
  /\ pending = <<>> /\ lagged
  /\ lagged' = FALSE
  /\ UNCHANGED <<store, publisher, viewer, rx, pending, lastNum, delivered, truncated, sessions, stopping>>

\* The receiver is told that it lagged: the blocks after the last one delivered
\* are read from the database, and the first of them is sent.
CatchUp ==
  LET missed == OnRecord(lastNum + 1, ReplayEnd)
  IN  /\ Streaming
      /\ pending = <<>> /\ lagged
      /\ IF missed = <<>>
         THEN UNCHANGED <<pending, delivered>>
         ELSE /\ pending' = Tail(missed)
              /\ delivered' = Append(delivered, Head(missed))
      /\ lastNum' = IF lastNum < ReplayEnd THEN ReplayEnd ELSE lastNum
      /\ truncated' = (truncated \/ ReplayEnd < tip)
      /\ lagged' = FALSE
      /\ UNCHANGED <<store, publisher, viewer, rx, sessions, stopping>>

Shutdown ==
  /\ ~stopping
  /\ stopping' = TRUE
  /\ UNCHANGED <<store, publisher, stream, sessions>>

Feed == FeedPoll \/ FeedRead \/ FeedBlock \/ FeedStats
Step == SendTip \/ SendPending \/ Receive \/ CatchUp \/ EndStream

FeedNext ==
  \/ \E n \in 0..MaxBatch : FirstCommit(n)
  \/ \E up, down \in 0..MaxBatch : Commit(up, down)
  \/ StoreStats
  \/ Feed
  \/ Connect \/ Disconnect \/ Step
  \/ Shutdown

FeedSpec == FeedInit /\ [][FeedNext]_feedVars

\* The runtime schedules the feed, and a viewer that stays goes on reading.
FeedFairSpec == FeedSpec /\ WF_feedVars(Feed) /\ WF_feedVars(Step)

-----------------------------------------------------------------------------
(***************************************************************************)
(* Properties.                                                             *)
(***************************************************************************)
\* A viewer is never sent a block twice or after a newer one, though the tip,
\* the replays and the channel overlap.
InOrder == \A i \in 1..(Len(delivered) - 1) : delivered[i] < delivered[i + 1]

\* Unless a replay stopped short of the tip (SSE_MAX_REPLAY), a viewer is sent
\* every block from its first on: what the channel dropped comes from the
\* database, and the two join with no gap.
NoneSkipped ==
  ~truncated => \A i \in 1..(Len(delivered) - 1) : delivered[i + 1] <= delivered[i] + 1

Delivered(n) == delivered # <<>> /\ delivered[Len(delivered)] >= n

\* A viewer that stays is sent every block the feed has yet to publish, or one
\* newer, unless a replay stopped short and the stats crowd out the rest.
SeesTheTip ==
  \A n \in 1..MaxTip :
    (viewer = "live" /\ feed.sent < n /\ n <= tip)
      ~> (viewer = "off" \/ Delivered(n) \/ truncated)

=============================================================================
