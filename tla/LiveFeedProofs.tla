--------------------------- MODULE LiveFeedProofs ---------------------------
(***************************************************************************)
(* What a viewer is sent is in order, and has no gap unless a replay was   *)
(* cut short: for every capacity of the channel, every replay limit and    *)
(* every way the indexer's commits, the feed and the stream interleave.    *)
(***************************************************************************)
EXTENDS LiveFeed, SequenceTheorems, TLAPS

-----------------------------------------------------------------------------
(***************************************************************************)
(* The inductive invariant.  It follows a block from the store to the      *)
(* viewer: what the feed has yet to publish is the run that ends at sent;  *)
(* the channel holds rising numbers, none missing after its first; and     *)
(* while nothing was lost, it holds all that was published after the last  *)
(* block delivered.                                                        *)
(***************************************************************************)
Message == {BlockMsg(n) : n \in Int} \cup {StatsMsg}

FeedTypes ==
  /\ low \in Int /\ tip \in Int /\ stats \in Nat
  /\ feed \in [pc : {"poll", "read", "publish", "stats", "stopped"},
               head : Int, sent : Int, shown : Nat]
  /\ sending \in Seq(Int)
  /\ viewer \in {"off", "new", "live"}
  /\ rx \in Seq(Message)
  /\ lagged \in BOOLEAN /\ truncated \in BOOLEAN
  /\ pending \in Seq(Int) /\ delivered \in Seq(Int)
  /\ lastNum \in Int

StoreOK == (low = 0 /\ tip = None) \/ (1 <= low /\ low <= tip)

\* s is the run of consecutive numbers that ends at end.
RunTo(s, end) == \A i \in 1..Len(s) : s[i] = end - Len(s) + i

\* The last block published.
Published == feed.sent - Len(sending)

FeedOK ==
  /\ feed.head <= tip /\ feed.sent <= tip
  /\ feed.head = None \/ low <= feed.head
  /\ \/ feed.sent = None /\ sending = <<>>
     \/ low <= feed.sent /\ low <= Published + 1
  /\ RunTo(sending, feed.sent)
  /\ feed.pc # "publish" => sending = <<>>
  /\ feed.pc = "read" => feed.sent < feed.head

IsBlock(msg) == msg.type = "block"
NoBlock(q) == \A i \in 1..Len(q) : ~IsBlock(q[i])
Carries(q, n) == \E i \in 1..Len(q) : IsBlock(q[i]) /\ q[i].number = n

Within(q, from, end) ==
  \A i \in 1..Len(q) : IsBlock(q[i]) => from <= q[i].number /\ q[i].number <= end
Rises(q) ==
  \A i, j \in 1..Len(q) :
    (i < j /\ IsBlock(q[i]) /\ IsBlock(q[j])) => q[i].number < q[j].number
Gapless(q, end) ==
  \A i \in 1..Len(q) : IsBlock(q[i]) =>
    \A n \in Int : (q[i].number <= n /\ n <= end) => Carries(q, n)
Channel(q, from, end) == Within(q, from, end) /\ Rises(q) /\ Gapless(q, end)

ChannelOK ==
  /\ Channel(rx, low, Published)
  /\ feed.sent = None => NoBlock(rx)
  /\ viewer = "off" => rx = <<>>

StreamOK ==
  /\ viewer # "live" => delivered = <<>> /\ lastNum = None /\ ~truncated
  /\ lastNum <= tip
  /\ RunTo(pending, lastNum)
  /\ delivered = <<>> => pending = <<>>
  /\ delivered # <<>> => low <= lastNum /\ delivered[Len(delivered)] = lastNum - Len(pending)

Complete ==
  (delivered # <<>> /\ ~lagged /\ ~truncated) =>
    \A n \in Int : (lastNum < n /\ n <= Published) => Carries(rx, n)

FeedInv ==
  FeedTypes /\ StoreOK /\ FeedOK /\ ChannelOK /\ StreamOK /\ Complete /\ InOrder /\ NoneSkipped

-----------------------------------------------------------------------------
(***************************************************************************)
(* Sequences: runs, the blocks on record, the channel.                     *)
(***************************************************************************)
LEMMA Messages ==
  /\ \A n \in Int : BlockMsg(n) \in Message /\ IsBlock(BlockMsg(n)) /\ BlockMsg(n).number = n
  /\ StatsMsg \in Message /\ ~IsBlock(StatsMsg)
  /\ \A m \in Message : IsBlock(m) => m.number \in Int
BY DEF Message, BlockMsg, StatsMsg, IsBlock

LEMMA TailOfRun ==
  ASSUME NEW s \in Seq(Int), NEW end \in Int, RunTo(s, end), s # <<>>
  PROVE  /\ Head(s) = end - Len(s) + 1 /\ Head(s) \in Int
         /\ Tail(s) \in Seq(Int) /\ Len(Tail(s)) = Len(s) - 1 /\ Len(s) \in Nat
         /\ RunTo(Tail(s), end)
<1> DEFINE t == Tail(s)
<1>1. /\ Len(s) \in Nat \ {0} /\ Head(s) = s[1] /\ s[1] \in Int
      /\ t \in Seq(Int) /\ Len(t) = Len(s) - 1
      /\ \A i \in 1..Len(t) : t[i] = s[i + 1]
  OBVIOUS
<1> HIDE DEF t
<1>2. Head(s) = end - Len(s) + 1
  BY <1>1 DEF RunTo
<1>3. ASSUME NEW i \in 1..Len(t) PROVE t[i] = end - Len(t) + i
  <2>1. i + 1 \in 1..Len(s) /\ t[i] = s[i + 1]
    BY <1>1
  <2>2. QED
    BY <1>1, <2>1 DEF RunTo
<1>4. QED
  BY <1>1, <1>2, <1>3 DEF RunTo, t

\* A read gives the run from the first block wanted, or on record, to the last.
LEMMA ReadIsRun ==
  ASSUME NEW from \in Int, NEW to \in Int, low \in Int, tip \in Int, to <= tip
  PROVE  LET first == IF from < low THEN low ELSE from
             s     == OnRecord(from, to)
         IN  /\ s \in Seq(Int) /\ RunTo(s, to)
             /\ first <= to => s # <<>> /\ Len(s) = to - first + 1
             /\ first > to => s = <<>>
<1> DEFINE first == IF from < low THEN low ELSE from
           len   == IF first <= to THEN to - first + 1 ELSE 0
           s     == [i \in 1..len |-> first + i - 1]
<1>1. OnRecord(from, to) = s
  BY DEF OnRecord
<1>2. first \in Int /\ len \in Nat /\ (first <= to => len = to - first + 1 /\ len > 0) /\ (first > to => len = 0)
  OBVIOUS
<1> HIDE DEF len
<1>3. s \in Seq(Int) /\ Len(s) = len /\ \A i \in 1..len : s[i] = first + i - 1
  <2>1. \A i \in 1..len : first + i - 1 \in Int
    BY <1>2
  <2>2. s \in Seq(Int)
    BY <1>2, <2>1, IsASeq
  <2>3. QED
    BY <1>2, <2>2
<1> HIDE DEF s
<1>4. RunTo(s, to)
  BY <1>2, <1>3 DEF RunTo
<1>5. (first <= to => s # <<>>) /\ (first > to => s = <<>>)
  BY <1>2, <1>3
<1>6. QED
  BY <1>1, <1>2, <1>3, <1>4, <1>5

\* What joins the channel is the next block published ...
LEMMA AppendBlock ==
  ASSUME NEW q \in Seq(Message), NEW from \in Int, NEW end \in Int,
         Channel(q, from, end), from <= end + 1
  PROVE  LET r == Append(q, BlockMsg(end + 1))
         IN  /\ r \in Seq(Message)
             /\ Channel(r, from, end + 1)
             /\ \A n \in Int : Carries(q, n) => Carries(r, n)
             /\ Carries(r, end + 1)
<1> DEFINE m == BlockMsg(end + 1)
           r == Append(q, m)
<1>1. m \in Message /\ IsBlock(m) /\ m.number = end + 1 /\ end + 1 \in Int
  BY Messages
<1> HIDE DEF m
<1>2. /\ r \in Seq(Message) /\ Len(q) \in Nat /\ Len(r) = Len(q) + 1 /\ r[Len(q) + 1] = m
      /\ \A i \in 1..Len(q) : r[i] = q[i] /\ q[i] \in Message
  BY <1>1
<1> HIDE DEF r
<1>3. \A n \in Int : Carries(q, n) => Carries(r, n)
  BY <1>2 DEF Carries
<1>4. Carries(r, end + 1)
  BY <1>1, <1>2 DEF Carries
<1>5. \A i \in 1..Len(r) : i = Len(q) + 1 \/ i \in 1..Len(q)
  BY <1>2
<1>6. \A i \in 1..Len(q) : IsBlock(q[i]) => q[i].number \in Int /\ from <= q[i].number /\ q[i].number <= end
  BY <1>2, Messages DEF Channel, Within
<1>7. Within(r, from, end + 1)
  BY <1>1, <1>2, <1>5, <1>6 DEF Within
<1>8. Rises(r)
  <2> SUFFICES ASSUME NEW i \in 1..Len(r), NEW j \in 1..Len(r), i < j, IsBlock(r[i]), IsBlock(r[j])
               PROVE  r[i].number < r[j].number
    BY DEF Rises
  <2>1. i \in 1..Len(q)
    BY <1>2
  <2>2. CASE j = Len(q) + 1
    BY <1>1, <1>2, <1>6, <2>1, <2>2
  <2>3. CASE j \in 1..Len(q)
    BY <1>2, <2>1, <2>3 DEF Channel, Rises
  <2>4. QED
    BY <1>5, <2>2, <2>3
<1>9. Gapless(r, end + 1)
  <2> SUFFICES ASSUME NEW i \in 1..Len(r), IsBlock(r[i]), NEW n \in Int, r[i].number <= n, n <= end + 1
               PROVE  Carries(r, n)
    BY DEF Gapless
  <2>1. CASE n = end + 1
    BY <1>4, <2>1
  <2>2. CASE n # end + 1
    <3>1. n <= end /\ i \in 1..Len(q)
      BY <1>1, <1>2, <1>5, <2>2
    <3>2. Carries(q, n)
      BY <1>2, <3>1 DEF Channel, Gapless
    <3>3. QED
      BY <1>3, <3>2
  <2>3. QED
    BY <2>1, <2>2
<1>10. QED
  BY <1>2, <1>3, <1>4, <1>7, <1>8, <1>9 DEF Channel, r, m

\* ... or the stats, which change no block of it ...
LEMMA AppendStats ==
  ASSUME NEW q \in Seq(Message), NEW from \in Int, NEW end \in Int, Channel(q, from, end)
  PROVE  LET r == Append(q, StatsMsg)
         IN  /\ r \in Seq(Message)
             /\ Channel(r, from, end)
             /\ \A n \in Int : Carries(q, n) => Carries(r, n)
             /\ NoBlock(q) => NoBlock(r)
<1> DEFINE r == Append(q, StatsMsg)
<1>1. /\ r \in Seq(Message) /\ Len(q) \in Nat /\ Len(r) = Len(q) + 1
      /\ ~IsBlock(r[Len(q) + 1])
      /\ \A i \in 1..Len(q) : r[i] = q[i]
  BY Messages
<1> HIDE DEF r
<1>2. \A i \in 1..Len(r) : IsBlock(r[i]) => i \in 1..Len(q) /\ r[i] = q[i]
  BY <1>1
<1>3. \A n \in Int : Carries(q, n) => Carries(r, n)
  BY <1>1 DEF Carries
<1>4. Within(r, from, end) /\ Rises(r)
  BY <1>2 DEF Channel, Within, Rises
<1>5. Gapless(r, end)
  BY <1>2, <1>3 DEF Channel, Gapless
<1>6. QED
  BY <1>1, <1>2, <1>3, <1>4, <1>5 DEF Channel, NoBlock, r

\* ... and what leaves it, read or dropped, is its oldest message.
LEMMA TailOfChannel ==
  ASSUME NEW q \in Seq(Message), NEW from \in Int, NEW end \in Int, Channel(q, from, end), q # <<>>
  PROVE  LET t == Tail(q)
         IN  /\ t \in Seq(Message)
             /\ Channel(t, from, end)
             /\ Head(q) \in Message /\ Head(q) = q[1] /\ 1 \in 1..Len(q)
             /\ \A n \in Int :
                  (Carries(q, n) /\ ~(IsBlock(Head(q)) /\ Head(q).number = n)) => Carries(t, n)
             /\ NoBlock(q) => NoBlock(t)
<1> DEFINE t == Tail(q)
<1>1. /\ t \in Seq(Message) /\ Len(q) \in Nat \ {0} /\ Len(t) = Len(q) - 1
      /\ Head(q) = q[1] /\ Head(q) \in Message
      /\ \A i \in 1..Len(t) : t[i] = q[i + 1]
      /\ \A i \in 1..Len(q) : q[i] \in Message
  OBVIOUS
<1> HIDE DEF t
<1>2. \A i \in 1..Len(t) : i + 1 \in 1..Len(q) /\ t[i] = q[i + 1]
  BY <1>1
<1>3. \A j \in 1..Len(q) : j = 1 \/ (j - 1 \in 1..Len(t) /\ t[j - 1] = q[j])
  BY <1>1
<1>4. 1 \in 1..Len(q)
  BY <1>1
<1>5. \A n \in Int : (Carries(q, n) /\ ~(IsBlock(q[1]) /\ q[1].number = n)) => Carries(t, n)
  BY <1>3 DEF Carries
<1>6. Within(t, from, end) /\ Rises(t)
  <2>1. Within(t, from, end)
    BY <1>2 DEF Channel, Within
  <2>2. \A i, j \in 1..Len(t) : i < j => i + 1 < j + 1
    OBVIOUS
  <2>3. Rises(t)
    BY <1>2, <2>2 DEF Channel, Rises
  <2>4. QED
    BY <2>1, <2>3
<1>7. Gapless(t, end)
  <2> SUFFICES ASSUME NEW i \in 1..Len(t), IsBlock(t[i]), NEW n \in Int, t[i].number <= n, n <= end
               PROVE  Carries(t, n)
    BY DEF Gapless
  <2>1. i + 1 \in 1..Len(q) /\ IsBlock(q[i + 1]) /\ q[i + 1].number = t[i].number /\ 1 < i + 1
    BY <1>2
  <2>2. Carries(q, n)
    BY <2>1 DEF Channel, Gapless
  <2>3. IsBlock(q[1]) => q[1].number < t[i].number /\ q[1].number \in Int /\ t[i].number \in Int
    BY <1>1, <1>4, <2>1, Messages DEF Channel, Rises
  <2>4. QED
    BY <1>5, <2>2, <2>3
<1>8. NoBlock(q) => NoBlock(t)
  BY <1>2 DEF NoBlock
<1>9. QED
  BY <1>1, <1>4, <1>5, <1>6, <1>7, <1>8 DEF Channel, t

LEMMA QuietChannel ==
  ASSUME NEW q, NoBlock(q), NEW from, NEW end
  PROVE  Channel(q, from, end)
BY DEF NoBlock, Channel, Within, Rises, Gapless

LEMMA EmptyChannel == NoBlock(<<>>) /\ <<>> \in Seq(Message)
BY DEF NoBlock

-----------------------------------------------------------------------------
(***************************************************************************)
(* Each step keeps the invariant.                                          *)
(***************************************************************************)
LEMMA Bounds ==
  /\ FirstTip \in Nat \ {0} /\ Capacity \in Nat \ {0} /\ MaxReplay \in Nat \ {0} /\ None = -1
BY LiveFeedAssumption DEF None

LEMMA InitFeed == FeedInit => FeedInv
<1> SUFFICES ASSUME FeedInit PROVE FeedInv
  OBVIOUS
<1> USE DEF FeedInit
<1>1. FeedTypes /\ StoreOK
  <2>1. low \in Int /\ tip \in Int /\ StoreOK
    BY Bounds DEF StoreOK
  <2>2. feed \in [pc : {"poll", "read", "publish", "stats", "stopped"},
                  head : Int, sent : Int, shown : Nat]
    BY <2>1
  <2>3. <<>> \in Seq(Int) /\ None \in Int
    BY Bounds
  <2>4. QED
    BY <2>1, <2>2, <2>3, EmptyChannel DEF FeedTypes
<1>2. FeedOK
  BY Bounds, <1>1 DEF FeedOK, RunTo, Published, StoreOK, FeedTypes
<1>3. ChannelOK
  BY EmptyChannel, QuietChannel DEF ChannelOK
<1>4. StreamOK /\ Complete /\ InOrder /\ NoneSkipped
  BY Bounds, <1>1 DEF StreamOK, Complete, InOrder, NoneSkipped, RunTo, StoreOK
<1>5. QED
  BY <1>1, <1>2, <1>3, <1>4 DEF FeedInv

LEMMA PublishedInt == ASSUME FeedInv PROVE Published \in Int /\ Published <= tip
<1>1. Len(sending) \in Nat /\ feed.sent \in Int /\ tip \in Int /\ feed.sent <= tip
  BY DEF FeedInv, FeedTypes, FeedOK
<1>2. QED
  BY <1>1 DEF Published

\* The store grows at its ends: nothing published or delivered is newer than its
\* tip, or older than its low end.
LEMMA StoreGrows ==
  ASSUME FeedInv, low' \in Int, tip' \in Int, stats' \in Nat, StoreOK',
         tip <= tip', tip # None => low' <= low,
         UNCHANGED <<publisher, stream>>
  PROVE  FeedInv'
<1>1. FeedTypes'
  BY DEF FeedInv, FeedTypes, publisher, stream
<1>2. FeedTypes /\ Published' = Published /\ Published \in Int
  BY PublishedInt DEF FeedInv, Published, publisher
<1>3. CASE tip = None
  <2>1. low = 0
    BY <1>2, <1>3, Bounds DEF FeedInv, StoreOK, FeedTypes
  <2>2. feed.sent = None /\ sending = <<>> /\ feed.head = None /\ delivered = <<>>
    BY <1>2, <1>3, <2>1, Bounds DEF FeedInv, FeedOK, StreamOK, FeedTypes
  <2>3. FeedOK'
    BY <1>2, <2>2, Bounds DEF FeedInv, FeedOK, FeedTypes, publisher, RunTo
  <2>4. NoBlock(rx) /\ Channel(rx, low', Published)
    BY <2>2, QuietChannel DEF FeedInv, ChannelOK
  <2>5. ChannelOK'
    BY <1>2, <2>4 DEF FeedInv, ChannelOK, publisher, stream
  <2>6. StreamOK'
    BY <1>2, <2>2 DEF FeedInv, StreamOK, FeedTypes, stream, RunTo
  <2>7. QED
    BY <1>1, <1>2, <2>2, <2>3, <2>5, <2>6
    DEF FeedInv, Complete, InOrder, NoneSkipped, stream
<1>4. CASE tip # None
  <2>1. FeedOK'
    <3>1. feed' = feed /\ sending' = sending /\ FeedOK
      BY DEF FeedInv, publisher
    <3>2. /\ low \in Int /\ tip \in Int /\ feed.head \in Int /\ feed.sent \in Int
          /\ low' <= low
      BY <1>2, <1>4 DEF FeedTypes
    <3>3. feed'.head <= tip' /\ feed'.sent <= tip' /\ (feed'.head = None \/ low' <= feed'.head)
      BY <3>1, <3>2 DEF FeedOK
    <3>4. \/ feed'.sent = None /\ sending' = <<>>
          \/ low' <= feed'.sent /\ low' <= Published' + 1
      BY <1>2, <3>1, <3>2 DEF FeedOK
    <3>5. RunTo(sending', feed'.sent) /\ (feed'.pc # "publish" => sending' = <<>>)
          /\ (feed'.pc = "read" => feed'.sent < feed'.head)
      BY <3>1 DEF FeedOK
    <3>6. QED
      BY <3>3, <3>4, <3>5 DEF FeedOK, RunTo
  <2>2. \A i \in 1..Len(rx) : IsBlock(rx[i]) => rx[i].number \in Int
    BY <1>2, Messages DEF FeedTypes
  <2>3. Channel(rx, low', Published)
    <3>1. Within(rx, low, Published) /\ Rises(rx) /\ Gapless(rx, Published)
      BY DEF FeedInv, ChannelOK, Channel
    <3>2. low \in Int /\ low' <= low
      BY <1>2, <1>4 DEF FeedTypes
    <3>3. Within(rx, low', Published)
      BY <2>2, <3>1, <3>2 DEF Within
    <3>4. QED
      BY <3>1, <3>3 DEF Channel
  <2>4. ChannelOK'
    BY <1>2, <2>3 DEF FeedInv, ChannelOK, publisher, stream
  <2>5. StreamOK'
    BY <1>2, <1>4 DEF FeedInv, StreamOK, FeedTypes, stream, RunTo
  <2>6. QED
    BY <1>1, <1>2, <2>1, <2>4, <2>5 DEF FeedInv, Complete, InOrder, NoneSkipped, stream
<1>5. QED
  BY <1>3, <1>4

\* A step of the feed that publishes no block, and moves at most its own state.
LEMMA FeedMoves ==
  ASSUME FeedInv, FeedTypes', FeedOK', feed.sent' = feed.sent, sending' = sending,
         UNCHANGED <<store, stream>>
  PROVE  FeedInv'
<1>1. Published' = Published
  BY DEF Published
<1>2. QED
  BY <1>1 DEF FeedInv, StoreOK, ChannelOK, StreamOK, Complete, InOrder, NoneSkipped, store, stream

LEMMA StoreStep ==
  ASSUME FeedInv,
         (\E n \in 0..MaxBatch : FirstCommit(n)) \/ (\E up, down \in 0..MaxBatch : Commit(up, down))
           \/ StoreStats
  PROVE  FeedInv'
<1> MaxBatch \in Nat
  BY LiveFeedAssumption
<1> FeedTypes /\ StoreOK
  BY DEF FeedInv
<1>1. ASSUME NEW n \in 0..MaxBatch, FirstCommit(n) PROVE FeedInv'
  <2>1. /\ tip = None /\ low' \in Int /\ tip' \in Int /\ stats' \in Nat /\ tip <= tip' /\ 1 <= low' /\ low' <= tip'
        /\ UNCHANGED <<publisher, stream>>
    BY <1>1, Bounds DEF FirstCommit, FeedTypes
  <2>2. QED
    BY <2>1, StoreGrows DEF StoreOK
<1>2. ASSUME NEW up \in 0..MaxBatch, NEW down \in 0..MaxBatch, Commit(up, down) PROVE FeedInv'
  <2>1. /\ low' \in Int /\ tip' \in Int /\ stats' \in Nat /\ tip <= tip' /\ 1 <= low' /\ low' <= tip'
        /\ low' <= low
        /\ UNCHANGED <<publisher, stream>>
    BY <1>2, Bounds DEF Commit, FeedTypes, StoreOK
  <2>2. QED
    BY <2>1, StoreGrows DEF StoreOK
<1>3. CASE StoreStats
  <2>1. /\ low' = low /\ tip' = tip /\ stats' \in Nat /\ UNCHANGED <<publisher, stream>>
    BY <1>3 DEF StoreStats, FeedTypes
  <2>2. QED
    BY <2>1, StoreGrows DEF StoreOK, FeedTypes
<1>4. QED
  BY <1>1, <1>2, <1>3

LEMMA PollStep == ASSUME FeedInv, FeedPoll PROVE FeedInv'
<1> FeedTypes /\ StoreOK /\ FeedOK
  BY DEF FeedInv
<1> DEFINE to == CASE stopping                     -> "stopped"
                   [] ~stopping /\ tip > feed.sent -> "read"
                   [] OTHER                        -> "stats"
<1>1. /\ feed' = [feed EXCEPT !.head = tip, !.pc = to]
      /\ to \in {"read", "stats", "stopped"} /\ (to = "read" => tip > feed.sent)
      /\ sending = <<>> /\ UNCHANGED <<store, sending, stream>>
  BY DEF FeedPoll, FeedOK
<1> HIDE DEF to
<1>2. feed'.pc = to /\ feed'.head = tip /\ feed'.sent = feed.sent /\ feed'.shown = feed.shown
  BY <1>1 DEF FeedTypes
<1>3. FeedTypes'
  BY <1>1 DEF FeedTypes, store, stream
<1>4. FeedOK'
  BY <1>1, <1>2, Bounds DEF FeedOK, StoreOK, FeedTypes, Published, RunTo, store
<1>5. QED
  BY <1>1, <1>2, <1>3, <1>4, FeedMoves

\* What the feed reads starts after the last block published: on its first read
\* there was none, and it starts from the oldest block on record.
LEMMA ReadStep == ASSUME FeedInv, FeedRead PROVE FeedInv'
<1> FeedTypes /\ StoreOK /\ FeedOK
  BY DEF FeedInv
<1> DEFINE first == IF feed.sent + 1 < low THEN low ELSE feed.sent + 1
<1>1. /\ feed.pc = "read" /\ sending = <<>> /\ feed.sent < feed.head /\ feed.head <= tip
      /\ sending' = OnRecord(feed.sent + 1, feed.head)
      /\ feed'.pc = "publish" /\ feed'.sent = feed.head /\ feed'.head = feed.head
      /\ feed' \in [pc : {"poll", "read", "publish", "stats", "stopped"},
                    head : Int, sent : Int, shown : Nat]
      /\ UNCHANGED <<store, stream>>
  BY DEF FeedRead, FeedOK, FeedTypes
<1>2. feed.head \in Int /\ feed.sent \in Int /\ low \in Int /\ tip \in Int /\ feed.sent + 1 \in Int
  BY DEF FeedTypes
<1>3. first <= feed.head /\ low <= feed.head
  BY <1>1, <1>2, Bounds DEF FeedOK, Published, StoreOK
<1>4. /\ sending' \in Seq(Int) /\ RunTo(sending', feed.head)
      /\ sending' # <<>> /\ Len(sending') = feed.head - first + 1
  BY <1>1, <1>2, <1>3, ReadIsRun
<1>5. Published' = first - 1 /\ Published = feed.sent
  <2>1. first \in Int /\ Len(sending) = 0
    BY <1>1, <1>2
  <2> HIDE DEF first
  <2>2. Published' = feed.head - (feed.head - first + 1)
    BY <1>1, <1>4 DEF Published
  <2>3. Published = feed.sent - 0
    BY <2>1 DEF Published
  <2>4. QED
    BY <1>2, <2>1, <2>2, <2>3
<1>6. FeedTypes'
  BY <1>1, <1>4 DEF FeedTypes, store, stream
<1>7. FeedOK'
  BY <1>1, <1>2, <1>3, <1>4, <1>5 DEF FeedOK, store
<1>8. CASE feed.sent = None
  <2>1. NoBlock(rx)
    BY <1>8 DEF FeedInv, ChannelOK
  <2>2. ChannelOK'
    BY <1>1, <2>1, QuietChannel DEF FeedInv, ChannelOK, stream
  <2>3. first = low
    BY <1>2, <1>8, Bounds DEF StoreOK
  <2>4. Complete'
    <3>1. Published' = low - 1 /\ UNCHANGED <<rx, delivered, lastNum, lagged, truncated>>
      BY <1>1, <1>5, <2>3 DEF stream
    <3>2. delivered # <<>> => low <= lastNum /\ lastNum \in Int
      BY DEF FeedInv, StreamOK, FeedTypes
    <3>3. QED
      BY <1>2, <3>1, <3>2 DEF Complete
  <2>5. QED
    BY <1>1, <1>6, <1>7, <2>2, <2>4 DEF FeedInv, StoreOK, StreamOK, InOrder, NoneSkipped, store, stream
<1>9. CASE feed.sent # None
  <2>1. low <= feed.sent /\ first = feed.sent + 1 /\ feed.head # None
    BY <1>1, <1>2, <1>9, Bounds DEF FeedOK, StoreOK
  <2>2. Published' = Published
    BY <1>2, <1>5, <2>1
  <2>3. ChannelOK' /\ Complete'
    BY <1>1, <2>1, <2>2 DEF FeedInv, ChannelOK, Complete, store, stream
  <2>4. QED
    BY <1>1, <1>6, <1>7, <2>3 DEF FeedInv, StoreOK, StreamOK, InOrder, NoneSkipped, store, stream
<1>10. QED
  BY <1>8, <1>9

\* What a full channel drops, it drops from its old end, and then it has lagged.
LEMMA BlockStep == ASSUME FeedInv, FeedBlock PROVE FeedInv'
<1> FeedTypes /\ StoreOK /\ FeedOK /\ ChannelOK
  BY DEF FeedInv
<1> USE DEF FeedBlock
<1>1. CASE sending = <<>>
  <2>1. /\ feed'.pc = "stats" /\ feed'.sent = feed.sent /\ feed'.head = feed.head
        /\ feed' \in [pc : {"poll", "read", "publish", "stats", "stopped"},
                      head : Int, sent : Int, shown : Nat]
        /\ sending' = sending /\ UNCHANGED <<store, stream>>
    BY <1>1 DEF FeedTypes, stream
  <2>2. FeedTypes'
    BY <2>1 DEF FeedTypes, store, stream
  <2>3. FeedOK'
    BY <1>1, <2>1 DEF FeedOK, Published, RunTo, store
  <2>4. QED
    BY <2>1, <2>2, <2>3, FeedMoves
<1>2. CASE sending # <<>>
  <2>1. /\ Broadcast(BlockMsg(Head(sending))) /\ sending' = Tail(sending) /\ feed' = feed
        /\ feed.pc = "publish"
        /\ UNCHANGED <<store, viewer, pending, lastNum, delivered, truncated>>
    BY <1>2
  <2>2. low <= feed.sent /\ low <= Published + 1 /\ feed.sent # None
    <3>1. low <= feed.sent /\ low <= Published + 1
      BY <1>2 DEF FeedOK
    <3>2. 0 <= low /\ low \in Int /\ feed.sent \in Int /\ None = -1
      BY Bounds DEF StoreOK, FeedTypes
    <3>3. QED
      BY <3>1, <3>2
  <2>3. feed.sent \in Int /\ sending \in Seq(Int) /\ RunTo(sending, feed.sent)
    BY DEF FeedTypes, FeedOK
  <2>4. /\ Head(sending) = Published + 1
        /\ sending' \in Seq(Int) /\ RunTo(sending', feed.sent)
        /\ Published' = Published + 1
    BY <1>2, <2>1, <2>3, TailOfRun DEF Published
  <2>5. Published \in Int /\ Published + 1 \in Int /\ low \in Int /\ rx \in Seq(Message) /\ Channel(rx, low, Published)
    BY PublishedInt DEF FeedTypes, ChannelOK
  <2>6. FeedOK'
    BY <2>1, <2>2, <2>4, <2>5 DEF FeedOK, store
  <2>7. CASE viewer = "off"
    <3>1. rx' = rx /\ lagged' = lagged /\ rx = <<>> /\ delivered = <<>>
      BY <2>1, <2>7 DEF Broadcast, ChannelOK, FeedInv, StreamOK
    <3>2. FeedTypes'
      BY <2>1, <2>4, <3>1 DEF FeedTypes, store
    <3>3. ChannelOK'
      BY <2>1, <2>4, <3>1, EmptyChannel, QuietChannel DEF ChannelOK, store
    <3>4. StreamOK' /\ Complete'
      BY <2>1, <3>1 DEF FeedInv, StreamOK, Complete, store
    <3>5. QED
      BY <2>1, <2>6, <3>2, <3>3, <3>4 DEF FeedInv, StoreOK, InOrder, NoneSkipped, store
  <2>8. CASE viewer # "off"
    <3> DEFINE full == Len(rx) = Capacity
               kept == IF full THEN Tail(rx) ELSE rx
    <3>1. /\ rx' = Append(kept, BlockMsg(Published + 1))
          /\ lagged' = IF full THEN TRUE ELSE lagged
      BY <2>1, <2>4, <2>8 DEF Broadcast
    <3>2. full => rx # <<>>
      BY <2>5, Bounds
    <3>3. kept \in Seq(Message) /\ Channel(kept, low, Published)
      BY <2>5, <3>2, TailOfChannel
    <3>4. ~full => kept = rx
      OBVIOUS
    <3> HIDE DEF kept, full
    <3>5. /\ rx' \in Seq(Message) /\ Channel(rx', low, Published + 1)
          /\ \A n \in Int : Carries(kept, n) => Carries(rx', n)
          /\ Carries(rx', Published + 1)
      BY <2>2, <2>5, <3>1, <3>3, AppendBlock
    <3>6. FeedTypes'
      BY <2>1, <2>4, <3>1, <3>5 DEF FeedTypes, store
    <3>7. ChannelOK'
      BY <2>1, <2>2, <2>4, <2>8, <3>5 DEF ChannelOK, store
    <3>8. StreamOK'
      BY <2>1 DEF FeedInv, StreamOK, store
    <3>9. Complete'
      <4> SUFFICES ASSUME delivered # <<>>, ~lagged', ~truncated,
                          NEW n \in Int, lastNum < n, n <= Published + 1
                   PROVE  Carries(rx', n)
        BY <2>1, <2>4 DEF Complete
      <4>1. ~full /\ ~lagged
        BY <3>1
      <4>2. CASE n = Published + 1
        BY <3>5, <4>2
      <4>3. CASE n # Published + 1
        <5>1. n <= Published
          BY <2>5, <4>3
        <5>2. Carries(kept, n)
          BY <3>4, <4>1, <5>1 DEF FeedInv, Complete
        <5>3. QED
          BY <3>5, <5>2
      <4>4. QED
        BY <4>2, <4>3
    <3>10. QED
      BY <2>1, <2>6, <3>6, <3>7, <3>8, <3>9 DEF FeedInv, StoreOK, InOrder, NoneSkipped, store
  <2>9. QED
    BY <2>7, <2>8
<1>3. QED
  BY <1>1, <1>2

LEMMA StatsStep == ASSUME FeedInv, FeedStats PROVE FeedInv'
<1> FeedTypes /\ StoreOK /\ FeedOK /\ ChannelOK
  BY DEF FeedInv
<1>1. /\ feed'.pc = "poll" /\ feed'.sent = feed.sent /\ feed'.head = feed.head
      /\ feed' \in [pc : {"poll", "read", "publish", "stats", "stopped"},
                    head : Int, sent : Int, shown : Nat]
      /\ sending = <<>> /\ sending' = sending
      /\ UNCHANGED <<store, viewer, pending, lastNum, delivered, truncated>>
      /\ IF stats # feed.shown THEN Broadcast(StatsMsg) ELSE UNCHANGED <<rx, lagged>>
  BY DEF FeedStats, FeedTypes, FeedOK
<1>2. FeedOK' /\ Published' = Published
  BY <1>1 DEF FeedOK, Published, store
<1>3. CASE UNCHANGED <<rx, lagged>>
  <2>1. FeedTypes'
    BY <1>1, <1>3 DEF FeedTypes, store
  <2>2. QED
    BY <1>1, <1>2, <1>3, <2>1, FeedMoves DEF stream
<1>4. CASE ~UNCHANGED <<rx, lagged>>
  <2> DEFINE full == Len(rx) = Capacity
             kept == IF full THEN Tail(rx) ELSE rx
  <2>1. /\ viewer # "off" /\ rx' = Append(kept, StatsMsg)
        /\ lagged' = IF full THEN TRUE ELSE lagged
    BY <1>1, <1>4 DEF Broadcast
  <2>2. Published \in Int /\ low \in Int /\ rx \in Seq(Message) /\ Channel(rx, low, Published)
    BY PublishedInt DEF FeedTypes, ChannelOK
  <2>3. full => rx # <<>>
    BY <2>2, Bounds
  <2>4. kept \in Seq(Message) /\ Channel(kept, low, Published) /\ (NoBlock(rx) => NoBlock(kept))
    BY <2>2, <2>3, TailOfChannel
  <2>5. ~full => kept = rx
    OBVIOUS
  <2> HIDE DEF kept, full
  <2>6. /\ rx' \in Seq(Message) /\ Channel(rx', low, Published)
        /\ \A n \in Int : Carries(kept, n) => Carries(rx', n)
        /\ NoBlock(rx) => NoBlock(rx')
    BY <2>1, <2>2, <2>4, AppendStats
  <2>7. FeedTypes'
    BY <1>1, <2>1, <2>6 DEF FeedTypes, store
  <2>8. ChannelOK'
    BY <1>1, <1>2, <2>1, <2>6 DEF ChannelOK, store
  <2>9. StreamOK'
    BY <1>1 DEF FeedInv, StreamOK, store
  <2>10. Complete'
    BY <1>1, <1>2, <2>1, <2>5, <2>6 DEF FeedInv, Complete
  <2>11. QED
    BY <1>1, <1>2, <2>7, <2>8, <2>9, <2>10 DEF FeedInv, StoreOK, InOrder, NoneSkipped, store
<1>5. QED
  BY <1>3, <1>4

\* A stream that starts or ends has delivered nothing and holds nothing.
LEMMA NewStreamStep ==
  ASSUME FeedInv, NEW state \in {"off", "new"}, NewStream(state), UNCHANGED <<store, publisher>>
  PROVE  FeedInv'
<1> FeedTypes /\ StoreOK /\ FeedOK
  BY DEF FeedInv
<1>1. FeedTypes'
  <2>1. <<>> \in Seq(Int) /\ <<>> \in Seq(Message) /\ None \in Int
    BY Bounds, EmptyChannel
  <2>2. QED
    BY <2>1 DEF NewStream, FeedTypes, store, publisher
<1>2. StoreOK' /\ FeedOK'
  BY DEF StoreOK, FeedOK, Published, RunTo, store, publisher
<1>3. ChannelOK'
  BY EmptyChannel, QuietChannel DEF NewStream, ChannelOK
<1>4. StreamOK' /\ Complete' /\ InOrder' /\ NoneSkipped'
  BY Bounds DEF NewStream, StreamOK, Complete, InOrder, NoneSkipped, RunTo, StoreOK, FeedTypes, store
<1>5. QED
  BY <1>1, <1>2, <1>3, <1>4 DEF FeedInv

LEMMA SendTipStep == ASSUME FeedInv, SendTip PROVE FeedInv'
<1> FeedTypes /\ StoreOK /\ FeedOK /\ ChannelOK /\ StreamOK
  BY DEF FeedInv
<1>1. /\ viewer' = "live" /\ viewer # "live" /\ viewer # "off" /\ lastNum' = tip /\ ~truncated
      /\ delivered' = (IF tip = None THEN <<>> ELSE <<tip>>)
      /\ pending = <<>>
      /\ UNCHANGED <<store, publisher, rx, lagged, pending, truncated>>
  BY DEF SendTip, StreamOK
<1>2. /\ delivered' \in Seq(Int) /\ Len(delivered') \in {0, 1}
      /\ delivered' # <<>> => tip # None /\ Len(delivered') = 1 /\ delivered'[1] = tip
  BY <1>1 DEF FeedTypes
<1>3. FeedTypes'
  BY <1>1, <1>2 DEF FeedTypes, store, publisher
<1>4. StoreOK' /\ FeedOK' /\ ChannelOK' /\ Published' = Published
  BY <1>1 DEF StoreOK, FeedOK, ChannelOK, Published, RunTo, store, publisher
<1>5. StreamOK'
  BY <1>1, <1>2 DEF StreamOK, StoreOK, RunTo, FeedTypes, store
<1>6. Complete'
  BY <1>1, <1>4, PublishedInt DEF Complete, FeedTypes
<1>7. InOrder' /\ NoneSkipped'
  BY <1>2 DEF InOrder, NoneSkipped
<1>8. QED
  BY <1>3, <1>4, <1>5, <1>6, <1>7 DEF FeedInv

\* One more block delivered keeps the order, and closes up if it is the next.
LEMMA DeliverOne ==
  ASSUME NEW d \in Seq(Int), NEW n \in Int, d # <<>> => d[Len(d)] < n,
         \A i \in 1..(Len(d) - 1) : d[i] < d[i + 1]
  PROVE  LET e == Append(d, n)
         IN  /\ e \in Seq(Int) /\ e # <<>> /\ e[Len(e)] = n
             /\ \A i \in 1..(Len(e) - 1) : e[i] < e[i + 1]
             /\ (/\ \A i \in 1..(Len(d) - 1) : d[i + 1] <= d[i] + 1
                 /\ d # <<>> => n <= d[Len(d)] + 1)
                  => \A i \in 1..(Len(e) - 1) : e[i + 1] <= e[i] + 1
<1> DEFINE e == Append(d, n)
<1>1. /\ e \in Seq(Int) /\ e # <<>> /\ Len(d) \in Nat /\ Len(e) = Len(d) + 1 /\ e[Len(e)] = n
      /\ \A i \in 1..Len(d) : e[i] = d[i]
  <2>1. Len(d) \in Nat /\ Len(e) = Len(d) + 1 /\ \A i \in 1..Len(d) : e[i] = d[i]
    OBVIOUS
  <2>2. e[Len(d) + 1] = n /\ e \in Seq(Int) /\ e # <<>>
    BY AppendProperties
  <2>3. QED
    BY <2>1, <2>2
<1>2. d = <<>> <=> Len(d) = 0
  OBVIOUS
<1> HIDE DEF e
<1>3. \A i \in 1..(Len(e) - 1) :
        \/ i = Len(d) /\ d # <<>> /\ e[i] = d[Len(d)] /\ e[i + 1] = n
        \/ i \in 1..(Len(d) - 1) /\ e[i] = d[i] /\ e[i + 1] = d[i + 1]
  <2> SUFFICES ASSUME NEW i \in 1..(Len(e) - 1)
               PROVE  \/ i = Len(d) /\ d # <<>> /\ e[i] = d[Len(d)] /\ e[i + 1] = n
                      \/ i \in 1..(Len(d) - 1) /\ e[i] = d[i] /\ e[i + 1] = d[i + 1]
    OBVIOUS
  <2>1. i \in 1..Len(d) /\ Len(d) # 0 /\ d # <<>>
    BY <1>1, <1>2
  <2>2. CASE i = Len(d)
    BY <1>1, <2>1, <2>2
  <2>3. CASE i # Len(d)
    <3>1. i \in 1..(Len(d) - 1) /\ i + 1 \in 1..Len(d)
      BY <1>1, <2>1, <2>3
    <3>2. QED
      BY <1>1, <2>1, <3>1
  <2>4. QED
    BY <2>2, <2>3
<1>4. QED
  BY <1>1, <1>3 DEF e

LEMMA SendPendingStep == ASSUME FeedInv, SendPending PROVE FeedInv'
<1> FeedTypes /\ StoreOK /\ FeedOK /\ ChannelOK /\ StreamOK
  BY DEF FeedInv
<1>1. /\ viewer = "live" /\ pending # <<>> /\ delivered # <<>>
      /\ delivered' = Append(delivered, Head(pending)) /\ pending' = Tail(pending)
      /\ UNCHANGED <<store, publisher, viewer, rx, lagged, lastNum, truncated>>
  BY DEF SendPending, Streaming, StreamOK
<1>2. pending \in Seq(Int) /\ delivered \in Seq(Int) /\ lastNum \in Int /\ RunTo(pending, lastNum)
  BY DEF FeedTypes, StreamOK
<1>3. /\ Head(pending) = lastNum - Len(pending) + 1 /\ Head(pending) \in Int
      /\ pending' \in Seq(Int) /\ Len(pending') = Len(pending) - 1 /\ Len(pending) \in Nat
      /\ RunTo(pending', lastNum)
  BY <1>1, <1>2, TailOfRun
<1>4. delivered[Len(delivered)] = Head(pending) - 1
  BY <1>1, <1>2, <1>3 DEF StreamOK
<1>5. /\ delivered' \in Seq(Int) /\ delivered' # <<>> /\ delivered'[Len(delivered')] = Head(pending)
      /\ InOrder' /\ NoneSkipped'
  <2>1. /\ delivered # <<>> => delivered[Len(delivered)] < Head(pending)
        /\ delivered # <<>> => Head(pending) <= delivered[Len(delivered)] + 1
    BY <1>3, <1>4
  <2>2. QED
    BY <1>1, <1>2, <1>3, <2>1, DeliverOne DEF FeedInv, InOrder, NoneSkipped
<1>6. FeedTypes'
  BY <1>1, <1>3, <1>5 DEF FeedTypes, store, publisher
<1>7. StoreOK' /\ FeedOK' /\ ChannelOK' /\ Published' = Published
  BY <1>1 DEF StoreOK, FeedOK, ChannelOK, Published, RunTo, store, publisher
<1>8. lastNum' - Len(pending') = Head(pending)
  BY <1>1, <1>2, <1>3
<1>9. StreamOK'
  BY <1>1, <1>3, <1>5, <1>8 DEF StreamOK, store
<1>10. Complete'
  BY <1>1, <1>7 DEF FeedInv, Complete
<1>11. QED
  BY <1>5, <1>6, <1>7, <1>9, <1>10 DEF FeedInv

\* A block newer than the last one delivered is the next one: the channel has
\* every block after that one, and what comes first in it is its oldest.
LEMMA ReceiveStep == ASSUME FeedInv, Receive PROVE FeedInv'
<1> FeedTypes /\ StoreOK /\ FeedOK /\ ChannelOK /\ StreamOK
  BY DEF FeedInv
<1> DEFINE n == Head(rx).number
<1>1. /\ viewer = "live" /\ pending = <<>> /\ ~lagged /\ rx # <<>> /\ rx' = Tail(rx)
      /\ UNCHANGED <<store, publisher, viewer, lagged, pending, truncated>>
  BY DEF Receive, Streaming
<1>2. Published \in Int /\ Published <= tip /\ low \in Int /\ tip \in Int /\ lastNum \in Int
  BY PublishedInt DEF FeedTypes
<1>3. rx \in Seq(Message) /\ Channel(rx, low, Published)
  BY DEF FeedTypes, ChannelOK
<1>4. /\ rx' \in Seq(Message) /\ Channel(rx', low, Published)
      /\ Head(rx) \in Message /\ Head(rx) = rx[1] /\ 1 \in 1..Len(rx)
      /\ \A k \in Int : (Carries(rx, k) /\ ~(IsBlock(Head(rx)) /\ n = k)) => Carries(rx', k)
      /\ NoBlock(rx) => NoBlock(rx')
  BY <1>1, <1>2, <1>3, TailOfChannel
<1>5. StoreOK' /\ FeedOK' /\ ChannelOK' /\ Published' = Published
  BY <1>1, <1>4 DEF StoreOK, FeedOK, ChannelOK, Published, RunTo, store, publisher
<1>6. CASE IsBlock(Head(rx)) /\ n > lastNum
  <2>1. delivered' = Append(delivered, n) /\ lastNum' = n
    BY <1>6 DEF Receive, IsBlock
  <2>2. n \in Int /\ low <= n /\ n <= Published
    BY <1>3, <1>4, <1>6, Messages DEF Channel, Within
  <2>3. delivered \in Seq(Int) /\ (delivered # <<>> => delivered[Len(delivered)] = lastNum)
    BY <1>1, <1>2 DEF FeedTypes, StreamOK
  <2>4. ASSUME delivered # <<>>, ~truncated PROVE n = lastNum + 1
    <3> SUFFICES ASSUME n # lastNum + 1 PROVE FALSE
      OBVIOUS
    <3>1. lastNum + 1 \in Int /\ lastNum < lastNum + 1 /\ lastNum + 1 < n /\ lastNum + 1 <= Published
      BY <1>2, <1>6, <2>2
    <3>2. Carries(rx, lastNum + 1)
      BY <1>1, <2>4, <3>1 DEF FeedInv, Complete
    <3>3. PICK j \in 1..Len(rx) : IsBlock(rx[j]) /\ rx[j].number = lastNum + 1
      BY <3>2 DEF Carries
    <3>4. j # 1 /\ 1 < j
      BY <1>4, <3>1, <3>3, <2>2
    <3>5. n < rx[j].number
      BY <1>3, <1>4, <1>6, <3>3, <3>4 DEF Channel, Rises
    <3>6. QED
      BY <2>2, <3>1, <3>3, <3>5
  <2>5. /\ delivered' \in Seq(Int) /\ delivered' # <<>> /\ delivered'[Len(delivered')] = n
        /\ InOrder' /\ NoneSkipped'
    <3>1. delivered # <<>> => delivered[Len(delivered)] < n
      BY <1>6, <2>3
    <3>2. (delivered # <<>> /\ ~truncated) => n <= delivered[Len(delivered)] + 1
      BY <1>2, <2>3, <2>4
    <3>3. QED
      BY <1>1, <2>1, <2>2, <2>3, <3>1, <3>2, DeliverOne DEF FeedInv, InOrder, NoneSkipped
  <2>6. FeedTypes'
    BY <1>1, <1>4, <2>1, <2>2, <2>5 DEF FeedTypes, store, publisher
  <2>7. StreamOK'
    BY <1>1, <1>2, <2>1, <2>2, <2>5 DEF StreamOK, RunTo, store
  <2>8. Complete'
    <3> SUFFICES ASSUME NEW k \in Int, n < k, k <= Published PROVE Carries(rx', k)
      BY <1>5, <2>1 DEF Complete
    <3>1. n <= k /\ n # k
      BY <2>2
    <3>2. Carries(rx, k)
      BY <1>3, <1>4, <1>6, <3>1 DEF Channel, Gapless
    <3>3. QED
      BY <1>4, <3>1, <3>2
  <2>9. QED
    BY <1>5, <2>5, <2>6, <2>7, <2>8 DEF FeedInv
<1>7. CASE ~(IsBlock(Head(rx)) /\ n > lastNum)
  <2>1. UNCHANGED <<delivered, lastNum>>
    BY <1>7 DEF Receive, IsBlock
  <2>2. FeedTypes'
    BY <1>1, <1>4, <2>1 DEF FeedTypes, store, publisher
  <2>3. StreamOK'
    BY <1>1, <2>1 DEF StreamOK, RunTo, store
  <2>4. Complete'
    <3> SUFFICES ASSUME delivered # <<>>, ~truncated, NEW k \in Int, lastNum < k, k <= Published
                 PROVE  Carries(rx', k)
      BY <1>1, <1>5, <2>1 DEF Complete
    <3>1. Carries(rx, k)
      BY <1>1 DEF FeedInv, Complete
    <3>2. ~(IsBlock(Head(rx)) /\ n = k)
      BY <1>2, <1>7
    <3>3. QED
      BY <1>4, <3>1, <3>2
  <2>5. QED
    BY <1>1, <1>5, <2>1, <2>2, <2>3, <2>4 DEF FeedInv, InOrder, NoneSkipped
<1>8. QED
  BY <1>6, <1>7

\* A replay that reaches the tip leaves nothing published undelivered.
LEMMA CatchUpStep == ASSUME FeedInv, CatchUp PROVE FeedInv'
<1> FeedTypes /\ StoreOK /\ FeedOK /\ ChannelOK /\ StreamOK
  BY DEF FeedInv
<1> DEFINE missed == OnRecord(lastNum + 1, ReplayEnd)
           first  == IF lastNum + 1 < low THEN low ELSE lastNum + 1
<1>1. /\ viewer = "live" /\ pending = <<>> /\ lagged' = FALSE
      /\ IF missed = <<>>
         THEN UNCHANGED <<pending, delivered>>
         ELSE /\ pending' = Tail(missed)
              /\ delivered' = Append(delivered, Head(missed))
      /\ lastNum' = IF lastNum < ReplayEnd THEN ReplayEnd ELSE lastNum
      /\ truncated' = (truncated \/ ReplayEnd < tip)
      /\ UNCHANGED <<store, publisher, viewer, rx>>
  BY DEF CatchUp, Streaming
<1>2. /\ low \in Int /\ tip \in Int /\ lastNum \in Int /\ lastNum <= tip
      /\ Published \in Int /\ Published <= tip
      /\ delivered \in Seq(Int)
  BY PublishedInt DEF FeedTypes, StreamOK
<1>3. ReplayEnd \in Int /\ ReplayEnd <= tip /\ lastNum + 1 \in Int
  BY <1>2, Bounds DEF ReplayEnd
<1>4. /\ missed \in Seq(Int) /\ RunTo(missed, ReplayEnd)
      /\ first <= ReplayEnd => missed # <<>> /\ Len(missed) = ReplayEnd - first + 1
      /\ first > ReplayEnd => missed = <<>>
  BY <1>2, <1>3, ReadIsRun
<1>5. first \in Int /\ low <= first /\ lastNum < first
  BY <1>2
<1>6. delivered # <<>> => first = lastNum + 1 /\ delivered[Len(delivered)] = lastNum /\ low <= lastNum
  BY <1>1, <1>2 DEF StreamOK
<1> HIDE DEF missed, first
<1>7. lastNum' \in Int /\ lastNum' <= tip /\ truncated' \in BOOLEAN
  BY <1>1, <1>2, <1>3 DEF FeedTypes
<1>8. StoreOK' /\ FeedOK' /\ ChannelOK' /\ Published' = Published
  BY <1>1 DEF StoreOK, FeedOK, ChannelOK, Published, RunTo, store, publisher
<1>9. Complete'
  <2> SUFFICES ASSUME ~truncated', NEW n \in Int, lastNum' < n, n <= Published PROVE FALSE
    BY <1>8 DEF Complete
  <2>1. ~(ReplayEnd < tip)
    BY <1>1
  <2>2. lastNum' >= tip
    BY <1>1, <1>2, <1>3, <2>1
  <2>3. QED
    BY <1>2, <1>7, <2>2
<1>10. CASE missed = <<>>
  <2>1. UNCHANGED <<pending, delivered>>
    BY <1>1, <1>10
  <2>2. delivered # <<>> => lastNum' = lastNum
    BY <1>1, <1>2, <1>3, <1>4, <1>5, <1>6, <1>10
  <2>3. FeedTypes'
    BY <1>1, <1>7, <2>1 DEF FeedTypes, store, publisher
  <2>4. StreamOK'
    BY <1>1, <1>7, <2>1, <2>2 DEF StreamOK, RunTo, store
  <2>5. InOrder' /\ NoneSkipped'
    BY <1>1, <2>1 DEF FeedInv, InOrder, NoneSkipped
  <2>6. QED
    BY <1>8, <1>9, <2>3, <2>4, <2>5 DEF FeedInv
<1>11. CASE missed # <<>>
  <2>1. pending' = Tail(missed) /\ delivered' = Append(delivered, Head(missed))
    BY <1>1, <1>11
  <2>2. first <= ReplayEnd /\ Len(missed) = ReplayEnd - first + 1
    BY <1>3, <1>4, <1>5, <1>11
  <2>3. lastNum' = ReplayEnd /\ low <= lastNum'
    BY <1>1, <1>2, <1>3, <1>5, <2>2
  <2>4. /\ Head(missed) = first
        /\ pending' \in Seq(Int) /\ Len(pending') = ReplayEnd - first
        /\ RunTo(pending', ReplayEnd)
    BY <1>3, <1>4, <1>5, <1>11, <2>1, <2>2, TailOfRun
  <2>5. /\ delivered' \in Seq(Int) /\ delivered' # <<>> /\ delivered'[Len(delivered')] = first
        /\ InOrder' /\ NoneSkipped'
    <3>1. delivered # <<>> => delivered[Len(delivered)] < first /\ first <= delivered[Len(delivered)] + 1
      BY <1>2, <1>6
    <3>2. truncated' \/ ~truncated
      BY <1>1
    <3>3. QED
      BY <1>2, <1>5, <2>1, <2>4, <3>1, <3>2, DeliverOne DEF FeedInv, InOrder, NoneSkipped
  <2>6. FeedTypes'
    BY <1>1, <1>7, <2>4, <2>5 DEF FeedTypes, store, publisher
  <2>7. lastNum' - Len(pending') = first
    BY <1>3, <1>5, <2>3, <2>4
  <2>8. StreamOK'
    BY <1>1, <1>7, <2>3, <2>4, <2>5, <2>7 DEF StreamOK, store
  <2>9. QED
    BY <1>8, <1>9, <2>5, <2>6, <2>8 DEF FeedInv
<1>12. QED
  BY <1>10, <1>11

LEMMA Unchanged ==
  ASSUME FeedInv, UNCHANGED <<store, publisher, stream>>
  PROVE  FeedInv'
BY DEF FeedInv, FeedTypes, StoreOK, FeedOK, Published, RunTo, ChannelOK, StreamOK, Complete,
       InOrder, NoneSkipped, store, publisher, stream

\* Every step of the database, the feed and the stream keeps the invariant.
THEOREM FeedInvariant == FeedSpec => []FeedInv
<1>1. FeedInit => FeedInv
  BY InitFeed
<1>2. FeedInv /\ [FeedNext]_feedVars => FeedInv'
  <2> SUFFICES ASSUME FeedInv, [FeedNext]_feedVars PROVE FeedInv'
    OBVIOUS
  <2>1. CASE (\E n \in 0..MaxBatch : FirstCommit(n))
               \/ (\E up, down \in 0..MaxBatch : Commit(up, down)) \/ StoreStats
    BY <2>1, StoreStep
  <2>2. CASE Feed
    BY <2>2, PollStep, ReadStep, BlockStep, StatsStep DEF Feed
  <2>3. CASE Connect
    BY <2>3, NewStreamStep DEF Connect
  <2>4. CASE Disconnect \/ EndStream
    BY <2>4, NewStreamStep DEF Disconnect, EndStream
  <2>5. CASE SendTip \/ SendPending \/ Receive \/ CatchUp
    BY <2>5, SendTipStep, SendPendingStep, ReceiveStep, CatchUpStep
  <2>6. CASE Shutdown \/ UNCHANGED feedVars
    BY <2>6, Unchanged DEF Shutdown, feedVars
  <2>7. QED
    BY <2>1, <2>2, <2>3, <2>4, <2>5, <2>6 DEF FeedNext, Step
<1>3. QED
  BY <1>1, <1>2, PTL DEF FeedSpec

\* A viewer is never sent a block twice or after a newer one (sse_step passes over
\* what it delivered), whatever the channel drops and the replays overlap.
THEOREM DeliveredInOrder == FeedSpec => []InOrder
<1>1. FeedInv => InOrder
  BY DEF FeedInv
<1>2. QED
  BY <1>1, FeedInvariant, PTL

\* Unless a replay stopped short of the tip, a viewer misses no block between two
\* it is sent (sse_step's replay joins what the channel still holds).
THEOREM DeliveredWithoutGap == FeedSpec => []NoneSkipped
<1>1. FeedInv => NoneSkipped
  BY DEF FeedInv
<1>2. QED
  BY <1>1, FeedInvariant, PTL
=============================================================================
