--------------------------- MODULE IndexerProofs ----------------------------
(***************************************************************************)
(* The pipeline leaves no hole, for every chain longer than the queue and  *)
(* a batch, every size of the queue, batch and range, and every sequence   *)
(* of crashes and power losses.                                            *)
(***************************************************************************)
EXTENDS Indexer, FiniteSetTheorems, SequenceTheorems, TLAPS

-----------------------------------------------------------------------------
(***************************************************************************)
(* The inductive invariant.  Holes are ruled out of every set the table    *)
(* may pass through: what is on record with any number of the blocks sent, *)
(* in the order they were sent.                                            *)
(***************************************************************************)

\* S with the first k blocks of q.
With(S, q, k) == S \cup {q[i] : i \in 1..k}

Tipped(S) == S # {} => \E n \in S : n >= FirstHead

QueueOK ==
  /\ \A k \in 0..Len(pending) :
       IsInterval(With(stored, pending, k)) /\ Tipped(With(stored, pending, k))
  /\ IsInterval(durable) /\ Tipped(durable)
  /\ Len(pending) - taken <= QueueCap
  /\ taken <= MaxBatch

\* The forward loop sends only above a block that was sent; it starts from one
\* on record.
ForwardOK ==
  /\ forward.sent # None => forward.sent \in AllSent /\ stored # {}
  /\ forward.pc \in {"loop", "fetch", "send"} => forward.sent # None
  /\ forward.bundles # {} => forward.pc = "send"
  /\ \A n \in forward.bundles : n - 1 \in AllSent \cup forward.bundles

\* The backfill loop sends only below a block that was sent, or the tip when
\* nothing was.
BackfillOK ==
  /\ backfill.frontier # None => backfill.frontier \in AllSent
  /\ backfill.pc = "loop" /\ backfill.frontier = None => AllSent = {}
  /\ backfill.pc = "start" /\ stored = {} => AllSent = {}
  /\ backfill.pc = "rest" => backfill.frontier = 1
  /\ backfill.bundles # {} => backfill.pc = "send"
  /\ \A n \in backfill.bundles :
       \/ n + 1 \in AllSent \cup backfill.bundles
       \/ AllSent = {} /\ n >= FirstHead /\ IsHighest(n, backfill.bundles)

IInv == TypeOK /\ QueueOK /\ ForwardOK /\ BackfillOK

-----------------------------------------------------------------------------
(***************************************************************************)
(* Lemmas about intervals and the channel.                                 *)
(***************************************************************************)

LEMMA BlockFacts ==
  /\ Block \subseteq Nat \ {0}
  /\ MaxHead \in Nat /\ FirstHead \in Nat /\ FirstHead >= 1 /\ FirstHead <= MaxHead
BY PipelineAssumption DEF Block

\* A neighbour of a member, or a first member, makes an interval longer.
LEMMA IntervalGrows ==
  ASSUME NEW S \in SUBSET Block, IsInterval(S), NEW n \in Block,
         \/ S = {}
         \/ n - 1 \in S
         \/ n + 1 \in S
  PROVE  IsInterval(S \cup {n})
<1> SUFFICES ASSUME NEW a \in S \cup {n}, NEW b \in S \cup {n}, NEW c \in a..b
             PROVE  c \in S \cup {n}
  BY DEF IsInterval
<1>1. a \in Nat /\ b \in Nat /\ n \in Nat /\ c \in Int /\ a <= c /\ c <= b
  BY BlockFacts
<1>2. CASE a \in S /\ b \in S
  BY <1>1, <1>2 DEF IsInterval
<1>3. CASE S = {}
  BY <1>1, <1>3
<1>4. CASE a = n /\ b \in S /\ n # c
  <2>1. n - 1 \in S => c \in (n - 1)..b
    BY <1>1, <1>4
  <2>2. n + 1 \in S => c \in (n + 1)..b
    BY <1>1, <1>4
  <2>3. QED
    BY <1>4, <2>1, <2>2 DEF IsInterval
<1>5. CASE b = n /\ a \in S /\ n # c
  <2>1. n - 1 \in S => c \in a..(n - 1)
    BY <1>1, <1>5
  <2>2. n + 1 \in S => c \in a..(n + 1)
    BY <1>1, <1>5
  <2>3. QED
    BY <1>5, <2>1, <2>2 DEF IsInterval
<1>6. CASE a = n /\ b = n
  BY <1>1, <1>6
<1>7. QED
  BY <1>2, <1>3, <1>4, <1>5, <1>6

LEMMA WithType ==
  ASSUME NEW S \in SUBSET Block, NEW q \in Seq(Block), NEW k \in 0..Len(q)
  PROVE  With(S, q, k) \in SUBSET Block
BY DEF With

LEMMA WithNone ==
  ASSUME NEW S, NEW q
  PROVE  With(S, q, 0) = S
<1>1. 1..0 = {}
  OBVIOUS
<1>2. QED
  BY <1>1 DEF With

LEMMA WithAppended ==
  ASSUME NEW S \in SUBSET Block, NEW q \in Seq(Block), NEW n \in Block
  PROVE  LET r == Append(q, n)
         IN  /\ r \in Seq(Block) /\ Len(r) = Len(q) + 1
             /\ \A k \in 0..Len(q) : With(S, r, k) = With(S, q, k)
             /\ With(S, r, Len(q) + 1) = With(S, q, Len(q)) \cup {n}
<1> DEFINE r == Append(q, n)
<1>1. /\ r \in Seq(Block) /\ Len(r) = Len(q) + 1 /\ r[Len(q) + 1] = n
      /\ \A i \in 1..Len(q) : r[i] = q[i]
  BY AppendProperties
<1>2. Len(q) \in Nat
  OBVIOUS
<1> HIDE DEF r
<1>3. ASSUME NEW k \in 0..Len(q) PROVE With(S, r, k) = With(S, q, k)
  <2>1. \A i \in 1..k : r[i] = q[i]
    BY <1>1, <1>2
  <2>2. {r[i] : i \in 1..k} = {q[i] : i \in 1..k}
    BY <2>1
  <2>3. QED
    BY <2>2 DEF With
<1>4. With(S, r, Len(q) + 1) = With(S, q, Len(q)) \cup {n}
  <2>1. 1..(Len(q) + 1) = 1..Len(q) \cup {Len(q) + 1}
    BY <1>2
  <2>2. {r[i] : i \in 1..(Len(q) + 1)} = {r[i] : i \in 1..Len(q)} \cup {n}
    BY <1>1, <2>1
  <2>3. {r[i] : i \in 1..Len(q)} = {q[i] : i \in 1..Len(q)}
    BY <1>1
  <2>4. QED
    BY <2>2, <2>3 DEF With
<1>5. QED
  BY <1>1, <1>3, <1>4 DEF r

\* Committing the first t blocks leaves the same sets to come.
LEMMA WithDropped ==
  ASSUME NEW S \in SUBSET Block, NEW q \in Seq(Block), NEW t \in 0..Len(q)
  PROVE  LET r == SubSeq(q, t + 1, Len(q))
         IN  /\ r \in Seq(Block) /\ Len(r) = Len(q) - t
             /\ \A k \in 0..Len(r) : With(With(S, q, t), r, k) = With(S, q, t + k)
<1> DEFINE r == SubSeq(q, t + 1, Len(q))
<1>1. Len(q) \in Nat /\ t \in Nat /\ t <= Len(q)
  OBVIOUS
<1>2. \A i \in t + 1..Len(q) : q[i] \in Block
  BY <1>1
<1>3. /\ r \in Seq(Block)
      /\ Len(r) = IF t + 1 <= Len(q) THEN Len(q) - (t + 1) + 1 ELSE 0
      /\ \A i \in 1..Len(q) - (t + 1) + 1 : r[i] = q[t + 1 + i - 1]
  BY <1>1, <1>2, SubSeqProperties
<1> HIDE DEF r
<1>4. Len(r) = Len(q) - t /\ \A i \in 1..Len(r) : r[i] = q[t + i]
  BY <1>1, <1>3
<1>5. ASSUME NEW k \in 0..Len(r) PROVE With(With(S, q, t), r, k) = With(S, q, t + k)
  <2>1. k \in Nat /\ k <= Len(q) - t
    BY <1>1, <1>4
  <2>2. {r[i] : i \in 1..k} = {q[j] : j \in t + 1..t + k}
    <3>1. ASSUME NEW i \in 1..k PROVE r[i] \in {q[j] : j \in t + 1..t + k}
      <4>1. r[i] = q[t + i] /\ t + i \in t + 1..t + k
        BY <1>1, <1>4, <2>1
      <4>2. QED
        BY <4>1
    <3>2. ASSUME NEW j \in t + 1..t + k PROVE q[j] \in {r[i] : i \in 1..k}
      <4>1. j - t \in 1..k /\ t + (j - t) = j
        BY <1>1, <2>1
      <4>2. r[j - t] = q[j]
        BY <1>1, <1>4, <2>1, <4>1
      <4>3. QED
        BY <4>1, <4>2
    <3>3. QED
      BY <3>1, <3>2
  <2>3. 1..t + k = 1..t \cup t + 1..t + k
    BY <1>1, <2>1
  <2>4. {q[i] : i \in 1..t + k} = {q[i] : i \in 1..t} \cup {q[j] : j \in t + 1..t + k}
    BY <2>3
  <2>5. QED
    BY <2>2, <2>4 DEF With
<1>6. QED
  BY <1>3, <1>4, <1>5 DEF r

\* A queue that holds every block up to the chain's first head is at least
\* that long.
LEMMA LongEnough ==
  ASSUME NEW q \in Seq(Block), IsInterval({q[i] : i \in 1..Len(q)}),
         1 \in {q[i] : i \in 1..Len(q)},
         NEW n \in {q[i] : i \in 1..Len(q)}, n >= FirstHead
  PROVE  FirstHead <= Len(q)
<1> DEFINE L == Len(q)
           T == {q[i] : i \in 1..L}
           f == [i \in 1..L |-> q[i]]
<1>1. L \in Nat
  OBVIOUS
<1>2. 1..n \subseteq T
  BY DEF IsInterval
<1>3. 1..FirstHead \subseteq T
  <2>1. n \in Block
    OBVIOUS
  <2>2. 1..FirstHead \subseteq 1..n
    BY <2>1, BlockFacts
  <2>3. QED
    BY <1>2, <2>2
<1>4. f \in Surjection(1..L, T)
  BY DEF Surjection
<1> HIDE DEF f, T, L
<1>5. IsFiniteSet(1..L) /\ Cardinality(1..L) = L
  <2>1. 1 \in Int /\ L \in Int
    BY <1>1
  <2>2. IsFiniteSet(1..L) /\ Cardinality(1..L) = IF 1 > L THEN 0 ELSE L - 1 + 1
    BY <2>1, FS_Interval, Zenon
  <2>3. QED
    BY <1>1, <2>2
<1>6. IsFiniteSet(T) /\ Cardinality(T) <= L
  BY <1>4, <1>5, FS_Surjection
<1>7. Cardinality(1..FirstHead) = FirstHead
  BY BlockFacts, FS_Interval
<1>8. IsFiniteSet(1..FirstHead) /\ Cardinality(1..FirstHead) <= Cardinality(T)
  BY <1>3, <1>6, FS_Subset
<1>9. Cardinality(T) \in Nat
  BY <1>6, FS_CardinalityType
<1>10. FirstHead <= L
  BY <1>1, <1>6, <1>7, <1>8, <1>9, BlockFacts
<1>11. QED
  BY <1>10 DEF L

-----------------------------------------------------------------------------
(***************************************************************************)
(* Sending and committing.                                                 *)
(***************************************************************************)

LEMMA AllSentFacts ==
  ASSUME TypeOK, QueueOK
  PROVE  /\ AllSent = With(stored, pending, Len(pending))
         /\ AllSent \in SUBSET Block
         /\ IsInterval(AllSent)
         /\ Tipped(AllSent)
         /\ stored \subseteq AllSent
         /\ stored = With(stored, pending, 0)
         /\ IsInterval(stored) /\ Tipped(stored)
<1>1. AllSent = With(stored, pending, Len(pending))
  BY DEF AllSent, With
<1>2. Len(pending) \in Nat /\ pending \in Seq(Block) /\ stored \in SUBSET Block
  BY DEF TypeOK
<1>3. stored = With(stored, pending, 0)
  BY WithNone
<1>4. IsInterval(stored) /\ Tipped(stored)
  <2>1. 0 \in 0..Len(pending)
    BY <1>2
  <2>2. QED
    BY <1>3, <2>1 DEF QueueOK
<1>5. Len(pending) \in 0..Len(pending)
  BY <1>2
<1>6. IsInterval(AllSent) /\ Tipped(AllSent) /\ AllSent \in SUBSET Block
  BY <1>1, <1>2, <1>5, WithType DEF QueueOK
<1>7. QED
  BY <1>1, <1>3, <1>4, <1>6 DEF AllSent

\* A block next to one that was sent, or the tip when nothing was.
LEMMA SendKeepsQueue ==
  ASSUME TypeOK, QueueOK, Room, NEW n \in Block, pending' = Append(pending, n),
         UNCHANGED <<taken, stored, durable>>,
         \/ AllSent = {} /\ n >= FirstHead
         \/ n - 1 \in AllSent
         \/ n + 1 \in AllSent
  PROVE  /\ QueueOK'
         /\ AllSent' = AllSent \cup {n}
         /\ pending' \in Seq(Block)
         /\ taken' \in 0..Len(pending')
<1>1. /\ pending \in Seq(Block) /\ stored \in SUBSET Block /\ Len(pending) \in Nat
      /\ taken \in 0..Len(pending)
  BY DEF TypeOK
<1>2. /\ pending' \in Seq(Block) /\ Len(pending') = Len(pending) + 1
      /\ \A k \in 0..Len(pending) : With(stored, pending', k) = With(stored, pending, k)
      /\ With(stored, pending', Len(pending) + 1) = With(stored, pending, Len(pending)) \cup {n}
  BY <1>1, WithAppended
<1>3. /\ AllSent = With(stored, pending, Len(pending)) /\ AllSent \in SUBSET Block
      /\ IsInterval(AllSent) /\ Tipped(AllSent)
  BY AllSentFacts
<1>4. IsInterval(AllSent \cup {n})
  BY <1>3, IntervalGrows
<1>5. Tipped(AllSent \cup {n})
  BY <1>3 DEF Tipped
<1>6. AllSent' = With(stored, pending', Len(pending'))
  BY DEF AllSent, With
<1>7. AllSent' = AllSent \cup {n}
  BY <1>2, <1>3, <1>6
<1>8. \A k \in 0..Len(pending') :
        IsInterval(With(stored, pending', k)) /\ Tipped(With(stored, pending', k))
  <2> TAKE k \in 0..Len(pending')
  <2>1. CASE k \in 0..Len(pending)
    BY <1>2, <2>1 DEF QueueOK
  <2>2. CASE k = Len(pending) + 1
    BY <1>2, <1>3, <1>4, <1>5, <2>2
  <2>3. QED
    BY <1>1, <1>2, <2>1, <2>2
<1>9. Len(pending') - taken' <= QueueCap
  BY <1>1, <1>2, PipelineAssumption DEF Room
<1>10. taken' \in 0..Len(pending')
  BY <1>1, <1>2
<1>11. QED
  BY <1>2, <1>7, <1>8, <1>9, <1>10 DEF QueueOK

LEMMA CommitKeepsQueue ==
  ASSUME TypeOK, QueueOK, CommitBatch
  PROVE  /\ QueueOK'
         /\ AllSent' = AllSent
         /\ stored \subseteq stored'
         /\ stored' \in SUBSET Block
         /\ pending' \in Seq(Block)
         /\ taken' \in 0..Len(pending')
<1>1. /\ pending \in Seq(Block) /\ stored \in SUBSET Block /\ Len(pending) \in Nat
      /\ taken \in 0..Len(pending) /\ taken \in Nat
  BY DEF TypeOK
<1>2. /\ pending' = SubSeq(pending, taken + 1, Len(pending)) /\ taken' = 0
      /\ stored' = With(stored, pending, taken) /\ durable' = durable
  BY DEF CommitBatch, With
<1>3. /\ pending' \in Seq(Block) /\ Len(pending') = Len(pending) - taken
      /\ \A k \in 0..Len(pending') : With(stored', pending', k) = With(stored, pending, taken + k)
  BY <1>1, <1>2, WithDropped
<1>4. stored' \in SUBSET Block /\ stored \subseteq stored'
  BY <1>1, <1>2, WithType DEF With
<1>5. Len(pending') \in Nat
  BY <1>3
<1>6. AllSent' = AllSent
  <2>1. AllSent' = With(stored', pending', Len(pending')) /\ AllSent = With(stored, pending, Len(pending))
    BY DEF AllSent, With
  <2>2. With(stored', pending', Len(pending')) = With(stored, pending, taken + Len(pending'))
    BY <1>3, <1>5
  <2>3. taken + Len(pending') = Len(pending)
    BY <1>1, <1>3
  <2>4. QED
    BY <2>1, <2>2, <2>3
<1>7. \A k \in 0..Len(pending') :
        IsInterval(With(stored', pending', k)) /\ Tipped(With(stored', pending', k))
  <2> TAKE k \in 0..Len(pending')
  <2>1. taken + k \in 0..Len(pending)
    BY <1>1, <1>3, <1>5
  <2>2. QED
    BY <1>3, <2>1 DEF QueueOK
<1>8. Len(pending') - taken' <= QueueCap /\ taken' <= MaxBatch
  <2>1. Len(pending) - taken <= QueueCap
    BY DEF QueueOK
  <2>2. Len(pending') - taken' = Len(pending) - taken
    BY <1>1, <1>2, <1>3
  <2>3. 0 <= MaxBatch
    BY PipelineAssumption
  <2>4. QED
    BY <1>2, <2>1, <2>2, <2>3
<1>9. taken' \in 0..Len(pending')
  <2>1. taken' = 0
    BY <1>2
  <2>2. QED
    BY <1>5, <2>1
<1>10. QueueOK'
  BY <1>2, <1>7, <1>8 DEF QueueOK
<1>11. QED
  BY <1>3, <1>4, <1>6, <1>9, <1>10

-----------------------------------------------------------------------------
(***************************************************************************)
(* The invariant is inductive.                                             *)
(***************************************************************************)

LEMMA EmptyFacts ==
  /\ <<>> \in Seq(Block) /\ Len(<<>>) = 0
  /\ \A S \in SUBSET Block : S \cup {<<>>[i] : i \in 1..Len(<<>>)} = S
<1>1. 1..0 = {}
  OBVIOUS
<1>2. Len(<<>>) = 0
  OBVIOUS
<1>3. QED
  BY <1>1, <1>2

\* A process that just started, on whatever run of blocks it finds.
LEMMA FreshStart ==
  ASSUME IsInterval(stored'), Tipped(stored'), IsInterval(durable'), Tipped(durable'),
         stored' \in SUBSET Block, durable' \in SUBSET Block,
         pending' = <<>>, taken' = 0, forward' = NewForward, backfill' = NewBackfill,
         heads' = {}, tipLag' = 0, chainHead' = 0, restarts' \in Nat,
         chain' \in FirstHead..MaxHead
  PROVE  IInv'
<1>1. pending' \in Seq(Block) /\ Len(pending') = 0
  BY EmptyFacts
<1>2. AllSent' = stored'
  BY EmptyFacts DEF AllSent
<1>3. TypeOK'
  BY <1>1, BlockFacts DEF TypeOK, NewForward, NewBackfill
<1>4. QueueOK'
  <2>1. \A k \in 0..Len(pending') : With(stored', pending', k) = stored'
    BY <1>1, WithNone
  <2>2. QED
    BY <1>1, <2>1, PipelineAssumption DEF QueueOK
<1>5. ForwardOK' /\ BackfillOK'
  BY <1>2 DEF ForwardOK, BackfillOK, NewForward, NewBackfill
<1>6. QED
  BY <1>3, <1>4, <1>5 DEF IInv

LEMMA InitInv == Init => IInv
<1> SUFFICES ASSUME Init PROVE IInv
  OBVIOUS
<1>1. pending \in Seq(Block) /\ Len(pending) = 0
  BY EmptyFacts DEF Init
<1>2. AllSent = {}
  BY EmptyFacts DEF AllSent, Init
<1>3. TypeOK
  BY <1>1, BlockFacts DEF TypeOK, Init, NewForward, NewBackfill
<1>4. QueueOK
  <2>1. \A k \in 0..Len(pending) : With(stored, pending, k) = {}
    BY <1>1, WithNone DEF Init
  <2>2. QED
    BY <1>1, <2>1, PipelineAssumption DEF QueueOK, Init, IsInterval, Tipped
<1>5. ForwardOK /\ BackfillOK
  BY <1>2 DEF ForwardOK, BackfillOK, NewForward, NewBackfill, Init
<1>6. QED
  BY <1>3, <1>4, <1>5 DEF IInv

\* What the queue and the table are is all the invariant says of them.
LEMMA SameQueue ==
  ASSUME QueueOK, UNCHANGED writer
  PROVE  QueueOK' /\ AllSent' = AllSent
BY DEF QueueOK, AllSent, writer

LEMMA ForwardStep ==
  ASSUME IInv,
         \/ StartForward \/ ReceiveHeads \/ SeedFound \/ SeedTimeout \/ CatchUp \/ CaughtUp
         \/ \E answer \in SUBSET ((forward.sent + 1)..forward.upTo) : ForwardFetched(answer)
  PROVE  IInv'
<1>0. /\ TypeOK /\ QueueOK /\ ForwardOK /\ BackfillOK
      /\ stored \subseteq AllSent /\ AllSent \subseteq Block
  BY AllSentFacts DEF IInv
<1>1. UNCHANGED <<chain, backfill, writer, restarts>>
  BY DEF StartForward, ReceiveHeads, SeedFound, SeedTimeout, CatchUp, CaughtUp, ForwardFetched
<1>2. QueueOK' /\ AllSent' = AllSent /\ stored' = stored
  BY <1>0, <1>1, SameQueue DEF writer
<1>3. BackfillOK'
  BY <1>0, <1>1, <1>2 DEF BackfillOK
<1>4. /\ forward \in [pc : {"start", "recv", "seed", "loop", "fetch", "send"},
                      sent : Block \cup {None}, head : 0..MaxHead, upTo : 0..MaxHead,
                      bundles : SUBSET Block]
      /\ chain \in FirstHead..MaxHead /\ heads \in SUBSET (FirstHead..chain)
      /\ tipLag \in 0..MaxHead /\ chainHead \in 0..MaxHead
  BY <1>0 DEF TypeOK
<1> DEFINE Typed == /\ forward' \in [pc : {"start", "recv", "seed", "loop", "fetch", "send"},
                                     sent : Block \cup {None}, head : 0..MaxHead,
                                     upTo : 0..MaxHead, bundles : SUBSET Block]
                    /\ heads' \in SUBSET (FirstHead..chain)
                    /\ tipLag' \in 0..MaxHead /\ chainHead' \in 0..MaxHead
<1>5. SUFFICES Typed /\ ForwardOK'
  BY <1>0, <1>1, <1>2, <1>3 DEF IInv, TypeOK, writer
<1>6. {} \in SUBSET (FirstHead..chain) /\ \A h \in FirstHead..chain : h \in 0..MaxHead
  BY <1>4, BlockFacts
<1>7. CASE StartForward
  <2> PICK n \in Block \cup {None} :
        Latest(n) /\ forward' = [forward EXCEPT !.pc = "recv", !.sent = n]
    BY <1>7 DEF StartForward
  <2>1. n # None => n \in stored
    BY DEF Latest, IsHighest
  <2>2. Typed
    BY <1>4, <1>7 DEF StartForward
  <2>3. ForwardOK'
    BY <1>0, <1>2, <1>4, <1>7, <2>1 DEF ForwardOK, StartForward
  <2>4. QED
    BY <2>2, <2>3
<1>8. CASE ReceiveHeads
  <2> PICK head \in heads :
        /\ chainHead' = head
        /\ forward' = [forward EXCEPT !.pc = IF forward.sent = None THEN "seed" ELSE "loop",
                                      !.head = head]
    BY <1>8 DEF ReceiveHeads
  <2>1. Typed
    BY <1>4, <1>6, <1>8 DEF ReceiveHeads
  <2>2. ForwardOK'
    BY <1>0, <1>2, <1>4, <1>8 DEF ForwardOK, ReceiveHeads
  <2>3. QED
    BY <2>1, <2>2
<1>9. CASE SeedFound
  <2> PICK n \in stored :
        forward' = [forward EXCEPT !.pc = IF n >= forward.head THEN "recv" ELSE "loop",
                                   !.sent = n]
    BY <1>9 DEF SeedFound
  <2>1. n \in Block /\ n # None /\ n \in AllSent
    BY <1>0, BlockFacts DEF None
  <2>2. Typed
    BY <1>4, <1>9, <2>1 DEF SeedFound
  <2>3. ForwardOK'
    BY <1>0, <1>2, <1>4, <1>9, <2>1 DEF ForwardOK, SeedFound
  <2>4. QED
    BY <2>2, <2>3
<1>10. CASE SeedTimeout
  <2>1. Typed
    BY <1>4, <1>10 DEF SeedTimeout
  <2>2. ForwardOK'
    BY <1>0, <1>2, <1>4, <1>10 DEF ForwardOK, SeedTimeout
  <2>3. QED
    BY <2>1, <2>2
<1>11. CASE CatchUp
  <2> PICK head \in heads \cup {forward.head}, n \in Block :
        /\ IsHighest(head, heads \cup {forward.head})
        /\ chainHead' = head
        /\ tipLag' = head - forward.sent
        /\ forward' = [forward EXCEPT !.pc = "fetch", !.head = head, !.upTo = n]
    BY <1>11 DEF CatchUp
  <2>1. /\ forward.sent < forward.head /\ heads' = {} /\ forward.pc = "loop"
    BY <1>11 DEF CatchUp
  <2>2. head \in 0..MaxHead /\ forward.head <= head /\ n \in 0..MaxHead
    BY <1>4, <1>6, PipelineAssumption DEF IsHighest, Block
  <2>3. forward.sent \in Nat /\ forward.head \in Nat
    BY <1>4, BlockFacts DEF None
  <2>4. tipLag' \in 0..MaxHead
    BY <2>1, <2>2, <2>3, BlockFacts
  <2>5. Typed
    BY <1>4, <1>6, <2>1, <2>2, <2>4
  <2>6. ForwardOK'
    BY <1>0, <1>2, <1>4, <2>1 DEF ForwardOK
  <2>7. QED
    BY <2>5, <2>6
<1>12. CASE CaughtUp
  <2>1. Typed
    BY <1>4, <1>12, BlockFacts DEF CaughtUp
  <2>2. ForwardOK'
    BY <1>0, <1>2, <1>4, <1>12 DEF ForwardOK, CaughtUp
  <2>3. QED
    BY <2>1, <2>2
<1>13. CASE \E answer \in SUBSET ((forward.sent + 1)..forward.upTo) : ForwardFetched(answer)
  <2> PICK answer \in SUBSET ((forward.sent + 1)..forward.upTo) : ForwardFetched(answer)
    BY <1>13
  <2> DEFINE kept == ContiguousFrom(answer, forward.sent + 1)
  <2>1. /\ forward.pc = "fetch" /\ answer \subseteq (forward.sent + 1)..forward.upTo
        /\ forward' = [forward EXCEPT !.pc = IF kept = {} THEN "loop" ELSE "send",
                                      !.upTo = 0, !.bundles = kept]
        /\ UNCHANGED <<heads, tipLag, chainHead>>
    BY DEF ForwardFetched
  <2>2. forward.sent # None /\ forward.sent \in AllSent /\ forward.sent \in Block
    BY <1>0, <1>4, <2>1 DEF ForwardOK
  <2>3. kept \in SUBSET Block
    <3>1. forward.sent \in Nat /\ forward.upTo \in 0..MaxHead
      BY <1>4, <2>2, BlockFacts
    <3>2. answer \subseteq Block
      BY <2>1, <3>1, BlockFacts DEF Block
    <3>3. QED
      BY <3>2 DEF ContiguousFrom
  <2>4. \A n \in kept : n - 1 \in AllSent \cup kept
    <3> SUFFICES ASSUME NEW n \in kept, n - 1 # forward.sent PROVE n - 1 \in kept
      BY <2>2
    <3>1. n \in answer /\ (forward.sent + 1)..n \subseteq answer
      BY DEF ContiguousFrom
    <3>2. n \in Nat /\ forward.sent \in Nat /\ forward.sent + 1 <= n
      BY <2>1, <2>2, <3>1, BlockFacts
    <3>3. n - 1 \in (forward.sent + 1)..n /\ (forward.sent + 1)..(n - 1) \subseteq (forward.sent + 1)..n
      BY <3>2
    <3>4. QED
      BY <3>1, <3>3 DEF ContiguousFrom
  <2> HIDE DEF kept
  <2>5. Typed
    <3>1. /\ (IF kept = {} THEN "loop" ELSE "send")
               \in {"start", "recv", "seed", "loop", "fetch", "send"}
          /\ 0 \in 0..MaxHead
      BY BlockFacts
    <3>2. forward' \in [pc : {"start", "recv", "seed", "loop", "fetch", "send"},
                        sent : Block \cup {None}, head : 0..MaxHead,
                        upTo : 0..MaxHead, bundles : SUBSET Block]
      BY <1>4, <2>1, <2>3, <3>1
    <3>3. QED
      BY <1>4, <2>1, <3>2
  <2>6. ForwardOK'
    BY <1>0, <1>2, <1>4, <2>1, <2>2, <2>4 DEF ForwardOK
  <2>7. QED
    BY <2>5, <2>6
<1>14. QED
  BY <1>7, <1>8, <1>9, <1>10, <1>11, <1>12, <1>13

LEMMA ForwardSendStep == IInv /\ ForwardSend => IInv'
<1> SUFFICES ASSUME IInv, ForwardSend PROVE IInv'
  OBVIOUS
<1>0. /\ TypeOK /\ QueueOK /\ ForwardOK /\ BackfillOK /\ AllSent \subseteq Block
      /\ forward \in [pc : {"start", "recv", "seed", "loop", "fetch", "send"},
                      sent : Block \cup {None}, head : 0..MaxHead, upTo : 0..MaxHead,
                      bundles : SUBSET Block]
  BY AllSentFacts DEF IInv, TypeOK
<1> PICK n \in forward.bundles :
      /\ IsLowest(n, forward.bundles)
      /\ pending' = Append(pending, n)
      /\ forward' = [forward EXCEPT
                       !.bundles = forward.bundles \ {n},
                       !.pc      = IF forward.bundles \ {n} = {} THEN "loop" ELSE "send",
                       !.sent    = IF forward.bundles \ {n} = {} THEN n ELSE @]
  BY DEF ForwardSend
<1>1. /\ forward.pc = "send" /\ Room
      /\ UNCHANGED <<chain, heads, backfill, taken, stored, durable, tipLag, chainHead, restarts>>
  BY DEF ForwardSend
<1>2. n \in Block /\ n \in Nat /\ n # None
  BY <1>0, BlockFacts DEF None
<1>3. n - 1 \in AllSent
  <2>1. n - 1 \notin forward.bundles
    BY <1>0, <1>2, BlockFacts DEF IsLowest
  <2>2. QED
    BY <1>0, <2>1 DEF ForwardOK
<1>4. /\ QueueOK' /\ AllSent' = AllSent \cup {n} /\ pending' \in Seq(Block)
      /\ taken' \in 0..Len(pending')
  BY <1>0, <1>1, <1>2, <1>3, SendKeepsQueue
<1>5. stored # {} /\ forward.sent # None
  BY <1>0, <1>1 DEF ForwardOK
<1> DEFINE rest == forward.bundles \ {n}
           pc == IF rest = {} THEN "loop" ELSE "send"
           sent == IF rest = {} THEN n ELSE forward.sent
<1>6. /\ rest \in SUBSET Block /\ sent \in Block \cup {None}
      /\ pc \in {"start", "recv", "seed", "loop", "fetch", "send"}
  BY <1>0, <1>2
<1>7. forward' = [forward EXCEPT !.bundles = rest, !.pc = pc, !.sent = sent]
  OBVIOUS
<1>8. sent # None /\ sent \in AllSent'
  BY <1>0, <1>2, <1>4, <1>5 DEF ForwardOK
<1>9. rest # {} => pc = "send"
  OBVIOUS
<1>10. \A m \in rest : m - 1 \in AllSent' \cup rest
  BY <1>0, <1>4 DEF ForwardOK
<1> HIDE DEF rest, pc, sent
<1>11. TypeOK'
  BY <1>0, <1>1, <1>4, <1>6, <1>7 DEF TypeOK
<1>12. ForwardOK'
  BY <1>0, <1>1, <1>5, <1>7, <1>8, <1>9, <1>10 DEF ForwardOK
<1>13. BackfillOK'
  <2>1. AllSent # {}
    BY <1>5 DEF AllSent
  <2>2. QED
    BY <1>0, <1>1, <1>4, <1>5, <2>1 DEF BackfillOK
<1>14. QED
  BY <1>4, <1>11, <1>12, <1>13 DEF IInv

LEMMA BackfillStep ==
  ASSUME LongChain, IInv,
         \/ StartBackfill \/ Rest \/ RereadFrontier
         \/ \E top \in Block : \E answer \in SUBSET BackfillRange(top) : BackfillFetched(top, answer)
  PROVE  IInv'
<1>0. /\ TypeOK /\ QueueOK /\ ForwardOK /\ BackfillOK
      /\ stored \subseteq AllSent /\ AllSent \subseteq Block
      /\ IsInterval(AllSent) /\ Tipped(AllSent)
      /\ backfill \in [pc : {"start", "loop", "rest", "send"}, frontier : Block \cup {None},
                       bundles : SUBSET Block]
      /\ chain \in FirstHead..MaxHead
  BY AllSentFacts DEF IInv, TypeOK
<1>1. UNCHANGED <<chain, heads, forward, writer, tipLag, chainHead, restarts>>
  BY DEF StartBackfill, Rest, RereadFrontier, BackfillFetched
<1>2. QueueOK' /\ AllSent' = AllSent /\ stored' = stored
  BY <1>0, <1>1, SameQueue DEF writer
<1>3. ForwardOK'
  BY <1>0, <1>1, <1>2 DEF ForwardOK
<1>4. SUFFICES /\ backfill' \in [pc : {"start", "loop", "rest", "send"}, frontier : Block \cup {None},
                                bundles : SUBSET Block]
               /\ BackfillOK'
  BY <1>0, <1>1, <1>2, <1>3 DEF IInv, TypeOK, writer
<1>5. CASE StartBackfill
  <2> PICK n \in Block \cup {None} :
        MinNumber(n) /\ backfill' = [backfill EXCEPT !.pc = "loop", !.frontier = n]
    BY <1>5 DEF StartBackfill
  <2>1. backfill.pc = "start"
    BY <1>5 DEF StartBackfill
  <2>2. (n # None => n \in AllSent) /\ (n = None => AllSent = {})
    <3>1. CASE stored = {}
      BY <1>0, <2>1, <3>1 DEF MinNumber, BackfillOK
    <3>2. CASE stored # {}
      BY <1>0, <3>2, BlockFacts DEF MinNumber, IsLowest, None
    <3>3. QED
      BY <3>1, <3>2
  <2>3. QED
    BY <1>0, <1>2, <2>1, <2>2 DEF BackfillOK
<1>6. CASE RereadFrontier
  <2> PICK n \in Block \cup {None} :
        MinNumber(n) /\ backfill' = [backfill EXCEPT !.pc = "loop", !.frontier = n]
    BY <1>6 DEF RereadFrontier
  <2>1. backfill.pc = "rest" /\ backfill.frontier = 1
    BY <1>0, <1>6 DEF RereadFrontier, BackfillOK
  <2>2. 1 \in AllSent
    BY <1>0, <2>1 DEF BackfillOK, None
  \* The writer has committed something: the queue cannot hold all of it.
  <2>3. stored # {}
    <3> SUFFICES ASSUME stored = {} PROVE FALSE
      OBVIOUS
    <3>1. AllSent = {pending[i] : i \in 1..Len(pending)}
      BY DEF AllSent
    <3>2. PICK m \in AllSent : m >= FirstHead
      BY <1>0, <2>2 DEF Tipped
    <3>3. pending \in Seq(Block) /\ Len(pending) \in Nat /\ taken \in 0..Len(pending)
      BY <1>0 DEF TypeOK
    <3>4. FirstHead <= Len(pending)
      BY <1>0, <2>2, <3>1, <3>2, <3>3, LongEnough
    <3>5. Len(pending) - taken <= QueueCap /\ taken <= MaxBatch
      BY <1>0 DEF QueueOK
    <3>6. QED
      BY <3>3, <3>4, <3>5, PipelineAssumption DEF LongChain
  <2>4. n # None /\ n \in AllSent
    BY <1>0, <2>3, BlockFacts DEF MinNumber, IsLowest, None
  <2>5. QED
    BY <1>0, <1>2, <2>1, <2>4 DEF BackfillOK
<1>7. CASE \E top \in Block : \E answer \in SUBSET BackfillRange(top) : BackfillFetched(top, answer)
  <2> PICK top \in Block : \E answer \in SUBSET BackfillRange(top) : BackfillFetched(top, answer)
    BY <1>7
  <2> PICK answer \in SUBSET BackfillRange(top) : BackfillFetched(top, answer)
    OBVIOUS
  <2> DEFINE kept == ContiguousDownTo(answer, top)
  <2>1. /\ backfill.pc = "loop" /\ BackfillTop(top)
        /\ answer \subseteq {n \in Block : top - FetchBatch < n /\ n <= top}
        /\ backfill' = [backfill EXCEPT !.pc = "send", !.bundles = kept]
    BY DEF BackfillFetched, BackfillRange
  <2>2. kept \in SUBSET Block /\ \A n \in kept : n <= top
    <3>1. answer \subseteq Block /\ \A n \in answer : n <= top
      BY <2>1
    <3>2. QED
      BY <3>1 DEF ContiguousDownTo
  <2>3. ASSUME NEW n \in kept, n # top PROVE n + 1 \in kept
    <3>1. n \in answer /\ n..top \subseteq answer
      BY DEF ContiguousDownTo
    <3>2. n \in Nat /\ top \in Nat /\ n < top
      <4>1. n \in Block /\ top \in Block /\ n <= top /\ n # top
        BY <2>2, <2>3
      <4>2. QED
        BY <4>1, BlockFacts
    <3>3. n + 1 \in n..top /\ (n + 1)..top \subseteq n..top
      BY <3>2
    <3>4. QED
      BY <3>1, <3>3 DEF ContiguousDownTo
  <2>4. \/ top + 1 \in AllSent
        \/ AllSent = {} /\ top >= FirstHead
    <3>1. CASE backfill.frontier = None
      <4>1. top \in FirstHead..chain
        BY <2>1, <3>1 DEF BackfillTop
      <4>2. AllSent = {}
        BY <1>0, <2>1, <3>1 DEF BackfillOK
      <4>3. QED
        BY <4>1, <4>2, <1>0, BlockFacts
    <3>2. CASE backfill.frontier # None
      <4>1. top = backfill.frontier - 1
        BY <2>1, <3>2 DEF BackfillTop
      <4>2. backfill.frontier \in AllSent /\ backfill.frontier \in Nat
        BY <1>0, <3>2, BlockFacts DEF BackfillOK
      <4>3. QED
        BY <4>1, <4>2
    <3>3. QED
      BY <3>1, <3>2
  <2>5. ASSUME NEW n \in kept
        PROVE  \/ n + 1 \in AllSent \cup kept
               \/ AllSent = {} /\ n >= FirstHead /\ IsHighest(n, kept)
    <3>1. CASE n = top
      BY <2>2, <2>4, <3>1 DEF IsHighest
    <3>2. CASE n # top
      BY <2>3, <3>2
    <3>3. QED
      BY <3>1, <3>2
  <2> HIDE DEF kept
  <2>6. QED
    BY <1>0, <1>2, <2>1, <2>2, <2>5 DEF BackfillOK
<1>8. CASE Rest
  BY <1>0, <1>2, <1>8 DEF Rest, BackfillOK, None
<1>9. QED
  BY <1>5, <1>6, <1>7, <1>8

LEMMA BackfillSendStep == IInv /\ BackfillSend => IInv'
<1> SUFFICES ASSUME IInv, BackfillSend PROVE IInv'
  OBVIOUS
<1>0. /\ TypeOK /\ QueueOK /\ ForwardOK /\ BackfillOK
      /\ AllSent \subseteq Block /\ stored \subseteq AllSent
      /\ backfill \in [pc : {"start", "loop", "rest", "send"}, frontier : Block \cup {None},
                       bundles : SUBSET Block]
  BY AllSentFacts DEF IInv, TypeOK
<1> PICK n \in backfill.bundles :
      /\ IsHighest(n, backfill.bundles)
      /\ pending' = Append(pending, n)
      /\ backfill' = [backfill EXCEPT
                        !.bundles  = backfill.bundles \ {n},
                        !.pc       = IF backfill.bundles \ {n} = {} THEN "loop" ELSE "send",
                        !.frontier = IF backfill.bundles \ {n} = {} THEN n ELSE @]
  BY DEF BackfillSend
<1>1. /\ backfill.pc = "send" /\ Room
      /\ UNCHANGED <<chain, heads, forward, taken, stored, durable, tipLag, chainHead, restarts>>
  BY DEF BackfillSend
<1>2. n \in Block /\ n \in Nat /\ n # None
  BY <1>0, BlockFacts DEF None
<1>3. n + 1 \in AllSent \/ (AllSent = {} /\ n >= FirstHead)
  <2>1. n + 1 \notin backfill.bundles
    BY <1>0, <1>2, BlockFacts DEF IsHighest
  <2>2. QED
    BY <1>0, <2>1 DEF BackfillOK
<1>4. /\ QueueOK' /\ AllSent' = AllSent \cup {n} /\ pending' \in Seq(Block)
      /\ taken' \in 0..Len(pending')
  BY <1>0, <1>1, <1>2, <1>3, SendKeepsQueue
<1> DEFINE rest == backfill.bundles \ {n}
           pc == IF rest = {} THEN "loop" ELSE "send"
           frontier == IF rest = {} THEN n ELSE backfill.frontier
<1>5. /\ rest \in SUBSET Block /\ frontier \in Block \cup {None}
      /\ pc \in {"start", "loop", "send"}
  BY <1>0, <1>2
<1>6. backfill' = [backfill EXCEPT !.bundles = rest, !.pc = pc, !.frontier = frontier]
  OBVIOUS
<1>7. frontier # None => frontier \in AllSent'
  BY <1>0, <1>4 DEF BackfillOK
<1>8. pc = "loop" => frontier # None
  BY <1>2
<1>9. (rest # {} => pc = "send") /\ pc # "start"
  OBVIOUS
<1>10. \A m \in rest : m + 1 \in AllSent' \cup rest
  <2> TAKE m \in rest
  <2>1. m # n /\ m \in backfill.bundles /\ ~ IsHighest(m, backfill.bundles)
    BY <1>0, BlockFacts DEF IsHighest
  <2>2. m + 1 \in AllSent \cup backfill.bundles
    BY <1>0, <2>1 DEF BackfillOK
  <2>3. QED
    BY <1>4, <2>2
<1> HIDE DEF rest, pc, frontier
<1>11. TypeOK'
  BY <1>0, <1>1, <1>4, <1>5, <1>6 DEF TypeOK
<1>12. BackfillOK'
  <2>1. backfill'.pc = pc /\ backfill'.frontier = frontier /\ backfill'.bundles = rest
    BY <1>0, <1>6
  <2>2. pc # "start" /\ (rest # {} => pc = "send")
    BY <1>9
  <2>3. QED
    BY <1>7, <1>8, <1>10, <2>1, <2>2 DEF BackfillOK
<1>13. ForwardOK'
  BY <1>0, <1>1, <1>4 DEF ForwardOK
<1>14. QED
  BY <1>4, <1>11, <1>12, <1>13 DEF IInv

\* One case per action.
LEMMA StepInv == LongChain /\ IInv /\ [Next]_vars => IInv'
<1> SUFFICES ASSUME LongChain, IInv, [Next]_vars PROVE IInv'
  OBVIOUS
<1>0. /\ TypeOK /\ QueueOK /\ ForwardOK /\ BackfillOK
      /\ stored \subseteq AllSent /\ IsInterval(stored) /\ Tipped(stored)
  BY AllSentFacts DEF IInv
<1>1. CASE \/ StartForward \/ ReceiveHeads \/ SeedFound \/ SeedTimeout \/ CatchUp \/ CaughtUp
           \/ \E answer \in SUBSET ((forward.sent + 1)..forward.upTo) : ForwardFetched(answer)
  BY <1>1, ForwardStep
<1>2. CASE ForwardSend
  BY <1>2, ForwardSendStep
<1>3. CASE \/ StartBackfill \/ Rest \/ RereadFrontier
           \/ \E top \in Block : \E answer \in SUBSET BackfillRange(top) : BackfillFetched(top, answer)
  BY <1>3, BackfillStep
<1>4. CASE BackfillSend
  BY <1>4, BackfillSendStep
<1>5. CASE Grow
  <2>1. UNCHANGED <<heads, forward, backfill, pending, taken, stored, durable,
                    tipLag, chainHead, restarts>>
        /\ chain' = chain + 1 /\ chain < MaxHead
    BY <1>5 DEF Grow, writer
  <2>2. chain' \in FirstHead..MaxHead /\ heads' \in SUBSET (FirstHead..chain')
    BY <1>0, <2>1, BlockFacts DEF TypeOK
  <2>3. TypeOK'
    BY <1>0, <2>1, <2>2 DEF TypeOK
  <2>4. QED
    <3>1. QueueOK' /\ AllSent' = AllSent
      BY <1>0, <2>1 DEF QueueOK, AllSent
    <3>2. ForwardOK' /\ BackfillOK'
      BY <1>0, <2>1, <3>1 DEF ForwardOK, BackfillOK
    <3>3. QED
      BY <2>3, <3>1, <3>2 DEF IInv
<1>6. CASE \E head \in FirstHead..chain : Announce(head)
  <2>1. UNCHANGED <<chain, forward, backfill, pending, taken, stored, durable,
                    tipLag, chainHead, restarts>>
        /\ heads' \in SUBSET (FirstHead..chain)
    BY <1>0, <1>6 DEF Announce, writer, TypeOK
  <2>2. TypeOK'
    BY <1>0, <2>1 DEF TypeOK
  <2>3. QED
    <3>1. QueueOK' /\ AllSent' = AllSent
      BY <1>0, <2>1 DEF QueueOK, AllSent
    <3>2. ForwardOK' /\ BackfillOK'
      BY <1>0, <2>1, <3>1 DEF ForwardOK, BackfillOK
    <3>3. QED
      BY <2>2, <3>1, <3>2 DEF IInv
<1>7. CASE TakeBatch
  <2>1. UNCHANGED <<chain, heads, forward, backfill, pending, stored, durable,
                    tipLag, chainHead, restarts>>
        /\ taken = 0 /\ pending # <<>>
        /\ taken' = IF Len(pending) < MaxBatch THEN Len(pending) ELSE MaxBatch
    BY <1>7 DEF TakeBatch
  <2>2. Len(pending) \in Nat /\ Len(pending) - taken <= QueueCap
    BY <1>0 DEF TypeOK, QueueOK
  <2>3. taken' \in 0..Len(pending) /\ taken' <= MaxBatch /\ Len(pending) - taken' <= QueueCap
    BY <2>1, <2>2, PipelineAssumption
  <2>4. TypeOK'
    BY <1>0, <2>1, <2>3 DEF TypeOK
  <2>5. QueueOK'
    BY <1>0, <2>1, <2>3 DEF QueueOK
  <2>6. QED
    <3>1. AllSent' = AllSent
      BY <2>1 DEF AllSent
    <3>2. ForwardOK' /\ BackfillOK'
      BY <1>0, <2>1, <3>1 DEF ForwardOK, BackfillOK
    <3>3. QED
      BY <2>4, <2>5, <3>2 DEF IInv
<1>8. CASE CommitBatch
  <2>1. UNCHANGED <<chain, heads, forward, backfill, durable, tipLag, chainHead, restarts>>
    BY <1>8 DEF CommitBatch
  <2>2. /\ QueueOK' /\ AllSent' = AllSent /\ stored \subseteq stored'
        /\ stored' \in SUBSET Block /\ pending' \in Seq(Block) /\ taken' \in 0..Len(pending')
    BY <1>0, <1>8, CommitKeepsQueue
  <2>3. TypeOK'
    BY <1>0, <2>1, <2>2 DEF TypeOK
  <2>4. ForwardOK' /\ BackfillOK'
    BY <1>0, <2>1, <2>2 DEF ForwardOK, BackfillOK
  <2>5. QED
    BY <2>2, <2>3, <2>4 DEF IInv
<1>9. CASE Checkpoint
  <2>1. UNCHANGED <<chain, heads, forward, backfill, pending, taken, stored,
                    tipLag, chainHead, restarts>> /\ durable' = stored
    BY <1>9 DEF Checkpoint
  <2>2. TypeOK' /\ QueueOK'
    BY <1>0, <2>1 DEF TypeOK, QueueOK
  <2>3. QED
    <3>1. AllSent' = AllSent
      BY <2>1 DEF AllSent
    <3>2. ForwardOK' /\ BackfillOK'
      BY <1>0, <2>1, <3>1 DEF ForwardOK, BackfillOK
    <3>3. QED
      BY <2>2, <3>2 DEF IInv
<1>10. CASE \E left \in {stored, durable} : Restart(left)
  <2>1. /\ pending' = <<>> /\ taken' = 0 /\ forward' = NewForward /\ backfill' = NewBackfill
        /\ heads' = {} /\ tipLag' = 0 /\ chainHead' = 0 /\ restarts' = restarts + 1
        /\ chain' = chain /\ durable' = durable /\ stored' \in {stored, durable}
    BY <1>10 DEF Restart
  <2>2. IsInterval(durable) /\ Tipped(durable)
    BY <1>0 DEF QueueOK
  <2>3. IsInterval(stored') /\ Tipped(stored') /\ IsInterval(durable') /\ Tipped(durable')
    BY <1>0, <2>1, <2>2
  <2>4. /\ stored' \in SUBSET Block /\ durable' \in SUBSET Block
        /\ restarts' \in Nat /\ chain' \in FirstHead..MaxHead
    BY <1>0, <2>1 DEF TypeOK
  <2>5. QED
    BY <2>1, <2>3, <2>4, FreshStart
<1>11. CASE UNCHANGED vars
  <2>1. TypeOK' /\ UNCHANGED writer /\ UNCHANGED <<forward, backfill>>
    BY <1>0, <1>11 DEF vars, writer, TypeOK
  <2>2. QueueOK' /\ AllSent' = AllSent /\ stored' = stored
    BY <1>0, <2>1, SameQueue DEF writer
  <2>3. QED
    BY <1>0, <2>1, <2>2 DEF IInv, ForwardOK, BackfillOK
<1>12. QED
  BY <1>1, <1>2, <1>3, <1>4, <1>5, <1>6, <1>7, <1>8, <1>9, <1>10, <1>11 DEF Next

LEMMA Invariance ==
  ASSUME LongChain
  PROVE  Spec => []IInv
<1>1. IInv /\ [Next]_vars => IInv'
  BY StepInv
<1>2. QED
  BY <1>1, InitInv, PTL DEF Spec

\* What the invariant says of the table after a step.
LEMMA InvariantLater ==
  ASSUME IInv'
  PROVE  IsInterval(stored') /\ stored' \in SUBSET Block
<1>1. stored' \in SUBSET Block /\ Len(pending') \in Nat
  BY DEF IInv, TypeOK
<1>2. 0 \in 0..Len(pending') /\ With(stored', pending', 0) = stored'
  BY <1>1, WithNone
<1>3. QED
  BY <1>1, <1>2 DEF IInv, QueueOK

-----------------------------------------------------------------------------
(***************************************************************************)
(* What the pipeline keeps true of a long chain.                           *)
(***************************************************************************)

\* The loops' positions, the channel and the tables keep their types: a batch
\* is never longer than what was sent, a head never beyond the chain.
THEOREM TypeCorrect ==
  ASSUME LongChain
  PROVE  Spec => []TypeOK
<1>1. IInv => TypeOK
  BY DEF IInv
<1>2. QED
  BY <1>1, Invariance, PTL

\* Every commit, and whatever a crash or a power loss leaves of it, is one run
\* of blocks (contiguous_from, contiguous_down_to, write_loop).
THEOREM NoHoleIsLeft ==
  ASSUME LongChain
  PROVE  Spec => []NoHoles
<1>1. IInv => NoHoles
  BY AllSentFacts DEF IInv, NoHoles, QueueOK
<1>2. QED
  BY <1>1, Invariance, PTL

\* What lies between the backfill's frontier and the forward loop's position
\* is on record or on its way to the writer.
THEOREM NothingIsSkipped ==
  ASSUME LongChain
  PROVE  Spec => []NothingSkipped
<1>1. ASSUME IInv PROVE NothingSkipped
  <2>1. IsInterval(AllSent)
    BY <1>1, AllSentFacts DEF IInv
  <2>2. QED
    BY <1>1, <2>1 DEF IInv, ForwardOK, BackfillOK, NothingSkipped, IsInterval
<1>2. QED
  BY <1>1, Invariance, PTL

\* A table that is not empty holds a head the node announced, so the forward
\* loop starts at the tip and never in the middle of the history.
THEOREM TipIsFirst ==
  ASSUME LongChain
  PROVE  Spec => []TipFirst
<1>1. IInv => TipFirst
  BY AllSentFacts DEF IInv, TipFirst, Tipped
<1>2. QED
  BY <1>1, Invariance, PTL

\* The pipeline implements the index of BlockIndex: a commit is a commit, a
\* checkpoint secures, a power loss loses, and everything else is a stutter.
THEOREM ImplementsAnIndex ==
  ASSUME LongChain
  PROVE  Spec => IsAnIndex
<1>1. Init => Index!Init
  BY DEF Init, Index!Init
<1>2. ASSUME IInv, IInv', [Next]_vars PROVE [Index!Next]_<<stored, durable>>
  <2>1. IsInterval(stored') /\ stored' \in SUBSET Block
    BY <1>2, InvariantLater
  <2>2. CASE CommitBatch
    <3>1. stored \subseteq stored' /\ durable' = durable
      BY <2>2 DEF CommitBatch
    <3>2. QED
      BY <2>1, <3>1 DEF Index!Next, Index!Commit, Index!Run, IsInterval
  <2>3. CASE Checkpoint
    BY <2>3 DEF Checkpoint, Index!Next, Index!Secure
  <2>4. CASE \E left \in {stored, durable} : Restart(left)
    BY <2>4 DEF Restart, Index!Next, Index!Lose
  <2>5. CASE UNCHANGED <<stored, durable>>
    BY <2>5
  <2>6. QED
    BY <1>2, <2>2, <2>3, <2>4, <2>5
    DEF Next, vars, writer, Grow, Announce, StartForward, ReceiveHeads, SeedFound,
        SeedTimeout, CatchUp, ForwardFetched, ForwardSend, CaughtUp, StartBackfill,
        Rest, RereadFrontier, BackfillFetched, BackfillSend, TakeBatch
<1>3. QED
  BY <1>1, <1>2, Invariance, PTL DEF Spec, IsAnIndex, Index!Spec

=============================================================================
