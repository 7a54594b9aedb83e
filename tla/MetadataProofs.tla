--------------------------- MODULE MetadataProofs ---------------------------
(***************************************************************************)
(* Proofs about Metadata: its types; that a token the process no longer    *)
(* asks for has a row, or one on its way, or one that was cut off; and     *)
(* that no token of an index that is complete is left without its row.     *)
(* And about BatchCall, the request behind a row: what is stored is the    *)
(* answer to its own call.                                                 *)
(***************************************************************************)
EXTENDS Metadata, BatchCall, TLAPS

\* A request asks only for tokens of the blocks it got, at a head there was.
RequestOK ==
  \A k \in tasks : k.pc = "ask" =>
    /\ k.wanted \subseteq UNION {Mentions[b] : b \in k.nums}
    /\ k.asked \in Row

RepairOK == repair.pc = "ask" => repair.asked \in Row

\* A loop that asks for a range asks for blocks of the chain.
RangeOK == \A l \in Loop : loops[l].pc = "fetch" => loops[l].next >= 1

IInv == TypeOK /\ RequestOK /\ RepairOK /\ RangeOK /\ KnownIsCarried

-----------------------------------------------------------------------------
(***************************************************************************)
(* Lemmas.                                                                 *)
(***************************************************************************)
LEMMA RowFacts ==
  /\ Block \subseteq Nat \ {0} /\ Row \subseteq 0..MaxHead /\ MaxHead \in Nat
  /\ FirstHead..MaxHead \subseteq Row
  /\ Mentions \in [Block -> SUBSET Token]
BY MetadataAssumption DEF Block, Row

\* A loop that moves leaves the other as it was.
LEMMA LoopMoves ==
  ASSUME loops \in [Loop -> LoopState], NEW l \in Loop, NEW state \in LoopState,
         loops' = [loops EXCEPT ![l] = state]
  PROVE  /\ loops' \in [Loop -> LoopState]
         /\ loops'[l] = state
         /\ \A m \in Loop \ {l} : loops'[m] = loops[m]
OBVIOUS

\* A bundle carries the rows fetched for the tokens its block mentions.
LEMMA BundleOf ==
  ASSUME NEW b \in Block, NEW S \in SUBSET Token, NEW fetched \in [S -> Row]
  PROVE  /\ Bundle(b, fetched) \in Bundles
         /\ Bundle(b, fetched).block = b
         /\ DOMAIN Bundle(b, fetched).rows = Mentions[b] \cap S
<1> DEFINE D == Mentions[b] \cap DOMAIN fetched
           F == [t \in D |-> fetched[t]]
<1>1. D \in SUBSET Mentions[b] /\ F \in [D -> Row] /\ DOMAIN F = Mentions[b] \cap S
  OBVIOUS
<1>2. Bundle(b, fetched) = [block |-> b, rows |-> F]
  BY DEF Bundle
<1>3. F \in UNION {[T -> Row] : T \in SUBSET Mentions[b]}
  BY <1>1
<1> HIDE DEF F, D
<1>4. QED
  BY <1>1, <1>2, <1>3 DEF Bundles

\* What a bundle of the right shape holds.
LEMMA BundleFacts ==
  ASSUME NEW x \in Bundles
  PROVE  /\ x.block \in Block
         /\ DOMAIN x.rows \in SUBSET Token
         /\ \A t \in DOMAIN x.rows : x.rows[t] \in Row
<1>1. PICK b \in Block : x \in [block : {b}, rows : UNION {[S -> Row] : S \in SUBSET Mentions[b]}]
  BY DEF Bundles
<1>2. PICK S \in SUBSET Mentions[b] : x.rows \in [S -> Row]
  BY <1>1
<1>3. QED
  BY <1>1, <1>2, RowFacts

LEMMA Empty == NoRows \in [{} -> Row] /\ DOMAIN NoRows = {}
BY DEF NoRows

\* A task that finishes hands its loop a bundle for each block it got, and
\* with them the rows of every token they mention that was fetched.
LEMMA FinishStep ==
  ASSUME TypeOK, RequestOK, RangeOK,
         NEW task \in tasks, NEW nums \in SUBSET Block,
         NEW S \in SUBSET Token, NEW fetched \in [S -> Row],
         Finish(task, nums, fetched), UNCHANGED queue
  PROVE  /\ loops' \in [Loop -> LoopState]
         /\ tasks' \in SUBSET Request /\ RequestOK' /\ RangeOK'
         /\ Carried \subseteq Carried'
         /\ S \cap UNION {Mentions[b] : b \in nums} \subseteq Carried'
<1> DEFINE new == {Bundle(b, fetched) : b \in nums}
           l == task.loop
<1>1. /\ tasks' = tasks \ {task} /\ l \in Loop
      /\ loops' = [loops EXCEPT ![l].out = @ \cup new]
  BY DEF Finish, TypeOK, Request
<1>2. new \in SUBSET Bundles
  BY BundleOf
<1> HIDE DEF new, l
<1>3. loops' \in [Loop -> LoopState]
  <2>1. loops \in [Loop -> LoopState]
    BY DEF TypeOK
  <2>2. [loops[l] EXCEPT !.out = @ \cup new] \in LoopState
    BY <1>1, <1>2, <2>1 DEF LoopState
  <2>3. QED
    BY <1>1, <2>1, <2>2
<1>4. /\ \A m \in Loop : loops[m].out \subseteq loops'[m].out
      /\ new \subseteq loops'[l].out
      /\ \A m \in Loop : loops'[m].pc = loops[m].pc /\ loops'[m].next = loops[m].next
  BY <1>1 DEF TypeOK
<1>5. tasks' \in SUBSET Request /\ RequestOK' /\ RangeOK'
  BY <1>1, <1>4 DEF TypeOK, RequestOK, RangeOK
<1>6. Carried \subseteq Carried'
  BY <1>4 DEF Carried, RowsOf
<1>7. ASSUME NEW t \in S, NEW b \in nums, t \in Mentions[b]
      PROVE  t \in Carried'
  <2>1. Bundle(b, fetched) \in loops'[l].out
    BY <1>4 DEF new
  <2>2. t \in DOMAIN Bundle(b, fetched).rows
    BY <1>7, BundleOf
  <2>3. QED
    BY <1>1, <2>1, <2>2 DEF Carried, RowsOf
<1>8. QED
  BY <1>3, <1>5, <1>6, <1>7

-----------------------------------------------------------------------------
(***************************************************************************)
(* The invariant is inductive.                                             *)
(***************************************************************************)
\* A start finds both loops idle, at positions of the chain.
LEMMA StartFacts ==
  ASSUME NEW S, NEW head, NEW started \in Started(S, head)
  PROVE  /\ started \in [Loop -> LoopState]
         /\ \A l \in Loop : started[l].pc = "idle"
<1>1. PICK at \in [Loop -> 0..(MaxHead + 1)] : started = [l \in Loop |-> Idle(at[l])]
  BY DEF Started
<1>2. 0 \in Nat /\ 0 \in 0..MaxHead
  BY MetadataAssumption
<1>3. QED
  BY <1>1, <1>2 DEF Idle, LoopState

LEMMA InitInv == Init => IInv
<1> SUFFICES ASSUME Init PROVE IInv
  OBVIOUS
<1>1. /\ chain \in FirstHead..MaxHead /\ FirstHead + 1 \in 0..(MaxHead + 1)
      /\ FirstHead \in 0..(MaxHead + 1) /\ 0 \in 0..MaxHead
  BY MetadataAssumption DEF Init
<1>2. loops \in [Loop -> LoopState]
      /\ \A l \in Loop : loops[l].pc = "idle"
  BY <1>1, StartFacts DEF Init
<1>3. queue \in Seq(Bundles)
  BY DEF Init
<1>4. repair \in [pc : {"start", "ask", "done"}, stale : SUBSET Token, asked : 0..MaxHead]
      /\ repair.pc = "start"
  BY <1>1 DEF Init, NoRepair
<1>5. rows \in [Token -> 0..MaxHead]
  BY <1>1 DEF Init, NoRow
<1>6. TypeOK
  BY <1>1, <1>2, <1>3, <1>4, <1>5 DEF Init, TypeOK
<1>7. QED
  BY <1>2, <1>4, <1>6 DEF Init, IInv, RequestOK, RepairOK, RangeOK, KnownIsCarried

LEMMA GrowStep == IInv /\ Grow => IInv'
<1> SUFFICES ASSUME IInv, Grow PROVE IInv'
  OBVIOUS
<1>1. chain' \in FirstHead..MaxHead
  BY MetadataAssumption DEF Grow, IInv, TypeOK
<1>2. QED
  BY <1>1 DEF Grow, IInv, TypeOK, RequestOK, RepairOK, RangeOK, KnownIsCarried,
              Described, Carried

LEMMA BeginRangeStep ==
  ASSUME IInv, NEW l \in Loop, BeginRange(l)
  PROVE  IInv'
<1>1. PICK from, to \in NextRange(l) :
        loops' = [loops EXCEPT ![l] = [pc |-> "fetch", at |-> loops[l].at,
                                       next |-> from, to |-> to, out |-> loops[l].out]]
  BY DEF BeginRange
<1> DEFINE begun == [pc |-> "fetch", at |-> loops[l].at,
                     next |-> from, to |-> to, out |-> loops[l].out]
<1>2. from \in Block /\ to \in Block
  BY <1>1 DEF NextRange
<1>3. /\ from \in Nat /\ from >= 1 /\ to \in 0..MaxHead
  BY <1>2, RowFacts DEF Block
<1>4. /\ begun \in LoopState /\ loops \in [Loop -> LoopState]
      /\ begun.out = loops[l].out /\ begun.next >= 1
  BY <1>3 DEF IInv, TypeOK, LoopState
<1> HIDE DEF begun
<1>5. /\ loops' \in [Loop -> LoopState]
      /\ loops'[l] = begun
      /\ \A m \in Loop \ {l} : loops'[m] = loops[m]
  BY <1>1, <1>4, LoopMoves DEF begun
<1>6. \A m \in Loop : /\ loops'[m].out = loops[m].out
                      /\ loops'[m].pc = "fetch" => loops'[m].next >= 1
  BY <1>4, <1>5 DEF IInv, RangeOK
<1>7. /\ (UNION {loops[m].out : m \in Loop})' = UNION {loops[m].out : m \in Loop}
      /\ UNCHANGED <<queue, rows>>
  BY <1>6 DEF BeginRange
<1>8. Carried' = Carried /\ Described' = Described
  BY <1>7 DEF Carried, Described, RowsOf
<1>9. QED
  BY <1>6, <1>8, <1>5
  DEF BeginRange, IInv, TypeOK, RequestOK, RepairOK, RangeOK, KnownIsCarried

LEMMA SpawnStep ==
  ASSUME IInv, NEW l \in Loop, Spawn(l)
  PROVE  IInv'
<1> DEFINE nums == ChunkAt(loops[l].next, loops[l].to, ChunkSize)
           task == [loop |-> l, nums |-> nums, pc |-> "look", wanted |-> {}, asked |-> 0]
<1>1. /\ loops[l].pc = "fetch" /\ loops[l].next >= 1
      /\ loops[l].next \in Nat /\ loops[l].to \in 0..MaxHead
  BY DEF Spawn, IInv, TypeOK, LoopState, RangeOK
<1>2. nums \in SUBSET Block
  BY <1>1, MetadataAssumption DEF ChunkAt, Block
<1> HIDE DEF nums
<1>3. task \in Request /\ task.pc = "look"
  BY <1>2, MetadataAssumption DEF Request
<1>4. /\ tasks' = tasks \cup {task}
      /\ loops' = [loops EXCEPT ![l].next = @ + ChunkSize]
  BY DEF Spawn, nums
<1> HIDE DEF task
<1>5. loops[l].next + ChunkSize \in Nat /\ loops[l].next + ChunkSize >= 1
  BY <1>1, MetadataAssumption
<1>6. loops' \in [Loop -> LoopState]
  <2>1. loops \in [Loop -> LoopState]
    BY DEF IInv, TypeOK
  <2>2. [loops[l] EXCEPT !.next = @ + ChunkSize] \in LoopState
    BY <1>5, <2>1 DEF LoopState
  <2>3. QED
    BY <1>4, <2>1, <2>2
<1>7. \A m \in Loop : /\ loops'[m].out = loops[m].out
                      /\ loops'[m].pc = "fetch" => loops'[m].next >= 1
  BY <1>4, <1>5 DEF IInv, TypeOK, RangeOK
<1>8. Carried' = Carried /\ Described' = Described
  BY <1>7 DEF Spawn, Carried, Described
<1>9. tasks' \in SUBSET Request /\ RequestOK'
  BY <1>3, <1>4 DEF IInv, TypeOK, RequestOK
<1>10. QED
  BY <1>6, <1>7, <1>8, <1>9 DEF Spawn, IInv, TypeOK, RepairOK, RangeOK, KnownIsCarried

LEMMA LookStep ==
  ASSUME IInv, NEW task \in tasks, NEW got \in SUBSET task.nums, Look(task, got)
  PROVE  IInv'
<1> DEFINE wanted == TokensToFetch(got, known)
<1>1. task \in Request /\ got \in SUBSET Block
  BY DEF IInv, TypeOK, Request
<1>2. wanted \subseteq UNION {Mentions[b] : b \in got} /\ wanted \subseteq Token
  BY <1>1, RowFacts, MetadataAssumption DEF TokensToFetch
<1>3. /\ task.pc = "look"
      /\ UNCHANGED <<chain, known, queue, stored, rows, repair, refused, cut, restarts>>
  BY DEF Look
<1>4. CASE wanted = {}
  <2>1. Finish(task, got, NoRows)
    BY <1>4 DEF Look
  <2>2. /\ loops' \in [Loop -> LoopState]
        /\ tasks' \in SUBSET Request /\ RequestOK' /\ RangeOK' /\ Carried \subseteq Carried'
    BY <1>1, <1>3, <2>1, Empty, FinishStep DEF IInv
  <2>3. QED
    BY <1>3, <2>2 DEF IInv, TypeOK, RepairOK, KnownIsCarried, Described
<1>5. CASE wanted # {}
  <2> DEFINE ask == [task EXCEPT !.pc = "ask", !.nums = got, !.wanted = wanted, !.asked = chain]
  <2>1. tasks' = (tasks \ {task}) \cup {ask} /\ loops' = loops
    BY <1>5 DEF Look
  <2>2. chain \in Row /\ chain \in 0..MaxHead
    BY RowFacts DEF IInv, TypeOK
  <2> HIDE DEF wanted
  <2>3. /\ ask \in Request /\ ask.wanted = wanted /\ ask.nums = got /\ ask.asked = chain
    BY <1>1, <1>2, <2>2 DEF Request
  <2> HIDE DEF ask
  <2>4. tasks' \in SUBSET Request /\ RequestOK'
    BY <1>2, <2>1, <2>2, <2>3 DEF IInv, TypeOK, RequestOK
  <2>5. QED
    BY <1>3, <2>1, <2>4 DEF IInv, TypeOK, RepairOK, RangeOK, KnownIsCarried, Described, Carried
<1>6. QED
  BY <1>4, <1>5

LEMMA AnswerStep ==
  ASSUME IInv, NEW task \in tasks,
         NEW fetched \in [task.wanted -> task.asked..chain], Answer(task, fetched)
  PROVE  IInv'
<1>1. /\ task \in Request /\ task.pc = "ask" /\ task.asked \in Row
      /\ task.wanted \subseteq UNION {Mentions[b] : b \in task.nums}
      /\ chain \in FirstHead..MaxHead
  BY DEF Answer, IInv, TypeOK, RequestOK
<1>2. task.asked..chain \subseteq Row
  BY <1>1, MetadataAssumption DEF Row
<1>3. fetched \in [task.wanted -> Row] /\ task.wanted \in SUBSET Token /\ task.nums \in SUBSET Block
  BY <1>1, <1>2 DEF Request
<1>4. /\ Finish(task, task.nums, fetched)
      /\ known' = known \cup task.wanted /\ refused' = refused \ task.wanted
      /\ UNCHANGED <<chain, queue, stored, rows, repair, cut, restarts>>
  BY DEF Answer
<1>5. /\ loops' \in [Loop -> LoopState]
      /\ tasks' \in SUBSET Request /\ RequestOK' /\ RangeOK' /\ Carried \subseteq Carried'
      /\ task.wanted \cap UNION {Mentions[b] : b \in task.nums} \subseteq Carried'
  BY <1>3, <1>4, FinishStep DEF IInv
<1>6. task.wanted \subseteq Carried'
  BY <1>1, <1>5
<1>7. KnownIsCarried'
  BY <1>4, <1>5, <1>6 DEF IInv, KnownIsCarried, Described
<1>8. QED
  BY <1>3, <1>4, <1>5, <1>7 DEF IInv, TypeOK, RepairOK

LEMMA RefuseStep ==
  ASSUME IInv, NEW task \in tasks, Refuse(task)
  PROVE  IInv'
<1>1. task \in Request /\ task.wanted \in SUBSET Token /\ task.nums \in SUBSET Block
  BY DEF IInv, TypeOK, Request
<1>2. /\ Finish(task, task.nums, NoRows) /\ refused' = refused \cup task.wanted
      /\ UNCHANGED <<chain, known, queue, stored, rows, repair, cut, restarts>>
  BY DEF Refuse
<1>3. /\ loops' \in [Loop -> LoopState]
      /\ tasks' \in SUBSET Request /\ RequestOK' /\ RangeOK' /\ Carried \subseteq Carried'
  BY <1>1, <1>2, Empty, FinishStep DEF IInv
<1>4. QED
  BY <1>1, <1>2, <1>3 DEF IInv, TypeOK, RepairOK, KnownIsCarried, Described

LEMMA KeptFacts ==
  ASSUME NEW l \in Loop
  PROVE  Kept(l) \subseteq loops[l].out
BY DEF Kept

LEMMA EndRangeStep ==
  ASSUME IInv, NEW l \in Loop, EndRange(l)
  PROVE  IInv'
<1> DEFINE out == loops[l].out
           kept == Kept(l)
<1>1. kept \subseteq out /\ out \in SUBSET Bundles
  BY KeptFacts DEF IInv, TypeOK, LoopState
<1>2. /\ loops' = [loops EXCEPT ![l] = [pc |-> IF kept = {} THEN "idle" ELSE "send",
                                    at |-> loops[l].at, next |-> 0, to |-> 0, out |-> kept]]
      /\ cut' = cut \cup (RowsOf(out \ kept) \ RowsOf(kept))
      /\ UNCHANGED <<chain, known, tasks, queue, stored, rows, repair, refused, restarts>>
  BY DEF EndRange
<1> HIDE DEF kept
<1> DEFINE ended == [pc |-> IF kept = {} THEN "idle" ELSE "send",
                     at |-> loops[l].at, next |-> 0, to |-> 0, out |-> kept]
<1>3. /\ ended \in LoopState /\ loops \in [Loop -> LoopState]
      /\ ended.out = kept /\ ended.pc # "fetch"
  BY <1>1, MetadataAssumption DEF IInv, TypeOK, LoopState
<1> HIDE DEF ended
<1>4. /\ loops' \in [Loop -> LoopState]
       /\ loops'[l] = ended
       /\ \A m \in Loop \ {l} : loops'[m] = loops[m]
  BY <1>2, <1>3, LoopMoves DEF ended
<1>5. loops' \in [Loop -> LoopState] /\ RangeOK'
  BY <1>3, <1>4 DEF IInv, RangeOK
<1>6. /\ \A m \in Loop \ {l} : loops'[m].out = loops[m].out
      /\ loops'[l].out = kept
  BY <1>3, <1>4
<1>7. RowsOf(out) \subseteq Token
  BY <1>1, BundleFacts DEF RowsOf
<1>8. cut' \in SUBSET Token
  BY <1>1, <1>2, <1>7 DEF IInv, TypeOK, RowsOf
<1>9. Carried \cup cut \subseteq Carried' \cup cut'
  <2> SUFFICES ASSUME NEW t \in Carried \cup cut PROVE t \in Carried' \cup cut'
    OBVIOUS
  <2>1. CASE t \in cut
    BY <1>2, <2>1
  <2>2. CASE \E i \in 1..Len(queue) : t \in DOMAIN queue[i].rows
    BY <1>2, <2>2 DEF Carried
  <2>3. CASE \E m \in Loop : \E x \in loops[m].out : t \in DOMAIN x.rows
    <3> PICK m \in Loop : \E x \in loops[m].out : t \in DOMAIN x.rows
      BY <2>3
    <3> PICK x \in loops[m].out : t \in DOMAIN x.rows
      OBVIOUS
    <3>1. CASE m # l \/ x \in kept
      BY <1>6, <3>1 DEF Carried, RowsOf
    <3>2. CASE m = l /\ x \notin kept
      <4>1. t \in RowsOf(out \ kept)
        BY <3>2 DEF RowsOf
      <4>2. CASE t \in RowsOf(kept)
        BY <1>6, <4>2 DEF Carried, RowsOf
      <4>3. CASE t \notin RowsOf(kept)
        BY <1>2, <4>1, <4>3
      <4>4. QED
        BY <4>2, <4>3
    <3>3. QED
      BY <3>1, <3>2
  <2>4. QED
    BY <2>1, <2>2, <2>3 DEF Carried, RowsOf
<1>10. QED
  BY <1>2, <1>5, <1>8, <1>9
  DEF IInv, TypeOK, RequestOK, RepairOK, KnownIsCarried, Described

LEMMA SendStep ==
  ASSUME IInv, NEW l \in Loop, Send(l)
  PROVE  IInv'
<1>1. PICK x \in loops[l].out :
        /\ queue' = Append(queue, x)
        /\ loops' = [loops EXCEPT ![l] = IF loops[l].out \ {x} = {} THEN Idle(x.block)
                                         ELSE [loops[l] EXCEPT !.out = loops[l].out \ {x}]]
  BY DEF Send
<1>2. /\ loops[l].pc = "send"
      /\ UNCHANGED <<chain, known, tasks, stored, rows, repair, refused, cut, restarts>>
  BY DEF Send
<1>3. /\ x \in Bundles /\ x.block \in 0..(MaxHead + 1) /\ queue \in Seq(Bundles)
      /\ loops[l] \in LoopState
  <2>1. /\ x \in Bundles /\ queue \in Seq(Bundles) /\ loops[l] \in LoopState
    BY DEF IInv, TypeOK, LoopState
  <2>2. x.block \in Block
    BY <2>1, BundleFacts
  <2>3. QED
    BY <2>1, <2>2, MetadataAssumption DEF Block
<1>4. /\ Idle(x.block) \in LoopState
      /\ Idle(x.block).pc = "idle" /\ Idle(x.block).out = {}
  BY <1>3, MetadataAssumption DEF Idle, LoopState
<1> DEFINE after == IF loops[l].out \ {x} = {} THEN Idle(x.block)
                    ELSE [loops[l] EXCEPT !.out = loops[l].out \ {x}]
<1>5. /\ after \in LoopState
      /\ after.pc \in {"idle", "send"} /\ after.out = loops[l].out \ {x}
  <2>1. CASE loops[l].out \ {x} = {}
    BY <1>4, <2>1
  <2>2. CASE loops[l].out \ {x} # {}
    BY <1>2, <1>3, <2>2 DEF LoopState
  <2>3. QED
    BY <2>1, <2>2
<1>6. loops' = [loops EXCEPT ![l] = after]
  BY <1>1
<1> HIDE DEF after
<1>7. /\ loops' \in [Loop -> LoopState]
      /\ RangeOK'
  BY <1>5, <1>6 DEF IInv, TypeOK, RangeOK
<1>8. /\ \A m \in Loop \ {l} : loops'[m].out = loops[m].out
      /\ loops'[l].out = loops[l].out \ {x}
  BY <1>5, <1>6 DEF IInv, TypeOK
<1>9. /\ queue' \in Seq(Bundles) /\ Len(queue') = Len(queue) + 1
      /\ queue'[Len(queue')] = x
      /\ \A i \in 1..Len(queue) : queue'[i] = queue[i]
  BY <1>1, <1>3
<1>10. Carried \subseteq Carried'
  <2> SUFFICES ASSUME NEW t \in Carried PROVE t \in Carried'
    OBVIOUS
  <2>1. Len(queue) \in Nat
    BY <1>3
  <2>2. CASE \E i \in 1..Len(queue) : t \in DOMAIN queue[i].rows
    <3> PICK i \in 1..Len(queue) : t \in DOMAIN queue[i].rows
      BY <2>2
    <3>1. i \in 1..Len(queue') /\ t \in DOMAIN queue'[i].rows
      BY <1>9, <2>1
    <3>2. QED
      BY <3>1 DEF Carried
  <2>3. CASE t \in DOMAIN x.rows
    <3>1. Len(queue') \in 1..Len(queue')
      BY <1>9, <2>1
    <3>2. QED
      BY <1>9, <2>3, <3>1 DEF Carried
  <2>4. CASE \E m \in Loop : \E y \in loops[m].out : y # x /\ t \in DOMAIN y.rows
    <3> PICK m \in Loop : \E y \in loops[m].out : y # x /\ t \in DOMAIN y.rows
      BY <2>4
    <3> PICK y \in loops[m].out : y # x /\ t \in DOMAIN y.rows
      OBVIOUS
    <3>1. y \in loops'[m].out
      BY <1>8
    <3>2. QED
      BY <3>1 DEF Carried, RowsOf
  <2>5. QED
    BY <2>2, <2>3, <2>4 DEF Carried, RowsOf
<1>11. QED
  BY <1>2, <1>7, <1>9, <1>10
  DEF IInv, TypeOK, RequestOK, RepairOK, KnownIsCarried, Described

\* Rows fetched make their tokens described, and take no row away.
LEMMA UpsertFacts ==
  ASSUME rows \in [Token -> 0..MaxHead], NEW fetched,
         DOMAIN fetched \subseteq Token, \A t \in DOMAIN fetched : fetched[t] \in Row,
         rows' = UpsertRows(fetched)
  PROVE  /\ rows' \in [Token -> 0..MaxHead]
         /\ Described \cup DOMAIN fetched \subseteq Described'
BY RowFacts DEF UpsertRows, Described, NoRow, Row

LEMMA WriteStep == IInv /\ Write => IInv'
<1> SUFFICES ASSUME IInv, Write PROVE IInv'
  OBVIOUS
<1> DEFINE x == Head(queue)
<1>1. /\ queue \in Seq(Bundles) /\ queue # <<>>
      /\ stored' = stored \cup {x.block} /\ rows' = UpsertRows(x.rows)
      /\ queue' = Tail(queue)
      /\ UNCHANGED <<chain, known, loops, tasks, repair, refused, cut, restarts>>
  BY DEF Write, IInv, TypeOK
<1>2. /\ x \in Bundles /\ x = queue[1] /\ queue' \in Seq(Bundles)
      /\ Len(queue') = Len(queue) - 1 /\ Len(queue) \in Nat
      /\ \A i \in 1..Len(queue') : queue'[i] = queue[i + 1]
  BY <1>1
<1> HIDE DEF x
<1>3. /\ rows' \in [Token -> 0..MaxHead]
      /\ Described \cup DOMAIN x.rows \subseteq Described'
  BY <1>1, <1>2, BundleFacts, UpsertFacts DEF IInv, TypeOK
<1>4. Carried \subseteq Carried' \cup DOMAIN x.rows
  <2> SUFFICES ASSUME NEW t \in Carried, t \notin DOMAIN x.rows PROVE t \in Carried'
    OBVIOUS
  <2>1. CASE \E i \in 1..Len(queue) : t \in DOMAIN queue[i].rows
    <3> PICK i \in 1..Len(queue) : t \in DOMAIN queue[i].rows
      BY <2>1
    <3>1. i # 1
      BY <1>2
    <3>2. i - 1 \in 1..Len(queue') /\ queue'[i - 1] = queue[i]
      BY <1>2, <3>1
    <3>3. QED
      BY <3>2 DEF Carried
  <2>2. CASE t \in RowsOf(UNION {loops[m].out : m \in Loop})
    BY <1>1, <2>2 DEF Carried, RowsOf
  <2>3. QED
    BY <2>1, <2>2 DEF Carried
<1>5. stored' \in SUBSET Block
  BY <1>1, <1>2, BundleFacts DEF IInv, TypeOK
<1>6. QED
  BY <1>1, <1>2, <1>3, <1>4, <1>5
  DEF IInv, TypeOK, RequestOK, RepairOK, RangeOK, KnownIsCarried

LEMMA RepairStep ==
  ASSUME IInv,
         \/ \E stale \in SUBSET Described : RepairRead(stale)
         \/ \E some \in SUBSET repair.stale :
              \E fetched \in [some -> repair.asked..chain] : RepairSave(fetched)
  PROVE  IInv'
<1>1. Carried' = Carried
  <2>1. loops' = loops /\ queue' = queue
    BY DEF RepairRead, RepairSave
  <2>2. QED
    BY <2>1 DEF Carried
<1>2. chain \in Row /\ chain \in 0..MaxHead /\ 0 \in 0..MaxHead
  BY RowFacts, MetadataAssumption DEF IInv, TypeOK
<1>3. ASSUME NEW stale \in SUBSET Described, RepairRead(stale) PROVE IInv'
  <2>1. /\ repair' = IF stale = {} THEN [NoRepair EXCEPT !.pc = "done"]
                                   ELSE [pc |-> "ask", stale |-> stale, asked |-> chain]
        /\ UNCHANGED <<chain, known, loops, tasks, queue, stored, rows, refused, cut, restarts>>
    BY <1>3 DEF RepairRead
  <2>2. /\ repair' \in [pc : {"start", "ask", "done"}, stale : SUBSET Token, asked : 0..MaxHead]
        /\ RepairOK'
    BY <1>2, <2>1 DEF RepairOK, NoRepair, Described
  <2>3. QED
    BY <1>1, <2>1, <2>2 DEF IInv, TypeOK, RequestOK, RangeOK, KnownIsCarried, Described
<1>4. ASSUME NEW some \in SUBSET repair.stale,
             NEW fetched \in [some -> repair.asked..chain], RepairSave(fetched)
      PROVE  IInv'
  <2>1. /\ repair.pc = "ask" /\ rows' = UpsertRows(fetched)
        /\ repair' = [NoRepair EXCEPT !.pc = "done"]
        /\ UNCHANGED <<chain, known, loops, tasks, queue, stored, refused, cut, restarts>>
    BY <1>4 DEF RepairSave
  <2>2. repair.asked \in Row /\ repair.stale \subseteq Token
    BY <2>1 DEF IInv, TypeOK, RepairOK
  <2>3. repair.asked..chain \subseteq Row
    BY <1>2, <2>2, MetadataAssumption DEF Row
  <2>4. DOMAIN fetched \subseteq Token /\ \A t \in DOMAIN fetched : fetched[t] \in Row
    BY <2>2, <2>3
  <2>5. rows' \in [Token -> 0..MaxHead] /\ Described \subseteq Described'
    BY <2>1, <2>4, UpsertFacts DEF IInv, TypeOK
  <2>6. /\ repair' \in [pc : {"start", "ask", "done"}, stale : SUBSET Token, asked : 0..MaxHead]
        /\ RepairOK'
    BY <1>2, <2>1 DEF RepairOK, NoRepair
  <2>7. QED
    BY <1>1, <2>1, <2>5, <2>6 DEF IInv, TypeOK, RequestOK, RangeOK, KnownIsCarried
<1>5. QED
  BY <1>3, <1>4

LEMMA RestartStep == IInv /\ Restart => IInv'
<1> SUFFICES ASSUME IInv, Restart PROVE IInv'
  OBVIOUS
<1>1. /\ known' = Described /\ loops' \in Started(stored, chain) /\ tasks' = {} /\ queue' = <<>>
      /\ repair' = NoRepair /\ restarts' = restarts + 1
      /\ UNCHANGED <<chain, stored, rows, refused, cut>>
  BY DEF Restart
<1>2. 0 \in 0..MaxHead
  BY MetadataAssumption
<1>5. /\ loops' \in [Loop -> LoopState]
      /\ \A l \in Loop : loops'[l].pc = "idle"
  BY <1>1, StartFacts
<1>6. /\ repair' \in [pc : {"start", "ask", "done"}, stale : SUBSET Token, asked : 0..MaxHead]
      /\ repair'.pc = "start"
  BY <1>1, <1>2 DEF NoRepair
<1>7. queue' \in Seq(Bundles) /\ tasks' \in SUBSET Request /\ RequestOK'
  BY <1>1 DEF RequestOK
<1>8. known' \in SUBSET Token /\ KnownIsCarried'
  BY <1>1 DEF Described, KnownIsCarried
<1>9. QED
  BY <1>1, <1>5, <1>6, <1>7, <1>8 DEF IInv, TypeOK, RepairOK, RangeOK

LEMMA NextInv == IInv /\ [Next]_vars => IInv'
<1> SUFFICES ASSUME IInv, [Next]_vars PROVE IInv'
  OBVIOUS
<1>1. CASE Grow
  BY <1>1, GrowStep
<1>2. ASSUME NEW l \in Loop, BeginRange(l) \/ Spawn(l) \/ EndRange(l) \/ Send(l)
      PROVE  IInv'
  BY <1>2, BeginRangeStep, SpawnStep, EndRangeStep, SendStep
<1>3. ASSUME NEW task \in tasks,
             \/ \E got \in SUBSET task.nums : Look(task, got)
             \/ \E fetched \in [task.wanted -> task.asked..chain] : Answer(task, fetched)
             \/ Refuse(task)
      PROVE  IInv'
  BY <1>3, LookStep, AnswerStep, RefuseStep
<1>4. CASE Write
  BY <1>4, WriteStep
<1>5. CASE \/ \E stale \in SUBSET Described : RepairRead(stale)
           \/ \E some \in SUBSET repair.stale :
                \E fetched \in [some -> repair.asked..chain] : RepairSave(fetched)
  BY <1>5, RepairStep
<1>6. CASE Restart
  BY <1>6, RestartStep
<1>7. CASE UNCHANGED vars
  BY <1>7 DEF vars, IInv, TypeOK, RequestOK, RepairOK, RangeOK, KnownIsCarried, Described, Carried
<1>8. QED
  BY <1>1, <1>2, <1>3, <1>4, <1>5, <1>6, <1>7 DEF Next

LEMMA Invariance == Spec => []IInv
BY InitInv, NextInv, PTL DEF Spec

-----------------------------------------------------------------------------
(***************************************************************************)
(* Where the loops stand.  Each walks away from what is on record or on    *)
(* its way, and never comes by a block twice: so what is fetched and not   *)
(* yet written is not on record.                                           *)
(***************************************************************************)
QueueBlocks == {queue[i].block : i \in 1..Len(queue)}
Placed == stored \cup QueueBlocks

\* The loop comes to c after b.
Ahead(l, b, c) == IF l = "forward" THEN b < c ELSE c < b

EndsOK ==
  /\ loops["backfill"].at <= loops["forward"].at + 1
  /\ loops["forward"].at <= chain

PhaseOK ==
  /\ \A l \in Loop : loops[l].pc = "idle" => loops[l].out = {}
  /\ \A k \in tasks : loops[k.loop].pc = "fetch"

FetchedOK ==
  \A l \in Loop :
    /\ \A x \in loops[l].out :
         /\ Ahead(l, loops[l].at, x.block) /\ x.block <= chain
         /\ loops[l].pc = "fetch" => x.block < loops[l].next
    /\ \A x, y \in loops[l].out : x.block = y.block => x = y

AskedOK ==
  /\ \A k \in tasks : \A b \in k.nums :
       /\ Ahead(k.loop, loops[k.loop].at, b) /\ b <= chain /\ b < loops[k.loop].next
       /\ \A x \in loops[k.loop].out : x.block # b
  /\ \A j, k \in tasks : (j.loop = k.loop /\ j # k) => j.nums \cap k.nums = {}

ToAskOK ==
  \A l \in Loop : loops[l].pc = "fetch" =>
    \A n \in loops[l].next..loops[l].to : Ahead(l, loops[l].at, n) /\ n <= chain

SentOK ==
  \A l \in Loop :
    /\ loops[l].pc # "send" => \A b \in Placed : ~Ahead(l, loops[l].at, b)
    /\ loops[l].pc = "send" => \A b \in Placed, x \in loops[l].out : Ahead(l, b, x.block)

QueueOK ==
  /\ \A b \in Placed : b <= chain
  /\ \A i \in 1..Len(queue) : queue[i].block \notin stored
  /\ \A i, j \in 1..Len(queue) : queue[i].block = queue[j].block => i = j

PlaceInv == EndsOK /\ PhaseOK /\ FetchedOK /\ AskedOK /\ ToAskOK /\ SentOK /\ QueueOK

LEMMA PlaceTypes ==
  ASSUME IInv
  PROVE  /\ Placed \subseteq Nat /\ chain \in Nat
         /\ \A l \in Loop : /\ loops[l].at \in Nat /\ loops[l].next \in Nat /\ loops[l].to \in Nat
                            /\ loops[l].out \subseteq Bundles
                            /\ \A x \in loops[l].out : x.block \in Nat
         /\ \A k \in tasks : k.loop \in Loop /\ k.nums \subseteq Nat /\ k.nums \subseteq Block
<1>1. queue \in Seq(Bundles) /\ stored \subseteq Block /\ Block \subseteq Nat
  BY RowFacts DEF IInv, TypeOK
<1>2. Placed \subseteq Nat
  <2>1. \A i \in 1..Len(queue) : queue[i] \in Bundles
    BY <1>1
  <2>2. \A i \in 1..Len(queue) : queue[i].block \in Block
    BY <2>1, BundleFacts
  <2>3. QED
    BY <1>1, <2>2 DEF Placed, QueueBlocks
<1>3. chain \in Nat
  BY MetadataAssumption DEF IInv, TypeOK
<1>4. ASSUME NEW l \in Loop
      PROVE  /\ loops[l].at \in Nat /\ loops[l].next \in Nat /\ loops[l].to \in Nat
             /\ loops[l].out \subseteq Bundles
  BY MetadataAssumption DEF IInv, TypeOK, LoopState
<1>5. \A x \in Bundles : x.block \in Nat
  BY <1>1, BundleFacts
<1>6. \A k \in tasks : k.loop \in Loop /\ k.nums \subseteq Block
  BY DEF IInv, TypeOK, Request
<1>7. QED
  BY <1>1, <1>2, <1>3, <1>4, <1>5, <1>6

LEMMA InitPlace == Init => PlaceInv
<1> SUFFICES ASSUME Init PROVE PlaceInv
  OBVIOUS
<1>1. PICK at \in [Loop -> 0..(MaxHead + 1)] :
        loops = [l \in Loop |-> Idle(at[l])] /\ at["forward"] = FirstHead /\ at["backfill"] = FirstHead + 1
  BY DEF Init, Started, StartsAt
<1>2. /\ loops["forward"].at = FirstHead /\ loops["backfill"].at = FirstHead + 1
      /\ \A l \in Loop : loops[l].pc = "idle" /\ loops[l].out = {}
  BY <1>1 DEF Idle, Loop
<1>3. Placed = {} /\ Len(queue) = 0 /\ tasks = {} /\ chain = FirstHead /\ FirstHead \in Nat
  BY MetadataAssumption DEF Init, Placed, QueueBlocks
<1>4. QED
  BY <1>2, <1>3 DEF PlaceInv, EndsOK, PhaseOK, FetchedOK, AskedOK, ToAskOK, SentOK, QueueOK

\* What does not move the loops or the blocks leaves the places as they are.
LEMMA PlaceStays ==
  ASSUME PlaceInv, UNCHANGED <<chain, loops, tasks, queue, stored>>
  PROVE  PlaceInv'
BY DEF PlaceInv, EndsOK, PhaseOK, FetchedOK, AskedOK, ToAskOK, SentOK, QueueOK, Placed, QueueBlocks

LEMMA PlaceGrow == ASSUME IInv, PlaceInv, Grow PROVE PlaceInv'
<1>1. chain' = chain + 1 /\ chain \in Nat /\ UNCHANGED <<loops, tasks, queue, stored>>
  BY PlaceTypes DEF Grow
<1>2. Placed' = Placed
  BY <1>1 DEF Placed, QueueBlocks
<1>3. \A n \in Int : n <= chain => n <= chain'
  BY <1>1
<1>4. EndsOK' /\ PhaseOK'
  BY <1>1, <1>3, PlaceTypes DEF PlaceInv, EndsOK, PhaseOK, Loop
<1>5. FetchedOK'
  BY <1>1, <1>3, PlaceTypes DEF PlaceInv, FetchedOK
<1>6. AskedOK'
  BY <1>1, <1>3, PlaceTypes DEF PlaceInv, AskedOK
<1>7. ToAskOK'
  BY <1>1, <1>3, PlaceTypes DEF PlaceInv, ToAskOK
<1>8. SentOK' /\ QueueOK'
  BY <1>1, <1>2, <1>3, PlaceTypes DEF PlaceInv, SentOK, QueueOK
<1>9. QED
  BY <1>4, <1>5, <1>6, <1>7, <1>8 DEF PlaceInv

LEMMA PlaceBegin ==
  ASSUME IInv, PlaceInv, NEW l \in Loop, BeginRange(l)
  PROVE  PlaceInv'
<1>1. PICK from, to \in NextRange(l) :
        loops' = [loops EXCEPT ![l] = [pc |-> "fetch", at |-> loops[l].at,
                                       next |-> from, to |-> to, out |-> loops[l].out]]
  BY DEF BeginRange
<1>2. /\ loops[l].pc = "idle" /\ loops[l].out = {}
      /\ UNCHANGED <<chain, tasks, queue, stored>>
      /\ \A k \in tasks : k.loop # l
  BY DEF BeginRange, PlaceInv, PhaseOK
<1>3. /\ loops'[l].pc = "fetch" /\ loops'[l].at = loops[l].at /\ loops'[l].out = {}
      /\ loops'[l].next = from /\ loops'[l].to = to
      /\ \A m \in Loop \ {l} : loops'[m] = loops[m]
      /\ \A m \in Loop : loops'[m].at = loops[m].at
  BY <1>1, <1>2 DEF IInv, TypeOK
<1>4. Placed' = Placed
  BY <1>2 DEF Placed, QueueBlocks
<1>5. \A n \in from..to : Ahead(l, loops[l].at, n) /\ n <= chain
  <2>1. from \in Nat /\ to \in Nat
    BY RowFacts DEF NextRange
  <2>2. CASE l = "forward"
    BY <2>1, <2>2, PlaceTypes DEF NextRange, Ahead
  <2>3. CASE l = "backfill"
    <3>1. to < loops[l].at /\ loops[l].at <= chain + 1
      BY <2>3, PlaceTypes DEF NextRange, PlaceInv, EndsOK, Loop
    <3>2. QED
      BY <2>1, <2>3, <3>1, PlaceTypes DEF Ahead
  <2>4. QED
    BY <2>2, <2>3 DEF Loop
<1>6. EndsOK' /\ PhaseOK'
  BY <1>2, <1>3, PlaceTypes DEF PlaceInv, EndsOK, PhaseOK, Loop
<1>7. FetchedOK'
  BY <1>2, <1>3 DEF PlaceInv, FetchedOK
<1>8. AskedOK'
  BY <1>2, <1>3, PlaceTypes DEF PlaceInv, AskedOK
<1>9. ToAskOK'
  BY <1>2, <1>3, <1>5 DEF PlaceInv, ToAskOK
<1>10. SentOK' /\ QueueOK'
  BY <1>2, <1>3, <1>4 DEF PlaceInv, SentOK, QueueOK
<1>11. QED
  BY <1>6, <1>7, <1>8, <1>9, <1>10 DEF PlaceInv

LEMMA PlaceSpawn ==
  ASSUME IInv, PlaceInv, NEW l \in Loop, Spawn(l)
  PROVE  PlaceInv'
<1> DEFINE nums == ChunkAt(loops[l].next, loops[l].to, ChunkSize)
           task == [loop |-> l, nums |-> nums, pc |-> "look", wanted |-> {}, asked |-> 0]
<1>1. /\ loops[l].pc = "fetch" /\ loops[l].next \in Nat /\ loops[l].to \in Nat
      /\ tasks' = tasks \cup {task} /\ loops' = [loops EXCEPT ![l].next = @ + ChunkSize]
      /\ UNCHANGED <<chain, queue, stored>>
      /\ ChunkSize \in Nat \ {0}
  BY PlaceTypes, MetadataAssumption DEF Spawn
<1>2. task.loop = l /\ task.nums = nums
  OBVIOUS
<1>3. \A b \in nums : /\ b \in loops[l].next..loops[l].to
                      /\ loops[l].next <= b /\ b < loops[l].next + ChunkSize
  BY <1>1 DEF ChunkAt
<1> HIDE DEF nums, task
<1>4. /\ \A m \in Loop : /\ loops'[m].pc = loops[m].pc /\ loops'[m].at = loops[m].at
                         /\ loops'[m].out = loops[m].out /\ loops'[m].to = loops[m].to
      /\ loops'[l].next = loops[l].next + ChunkSize
      /\ \A m \in Loop \ {l} : loops'[m].next = loops[m].next
  BY <1>1 DEF IInv, TypeOK
<1>5. \A m \in Loop : loops[m].next <= loops'[m].next /\ loops'[m].next \in Nat
  BY <1>1, <1>4, PlaceTypes
<1>6. Placed' = Placed
  BY <1>1 DEF Placed, QueueBlocks
<1>7. EndsOK' /\ PhaseOK'
  BY <1>1, <1>2, <1>4, PlaceTypes DEF PlaceInv, EndsOK, PhaseOK, Loop
<1>8. FetchedOK'
  BY <1>1, <1>4, <1>5, PlaceTypes DEF PlaceInv, FetchedOK
<1>9. \A k \in tasks : k.loop \in Loop /\ k.nums \subseteq Nat
  BY PlaceTypes
<1>10. ASSUME NEW k \in tasks', NEW b \in k.nums
       PROVE  /\ Ahead(k.loop, loops'[k.loop].at, b) /\ b <= chain' /\ b < loops'[k.loop].next
              /\ \A x \in loops'[k.loop].out : x.block # b
  <2>1. CASE k \in tasks
    BY <1>1, <1>4, <1>5, <1>9, <1>10, <2>1, PlaceTypes DEF PlaceInv, AskedOK
  <2>2. CASE k = task
    <3>1. b \in nums /\ k.loop = l
      BY <1>2, <1>10, <2>2
    <3>2. Ahead(l, loops[l].at, b) /\ b <= chain
      BY <1>1, <1>3, <3>1 DEF PlaceInv, ToAskOK
    <3>3. \A x \in loops[l].out : x.block < loops[l].next /\ x.block \in Nat
      BY <1>1, PlaceTypes DEF PlaceInv, FetchedOK
    <3>4. QED
      BY <1>1, <1>3, <1>4, <3>1, <3>2, <3>3
  <2>3. QED
    BY <1>1, <2>1, <2>2
<1>11. ASSUME NEW j \in tasks', NEW k \in tasks', j.loop = k.loop, j # k
       PROVE  j.nums \cap k.nums = {}
  <2>1. CASE j \in tasks /\ k \in tasks
    BY <1>11, <2>1 DEF PlaceInv, AskedOK
  <2>2. ASSUME NEW old \in tasks, old.loop = l PROVE old.nums \cap nums = {}
    <3>1. \A b \in old.nums : b \in Nat /\ b < loops[l].next
      BY <1>9, <2>2 DEF PlaceInv, AskedOK
    <3>2. QED
      BY <1>1, <1>3, <3>1
  <2>3. QED
    BY <1>1, <1>2, <1>11, <2>1, <2>2
<1>12. AskedOK'
  BY <1>10, <1>11 DEF AskedOK
<1>13. ToAskOK'
  <2> SUFFICES ASSUME NEW m \in Loop, loops[m].pc = "fetch", NEW n \in loops'[m].next..loops[m].to
               PROVE  Ahead(m, loops[m].at, n) /\ n <= chain
    BY <1>1, <1>4 DEF ToAskOK
  <2>1. n \in loops[m].next..loops[m].to
    BY <1>5, PlaceTypes
  <2>2. QED
    BY <2>1 DEF PlaceInv, ToAskOK
<1>14. SentOK' /\ QueueOK'
  BY <1>1, <1>4, <1>6 DEF PlaceInv, SentOK, QueueOK
<1>15. QED
  BY <1>7, <1>8, <1>12, <1>13, <1>14 DEF PlaceInv

\* A request that is over hands its loop blocks it had asked for.
LEMMA PlaceFinish ==
  ASSUME IInv, PlaceInv, NEW task \in tasks, NEW nums \in SUBSET task.nums,
         NEW S \in SUBSET Token, NEW fetched \in [S -> Row],
         Finish(task, nums, fetched), UNCHANGED <<chain, queue, stored>>
  PROVE  PlaceInv'
<1> DEFINE l == task.loop
           new == {Bundle(b, fetched) : b \in nums}
<1>1. /\ tasks' = tasks \ {task} /\ l \in Loop /\ nums \subseteq task.nums /\ nums \subseteq Block
      /\ nums \subseteq Nat /\ loops[l].pc = "fetch"
      /\ loops' = [loops EXCEPT ![l].out = @ \cup new]
  BY PlaceTypes DEF Finish, PlaceInv, PhaseOK
<1>2. /\ \A x \in new : x.block \in nums
      /\ \A x, y \in new : x.block = y.block => x = y
  <2>1. \A b \in nums : Bundle(b, fetched).block = b
    BY <1>1, BundleOf
  <2>2. QED
    BY <2>1
<1> HIDE DEF new
<1>3. /\ \A m \in Loop : /\ loops'[m].pc = loops[m].pc /\ loops'[m].at = loops[m].at
                         /\ loops'[m].next = loops[m].next /\ loops'[m].to = loops[m].to
      /\ loops'[l].out = loops[l].out \cup new
      /\ \A m \in Loop \ {l} : loops'[m].out = loops[m].out
  BY <1>1 DEF IInv, TypeOK
<1>4. Placed' = Placed
  BY DEF Placed, QueueBlocks
<1>5. /\ \A b \in nums : /\ Ahead(l, loops[l].at, b) /\ b <= chain /\ b < loops[l].next
                         /\ \A x \in loops[l].out : x.block # b
      /\ \A k \in tasks \ {task} : k.loop = l => k.nums \cap nums = {}
  BY <1>1 DEF PlaceInv, AskedOK
<1> HIDE DEF l
<1>6. EndsOK' /\ ToAskOK'
  BY <1>3, PlaceTypes DEF PlaceInv, EndsOK, ToAskOK, Loop
<1>7. PhaseOK'
  <2>1. \A k \in tasks' : k \in tasks /\ k.loop \in Loop
    BY <1>1, PlaceTypes
  <2>2. \A m \in Loop : loops'[m].pc = "idle" => loops'[m].out = {}
    BY <1>1, <1>3 DEF PlaceInv, PhaseOK
  <2>3. \A k \in tasks' : loops'[k.loop].pc = "fetch"
    BY <1>3, <2>1 DEF PlaceInv, PhaseOK
  <2>4. QED
    BY <2>2, <2>3 DEF PhaseOK
<1>8. FetchedOK'
  <2>1. ASSUME NEW m \in Loop, NEW x \in loops'[m].out
        PROVE  /\ Ahead(m, loops'[m].at, x.block) /\ x.block <= chain
               /\ loops'[m].pc = "fetch" => x.block < loops'[m].next
    <3>1. CASE x \in loops[m].out
      BY <1>3, <3>1 DEF PlaceInv, FetchedOK
    <3>2. CASE x \notin loops[m].out
      BY <1>2, <1>3, <1>5, <2>1, <3>2
    <3>3. QED
      BY <3>1, <3>2
  <2>2. ASSUME NEW m \in Loop, NEW x \in loops'[m].out, NEW y \in loops'[m].out, x.block = y.block
        PROVE  x = y
    <3>1. CASE x \in loops[m].out /\ y \in loops[m].out
      BY <2>2, <3>1 DEF PlaceInv, FetchedOK
    <3>2. CASE x \notin loops[m].out /\ y \notin loops[m].out
      BY <1>2, <1>3, <2>2, <3>2
    <3>3. CASE x \notin loops[m].out /\ y \in loops[m].out
      BY <1>2, <1>3, <1>5, <2>2, <3>3
    <3>4. CASE x \in loops[m].out /\ y \notin loops[m].out
      BY <1>2, <1>3, <1>5, <2>2, <3>4
    <3>5. QED
      BY <3>1, <3>2, <3>3, <3>4
  <2>3. QED
    BY <2>1, <2>2 DEF FetchedOK
<1>9. AskedOK'
  <2>1. ASSUME NEW k \in tasks', NEW b \in k.nums
        PROVE  /\ Ahead(k.loop, loops'[k.loop].at, b) /\ b <= chain /\ b < loops'[k.loop].next
               /\ \A x \in loops'[k.loop].out : x.block # b
    <3>1. k \in tasks /\ k # task /\ k.loop \in Loop
      BY <1>1, PlaceTypes
    <3>2. /\ Ahead(k.loop, loops[k.loop].at, b) /\ b <= chain /\ b < loops[k.loop].next
          /\ \A x \in loops[k.loop].out : x.block # b
      BY <2>1, <3>1 DEF PlaceInv, AskedOK
    <3>3. k.loop = l => b \notin nums
      BY <1>5, <2>1, <3>1
    <3>4. \A x \in loops'[k.loop].out : x.block # b
      BY <1>2, <1>3, <3>1, <3>2, <3>3
    <3>5. QED
      BY <1>3, <3>1, <3>2, <3>4
  <2>2. \A j, k \in tasks' : (j.loop = k.loop /\ j # k) => j.nums \cap k.nums = {}
    BY <1>1 DEF PlaceInv, AskedOK
  <2>3. QED
    BY <2>1, <2>2 DEF AskedOK
<1>10. SentOK' /\ QueueOK'
  BY <1>1, <1>3, <1>4 DEF PlaceInv, SentOK, QueueOK
<1>11. QED
  BY <1>6, <1>7, <1>8, <1>9, <1>10 DEF PlaceInv

\* One that asks for tokens keeps some of its blocks.
LEMMA PlaceLook ==
  ASSUME IInv, PlaceInv, NEW task \in tasks, NEW got \in SUBSET task.nums, Look(task, got)
  PROVE  PlaceInv'
<1> DEFINE wanted == TokensToFetch(got, known)
           ask == [task EXCEPT !.pc = "ask", !.nums = got, !.wanted = wanted, !.asked = chain]
<1>1. UNCHANGED <<chain, queue, stored>>
  BY DEF Look
<1>2. CASE wanted = {}
  BY <1>1, <1>2, Empty, PlaceFinish DEF Look
<1>3. CASE wanted # {}
  <2>1. tasks' = (tasks \ {task}) \cup {ask} /\ loops' = loops
    BY <1>3 DEF Look
  <2>2. ask.loop = task.loop /\ ask.nums = got /\ got \subseteq task.nums
    BY DEF IInv, TypeOK, Request
  <2> HIDE DEF ask
  <2>3. Placed' = Placed
    BY <1>1 DEF Placed, QueueBlocks
  <2>4. EndsOK' /\ FetchedOK' /\ ToAskOK' /\ SentOK' /\ QueueOK'
    BY <1>1, <2>1, <2>3 DEF PlaceInv, EndsOK, FetchedOK, ToAskOK, SentOK, QueueOK
  <2>5. PhaseOK'
    BY <2>1, <2>2 DEF PlaceInv, PhaseOK
  <2>6. AskedOK'
    BY <1>1, <2>1, <2>2 DEF PlaceInv, AskedOK
  <2>7. QED
    BY <2>4, <2>5, <2>6 DEF PlaceInv
<1>4. QED
  BY <1>2, <1>3

LEMMA PlaceAnswer ==
  ASSUME IInv, PlaceInv, NEW task \in tasks,
         \/ \E fetched \in [task.wanted -> task.asked..chain] : Answer(task, fetched)
         \/ Refuse(task)
  PROVE  PlaceInv'
<1>1. /\ task \in Request /\ task.wanted \in SUBSET Token /\ chain \in FirstHead..MaxHead
  BY DEF IInv, TypeOK, Request
<1>2. ASSUME NEW fetched \in [task.wanted -> task.asked..chain], Answer(task, fetched)
      PROVE  PlaceInv'
  <2>1. task.asked \in Row
    BY <1>2 DEF Answer, IInv, RequestOK
  <2>2. task.asked..chain \subseteq Row
    BY <1>1, <2>1, MetadataAssumption DEF Row
  <2>3. fetched \in [task.wanted -> Row]
    BY <2>2
  <2>4. QED
    BY <1>1, <1>2, <2>3, PlaceFinish DEF Answer
<1>3. CASE Refuse(task)
  BY <1>3, Empty, PlaceFinish DEF Refuse
<1>4. QED
  BY <1>2, <1>3

LEMMA PlaceEnd ==
  ASSUME IInv, PlaceInv, NEW l \in Loop, EndRange(l)
  PROVE  PlaceInv'
<1> DEFINE kept == Kept(l)
<1>1. /\ kept \subseteq loops[l].out
      /\ loops' = [loops EXCEPT ![l] = [pc |-> IF kept = {} THEN "idle" ELSE "send",
                                    at |-> loops[l].at, next |-> 0, to |-> 0, out |-> kept]]
      /\ loops[l].pc = "fetch" /\ \A k \in tasks : k.loop # l
      /\ UNCHANGED <<chain, tasks, queue, stored>>
  BY KeptFacts DEF EndRange, TasksOf
<1> HIDE DEF kept
<1>2. /\ loops'[l].out = kept /\ loops'[l].at = loops[l].at
      /\ (kept = {} /\ loops'[l].pc = "idle") \/ (kept # {} /\ loops'[l].pc = "send")
      /\ \A m \in Loop \ {l} : loops'[m] = loops[m]
      /\ \A m \in Loop : loops'[m].at = loops[m].at
  BY <1>1 DEF IInv, TypeOK
<1>3. Placed' = Placed
  BY <1>1 DEF Placed, QueueBlocks
<1>4. EndsOK' /\ ToAskOK' /\ FetchedOK'
  <2>1. EndsOK'
    BY <1>1, <1>2 DEF PlaceInv, EndsOK, Loop
  <2>2. ToAskOK'
    BY <1>1, <1>2 DEF PlaceInv, ToAskOK
  <2>3. FetchedOK'
    BY <1>1, <1>2 DEF PlaceInv, FetchedOK
  <2>4. QED
    BY <2>1, <2>2, <2>3
<1>5. PhaseOK' /\ AskedOK'
  BY <1>1, <1>2, PlaceTypes DEF PlaceInv, PhaseOK, AskedOK
<1>6. \A b \in Placed, x \in kept : Ahead(l, b, x.block)
  <2> SUFFICES ASSUME NEW b \in Placed, NEW x \in kept PROVE Ahead(l, b, x.block)
    OBVIOUS
  <2>1. ~Ahead(l, loops[l].at, b) /\ Ahead(l, loops[l].at, x.block)
    BY <1>1 DEF PlaceInv, SentOK, FetchedOK
  <2>2. b \in Nat /\ x.block \in Nat /\ loops[l].at \in Nat
    BY <1>1, PlaceTypes
  <2>3. QED
    BY <2>1, <2>2 DEF Ahead
<1>7. SentOK' /\ QueueOK'
  BY <1>1, <1>2, <1>3, <1>6 DEF PlaceInv, SentOK, QueueOK
<1>8. QED
  BY <1>4, <1>5, <1>7 DEF PlaceInv

\* A block on its way into the queue is new, and the other loop stays clear of it.
LEMMA PlaceSend ==
  ASSUME IInv, PlaceInv, NEW l \in Loop, Send(l)
  PROVE  PlaceInv'
<1>1. PICK x \in loops[l].out :
        /\ \A y \in loops[l].out : IF l = "forward" THEN x.block <= y.block ELSE y.block <= x.block
        /\ queue' = Append(queue, x)
        /\ loops' = [loops EXCEPT ![l] = IF loops[l].out \ {x} = {} THEN Idle(x.block)
                                         ELSE [loops[l] EXCEPT !.out = loops[l].out \ {x}]]
  BY DEF Send, IsLowest, IsHighest, BlocksOf
<1> DEFINE rest == loops[l].out \ {x}
<1>2. /\ loops[l].pc = "send" /\ UNCHANGED <<chain, tasks, stored>>
      /\ \A k \in tasks : k.loop # l
      /\ queue \in Seq(Bundles) /\ Len(queue) \in Nat /\ loops[l] \in LoopState
      /\ loops \in [Loop -> LoopState]
  BY DEF Send, PlaceInv, PhaseOK, IInv, TypeOK
<1>3. /\ x.block \in Nat /\ loops[l].at \in Nat /\ Ahead(l, loops[l].at, x.block) /\ x.block <= chain
      /\ \A b \in Placed : Ahead(l, b, x.block)
  BY <1>2, PlaceTypes DEF PlaceInv, FetchedOK, SentOK
<1>4. \A y \in rest : Ahead(l, x.block, y.block) /\ y \in loops[l].out
  <2>1. \A y \in rest : y.block # x.block /\ y.block \in Nat
    BY PlaceTypes DEF PlaceInv, FetchedOK
  <2>2. QED
    BY <1>1, <1>3, <2>1 DEF Ahead
<1>5. /\ loops'[l].out = rest
      /\ \/ rest = {} /\ loops'[l].pc = "idle" /\ loops'[l].at = x.block
         \/ rest # {} /\ loops'[l].pc = "send" /\ loops'[l].at = loops[l].at
      /\ \A m \in Loop \ {l} : loops'[m] = loops[m]
  <2>1. CASE rest = {}
    BY <1>1, <1>2, <2>1 DEF Idle
  <2>2. CASE rest # {}
    BY <1>1, <1>2, <2>2 DEF LoopState
  <2>3. QED
    BY <2>1, <2>2
<1> HIDE DEF rest
<1>6. /\ Len(queue') = Len(queue) + 1 /\ queue'[Len(queue')] = x
      /\ \A i \in 1..Len(queue) : queue'[i] = queue[i]
  <2>1. x \in Bundles
    BY PlaceTypes
  <2>2. QED
    BY <1>1, <1>2, <2>1
<1>7. /\ Placed' = Placed \cup {x.block} /\ x.block \notin Placed
      /\ \A i \in 1..Len(queue') : i = Len(queue') \/ (i \in 1..Len(queue) /\ queue'[i] = queue[i])
  <2>1. \A i \in 1..Len(queue') : i = Len(queue') \/ i \in 1..Len(queue)
    BY <1>2, <1>6
  <2>2. 1..Len(queue) \subseteq 1..Len(queue') /\ Len(queue') \in 1..Len(queue')
    BY <1>2, <1>6
  <2>3. QueueBlocks' = QueueBlocks \cup {x.block}
    BY <1>6, <2>1, <2>2 DEF QueueBlocks
  <2>4. \A b \in Placed : b # x.block
    BY <1>3, PlaceTypes DEF Ahead
  <2>5. QED
    BY <1>2, <1>6, <2>1, <2>3, <2>4 DEF Placed
<1>8. ASSUME NEW m \in Loop \ {l}
      PROVE  /\ ~Ahead(m, loops[m].at, x.block)
             /\ \A y \in loops[m].out : Ahead(m, x.block, y.block)
  <2>1. ~Ahead(m, loops[m].at, x.block)
    BY <1>3, PlaceTypes DEF PlaceInv, EndsOK, Ahead, Loop
  <2>2. \A y \in loops[m].out : Ahead(m, loops[m].at, y.block) /\ y.block \in Nat
    BY PlaceTypes DEF PlaceInv, FetchedOK
  <2>3. loops[m].at \in Nat
    BY PlaceTypes
  <2>4. QED
    BY <1>3, <2>1, <2>2, <2>3 DEF Ahead
<1>9. EndsOK'
  <2> DEFINE other == IF l = "forward" THEN "backfill" ELSE "forward"
  <2>1. /\ loops["backfill"].at \in Nat /\ loops["forward"].at \in Nat /\ chain \in Nat
        /\ loops["backfill"].at <= loops["forward"].at + 1 /\ loops["forward"].at <= chain
    BY PlaceTypes DEF PlaceInv, EndsOK, Loop
  <2>2. loops'[l].at \in {x.block, loops[l].at} /\ loops'[other].at = loops[other].at /\ chain' = chain
    BY <1>2, <1>5 DEF Loop
  <2>3. CASE l = "forward"
    BY <1>3, <2>1, <2>2, <2>3 DEF EndsOK, Ahead
  <2>4. CASE l = "backfill"
    BY <1>3, <2>1, <2>2, <2>4 DEF EndsOK, Ahead
  <2>5. QED
    BY <2>3, <2>4 DEF Loop
<1>10. PhaseOK' /\ AskedOK'
  <2>1. \A k \in tasks : k.loop \in Loop /\ loops'[k.loop] = loops[k.loop]
    BY <1>2, <1>5, PlaceTypes
  <2>2. AskedOK'
    BY <1>2, <2>1 DEF PlaceInv, AskedOK
  <2>3. PhaseOK'
    BY <1>2, <1>5, <2>1 DEF PlaceInv, PhaseOK
  <2>4. QED
    BY <2>2, <2>3
<1>11. FetchedOK' /\ ToAskOK'
  <2>1. ToAskOK'
    BY <1>2, <1>5 DEF PlaceInv, ToAskOK
  <2>2. FetchedOK'
    BY <1>2, <1>4, <1>5 DEF PlaceInv, FetchedOK
  <2>3. QED
    BY <2>1, <2>2
<1>12. SentOK'
  <2>1. ASSUME NEW b \in Placed' PROVE b \in Placed \/ b = x.block
    BY <1>7
  <2>2. ASSUME NEW m \in Loop \ {l}, NEW b \in Placed'
        PROVE  /\ loops'[m].pc # "send" => ~Ahead(m, loops'[m].at, b)
               /\ loops'[m].pc = "send" => \A y \in loops'[m].out : Ahead(m, b, y.block)
    BY <1>5, <1>8, <2>1 DEF PlaceInv, SentOK
  <2>3. ASSUME NEW b \in Placed'
        PROVE  /\ loops'[l].pc # "send" => ~Ahead(l, loops'[l].at, b)
               /\ loops'[l].pc = "send" => \A y \in loops'[l].out : Ahead(l, b, y.block)
    <3>1. b = x.block \/ (Ahead(l, b, x.block) /\ b \in Nat)
      BY <1>3, <2>1, PlaceTypes
    <3>2. ~Ahead(l, x.block, b)
      BY <1>3, <3>1 DEF Ahead
    <3>3. \A y \in rest : Ahead(l, b, y.block)
      BY <1>2, <1>4, <2>1 DEF PlaceInv, SentOK
    <3>4. QED
      BY <1>5, <3>2, <3>3
  <2>4. QED
    BY <2>2, <2>3 DEF SentOK
<1>13. QueueOK'
  <2>1. \A b \in Placed' : b <= chain'
    BY <1>2, <1>3, <1>7 DEF PlaceInv, QueueOK
  <2>2. \A i \in 1..Len(queue') : queue'[i].block \notin stored'
    BY <1>2, <1>6, <1>7 DEF PlaceInv, QueueOK, Placed
  <2>3. \A i \in 1..Len(queue) : queue[i].block # x.block
    BY <1>7 DEF Placed, QueueBlocks
  <2>4. \A i, j \in 1..Len(queue') : queue'[i].block = queue'[j].block => i = j
    BY <1>6, <1>7, <2>3 DEF PlaceInv, QueueOK
  <2>5. QED
    BY <2>1, <2>2, <2>4 DEF QueueOK
<1>14. QED
  BY <1>9, <1>10, <1>11, <1>12, <1>13 DEF PlaceInv

\* What the queue is left with when its head is written.
LEMMA WriteFacts ==
  ASSUME IInv, Write
  PROVE  /\ Len(queue) \in Nat \ {0} /\ Head(queue) = queue[1] /\ 1 \in 1..Len(queue)
         /\ \A i \in 1..Len(queue') : i + 1 \in 1..Len(queue) /\ i + 1 # 1 /\ i \in Nat /\ queue'[i] = queue[i + 1]
         /\ \A i \in 1..Len(queue) : i # 1 => (i - 1 \in 1..Len(queue') /\ queue'[i - 1] = queue[i])
<1>1. /\ queue \in Seq(Bundles) /\ queue # <<>> /\ queue' = Tail(queue)
  BY DEF Write, IInv, TypeOK
<1> DEFINE s == queue
           t == Tail(s)
           B == Bundles
<1>2. /\ Len(queue) \in Nat \ {0} /\ Head(queue) = queue[1] /\ Len(queue') = Len(queue) - 1
      /\ \A i \in 1..Len(queue') : queue'[i] = queue[i + 1]
  <2>1. s \in Seq(B) /\ s # <<>> /\ queue' = t
    BY <1>1
  <2> HIDE DEF B
  <2>2. Len(s) \in Nat \ {0} /\ Head(s) = s[1] /\ Len(t) = Len(s) - 1
    BY <2>1
  <2>3. \A i \in 1..Len(t) : t[i] = s[i + 1]
    BY <2>1
  <2> HIDE DEF t
  <2>4. QED
    BY <2>1, <2>2, <2>3
<1>3. \A i \in 1..Len(queue) : i # 1 => (i - 1 \in 1..Len(queue') /\ (i - 1) + 1 = i)
  BY <1>2
<1>4. QED
  BY <1>2, <1>3

LEMMA PlaceWrite == ASSUME IInv, PlaceInv, Write PROVE PlaceInv'
<1>1. /\ stored' = stored \cup {queue[1].block} /\ UNCHANGED <<chain, loops, tasks>>
  BY WriteFacts DEF Write
<1>2. Placed' = Placed
  <2>1. QueueBlocks' \subseteq QueueBlocks /\ queue[1].block \in QueueBlocks
    BY WriteFacts DEF QueueBlocks
  <2>2. ASSUME NEW b \in QueueBlocks PROVE b \in QueueBlocks' \cup {queue[1].block}
    <3>1. PICK i \in 1..Len(queue) : b = queue[i].block
      BY DEF QueueBlocks
    <3>2. i # 1 => i - 1 \in 1..Len(queue') /\ queue'[i - 1] = queue[i]
      BY WriteFacts
    <3>3. QED
      BY <3>1, <3>2 DEF QueueBlocks
  <2>3. QueueBlocks' \cup {queue[1].block} = QueueBlocks
    BY <2>1, <2>2
  <2>4. QED
    BY <1>1, <2>3 DEF Placed
<1>3. EndsOK' /\ PhaseOK' /\ FetchedOK' /\ AskedOK' /\ ToAskOK' /\ SentOK'
  BY <1>1, <1>2 DEF PlaceInv, EndsOK, PhaseOK, FetchedOK, AskedOK, ToAskOK, SentOK
<1>4. QueueOK'
  <2>1. \A i, j \in 1..Len(queue') : queue'[i].block = queue'[j].block => i = j
    <3> SUFFICES ASSUME NEW i \in 1..Len(queue'), NEW j \in 1..Len(queue'),
                        queue'[i].block = queue'[j].block
                 PROVE  i = j
      OBVIOUS
    <3> DEFINE a == i + 1
               b == j + 1
    <3>1. /\ a \in 1..Len(queue) /\ b \in 1..Len(queue)
          /\ queue[a].block = queue[b].block
      BY WriteFacts
    <3> HIDE DEF a, b
    <3>2. a = b
      BY <3>1 DEF PlaceInv, QueueOK
    <3>3. QED
      BY <3>2, WriteFacts DEF a, b
  <2>2. \A i \in 1..Len(queue') : queue'[i].block \notin stored'
    BY <1>1, WriteFacts DEF PlaceInv, QueueOK
  <2>3. QED
    BY <1>1, <1>2, <2>1, <2>2 DEF PlaceInv, QueueOK
<1>5. QED
  BY <1>3, <1>4 DEF PlaceInv

LEMMA PlaceRestart == ASSUME IInv, PlaceInv, Restart PROVE PlaceInv'
<1>1. /\ loops' \in Started(stored, chain) /\ tasks' = {} /\ queue' = <<>>
      /\ UNCHANGED <<chain, stored>>
  BY DEF Restart
<1>2. PICK at \in [Loop -> 0..(MaxHead + 1)] :
        loops' = [l \in Loop |-> Idle(at[l])] /\ StartsAt(at, stored, chain)
  BY <1>1 DEF Started
<1>3. \A l \in Loop : loops'[l].pc = "idle" /\ loops'[l].out = {} /\ loops'[l].at = at[l]
  BY <1>2 DEF Idle
<1>4. Placed' = stored /\ Len(queue') = 0 /\ stored \subseteq Nat /\ chain \in Nat
      /\ \A b \in stored : b <= chain
  <2>1. Len(queue') = 0
    BY <1>1
  <2>2. stored \subseteq Placed
    BY DEF Placed
  <2>3. Placed' = stored
    BY <1>1, <2>1 DEF Placed, QueueBlocks
  <2>4. QED
    BY <2>1, <2>2, <2>3, PlaceTypes DEF PlaceInv, QueueOK
<1>5. /\ at["backfill"] <= at["forward"] + 1 /\ at["forward"] <= chain
      /\ \A l \in Loop, b \in stored : ~Ahead(l, at[l], b)
  <2>1. CASE stored = {}
    BY <1>2, <1>4, <2>1 DEF StartsAt
  <2>2. CASE stored # {}
    <3>1. /\ at["forward"] \in stored /\ \A b \in stored : b <= at["forward"]
          /\ at["backfill"] \in stored /\ \A b \in stored : at["backfill"] <= b
      BY <1>2, <2>2 DEF StartsAt, IsHighest, IsLowest
    <3>2. QED
      BY <1>4, <3>1 DEF Ahead, Loop
  <2>3. QED
    BY <2>1, <2>2
<1>6. EndsOK' /\ PhaseOK' /\ FetchedOK' /\ AskedOK' /\ ToAskOK'
  <2>1. loops'["forward"].at = at["forward"] /\ loops'["backfill"].at = at["backfill"]
    BY <1>3 DEF Loop
  <2>2. QED
    BY <1>1, <1>3, <1>5, <2>1 DEF EndsOK, PhaseOK, FetchedOK, AskedOK, ToAskOK
<1>7. SentOK' /\ QueueOK'
  BY <1>1, <1>3, <1>4, <1>5 DEF SentOK, QueueOK
<1>8. QED
  BY <1>6, <1>7 DEF PlaceInv

LEMMA NextPlace == IInv /\ PlaceInv /\ [Next]_vars => PlaceInv'
<1> SUFFICES ASSUME IInv, PlaceInv, [Next]_vars PROVE PlaceInv'
  OBVIOUS
<1>1. CASE Grow
  BY <1>1, PlaceGrow
<1>2. ASSUME NEW l \in Loop, BeginRange(l) \/ Spawn(l) \/ EndRange(l) \/ Send(l)
      PROVE  PlaceInv'
  BY <1>2, PlaceBegin, PlaceSpawn, PlaceEnd, PlaceSend
<1>3. ASSUME NEW task \in tasks,
             \/ \E got \in SUBSET task.nums : Look(task, got)
             \/ \E fetched \in [task.wanted -> task.asked..chain] : Answer(task, fetched)
             \/ Refuse(task)
      PROVE  PlaceInv'
  BY <1>3, PlaceLook, PlaceAnswer
<1>4. CASE Write
  BY <1>4, PlaceWrite
<1>5. CASE \/ \E stale \in SUBSET Described : RepairRead(stale)
           \/ \E some \in SUBSET repair.stale :
                \E fetched \in [some -> repair.asked..chain] : RepairSave(fetched)
  BY <1>5, PlaceStays DEF RepairRead, RepairSave
<1>6. CASE Restart
  BY <1>6, PlaceRestart
<1>7. CASE UNCHANGED vars
  BY <1>7, PlaceStays DEF vars
<1>8. QED
  BY <1>1, <1>2, <1>3, <1>4, <1>5, <1>6, <1>7 DEF Next

-----------------------------------------------------------------------------
(***************************************************************************)
(* What becomes of a token.  What is on its way is accounted for; a token  *)
(* of a block on record is too, or a block that mentions it is still to    *)
(* come, whose request will ask for it.                                    *)
(***************************************************************************)
OnWay == (UNION {loops[l].out : l \in Loop}) \cup {queue[i] : i \in 1..Len(queue)}
Fine == Described \cup Carried \cup refused \cup cut

RequestFine == \A k \in tasks : k.pc = "ask" => \A b \in k.nums : Mentions[b] \subseteq k.wanted \cup known
WayFine == \A x \in OnWay : Mentions[x.block] \subseteq Fine
StoredFine ==
  \A b \in stored : \A t \in Mentions[b] :
    t \in Fine \/ \E c \in (1..chain) \ stored : t \in Mentions[c]

AccountInv == RequestFine /\ WayFine /\ StoredFine

\* Both kinds of what is on its way, now and after a step.
LEMMA OnWayIs ==
  /\ \A x : x \in OnWay <=> \/ \E l \in Loop : x \in loops[l].out
                            \/ \E i \in 1..Len(queue) : x = queue[i]
  /\ \A x : x \in OnWay' <=> \/ \E l \in Loop : x \in loops'[l].out
                             \/ \E i \in 1..Len(queue') : x = queue'[i]
BY DEF OnWay

LEMMA CarriedIs ==
  /\ \A t : t \in Carried <=> \E x \in OnWay : t \in DOMAIN x.rows
  /\ \A t : t \in Carried' <=> \E x \in OnWay' : t \in DOMAIN x.rows
<1>1. \A t : t \in Carried <=> \/ \E l \in Loop : \E x \in loops[l].out : t \in DOMAIN x.rows
                              \/ \E i \in 1..Len(queue) : t \in DOMAIN queue[i].rows
  BY DEF Carried, RowsOf
<1>2. \A t : t \in Carried' <=> \/ \E l \in Loop : \E x \in loops'[l].out : t \in DOMAIN x.rows
                               \/ \E i \in 1..Len(queue') : t \in DOMAIN queue'[i].rows
  BY DEF Carried, RowsOf
<1>3. QED
  BY <1>1, <1>2, OnWayIs

\* What is on its way is a block of the chain that is not on record.
LEMMA OnWayFacts ==
  ASSUME IInv, PlaceInv, NEW x \in OnWay
  PROVE  /\ x.block \in (1..chain) \ stored
         /\ DOMAIN x.rows \subseteq Mentions[x.block]
<1>1. x \in Bundles
  <2>1. CASE \E i \in 1..Len(queue) : x = queue[i]
    BY <2>1 DEF IInv, TypeOK
  <2>2. CASE \E l \in Loop : x \in loops[l].out
    BY <2>2, PlaceTypes
  <2>3. QED
    BY <2>1, <2>2, OnWayIs
<1>2. x.block \in Block /\ DOMAIN x.rows \subseteq Mentions[x.block]
  BY <1>1 DEF Bundles
<1>3. x.block <= chain /\ x.block \notin stored
  <2>1. CASE \E i \in 1..Len(queue) : x = queue[i]
    BY <2>1 DEF PlaceInv, QueueOK, Placed, QueueBlocks
  <2>2. CASE \E l \in Loop : x \in loops[l].out
    <3>1. PICK l \in Loop : x \in loops[l].out
      BY <2>2
    <3>2. Ahead(l, loops[l].at, x.block) /\ x.block <= chain
      BY <3>1 DEF PlaceInv, FetchedOK
    <3>3. \A b \in stored : b # x.block
      <4>1. CASE loops[l].pc = "send"
        BY <3>1, <4>1, PlaceTypes DEF PlaceInv, SentOK, Placed, Ahead
      <4>2. CASE loops[l].pc # "send"
        BY <3>1, <3>2, <4>2 DEF PlaceInv, SentOK, Placed
      <4>3. QED
        BY <4>1, <4>2
    <3>4. QED
      BY <3>2, <3>3
  <2>3. QED
    BY <2>1, <2>2, OnWayIs
<1>4. QED
  <2>1. x.block \in Nat \ {0} /\ chain \in Nat
    BY <1>2, PlaceTypes, RowFacts
  <2>2. QED
    BY <1>2, <1>3, <2>1

\* A step that stores no block and loses no token, and sends what is fine.
LEMMA Accounted ==
  ASSUME AccountInv, Fine \subseteq Fine', chain \in Nat, chain' \in Nat, chain <= chain',
         stored' = stored, RequestFine',
         \A x \in OnWay' : x \in OnWay \/ Mentions[x.block] \subseteq Fine'
  PROVE  AccountInv'
<1>1. WayFine'
  BY DEF AccountInv, WayFine
<1>2. (1..chain) \subseteq 1..chain'
  OBVIOUS
<1>3. StoredFine'
  BY <1>2 DEF AccountInv, StoredFine
<1>4. QED
  BY <1>1, <1>3 DEF AccountInv

LEMMA InitAccount == Init => AccountInv
<1> SUFFICES ASSUME Init PROVE AccountInv
  OBVIOUS
<1>1. /\ tasks = {} /\ stored = {} /\ Len(queue) = 0 /\ \A l \in Loop : loops[l].out = {}
  <2>1. PICK at \in [Loop -> 0..(MaxHead + 1)] : loops = [l \in Loop |-> Idle(at[l])]
    BY DEF Init, Started
  <2>2. QED
    BY <2>1 DEF Init, Idle
<1>2. OnWay = {}
  BY <1>1 DEF OnWay
<1>3. QED
  BY <1>1, <1>2 DEF AccountInv, RequestFine, WayFine, StoredFine

\* The steps that only move the chain, a range or a request not yet answered.
LEMMA AccountQuiet ==
  ASSUME IInv, AccountInv, UNCHANGED <<known, queue, stored, refused, cut>>,
         Described \subseteq Described',
         chain' \in Nat, chain <= chain',
         \A l \in Loop : loops'[l].out = loops[l].out,
         \A k \in tasks' : k \in tasks \/ k.pc = "look"
  PROVE  AccountInv'
<1>1. OnWay' = OnWay
  BY DEF OnWay
<1>2. Carried' = Carried
  BY <1>1, CarriedIs
<1>3. Fine \subseteq Fine'
  BY <1>2 DEF Fine
<1>4. RequestFine'
  BY DEF AccountInv, RequestFine
<1>5. QED
  BY <1>1, <1>3, <1>4, PlaceTypes, Accounted

LEMMA AccountMove ==
  ASSUME IInv, IInv', AccountInv,
         \/ Grow
         \/ \E l \in Loop : BeginRange(l) \/ Spawn(l)
         \/ \E stale \in SUBSET Described : RepairRead(stale)
         \/ \E some \in SUBSET repair.stale :
              \E fetched \in [some -> repair.asked..chain] : RepairSave(fetched)
  PROVE  AccountInv'
<1>1. chain \in Nat /\ chain' \in Nat
  BY PlaceTypes, MetadataAssumption DEF IInv, TypeOK
<1>2. CASE Grow
  <2>1. Described' = Described
    BY <1>2 DEF Grow, Described
  <2>2. QED
    BY <1>1, <1>2, <2>1, AccountQuiet DEF Grow
<1>3. ASSUME NEW l \in Loop, BeginRange(l) \/ Spawn(l) PROVE AccountInv'
  <2>1. \A m \in Loop : loops'[m].out = loops[m].out
    <3>1. loops \in [Loop -> LoopState]
      BY DEF IInv, TypeOK
    <3>2. CASE BeginRange(l)
      <4>1. PICK from, to \in NextRange(l) :
              loops' = [loops EXCEPT ![l] = [pc |-> "fetch", at |-> loops[l].at,
                                             next |-> from, to |-> to, out |-> loops[l].out]]
        BY <3>2 DEF BeginRange
      <4>2. QED
        BY <3>1, <4>1
    <3>3. CASE Spawn(l)
      BY <3>1, <3>3 DEF Spawn
    <3>4. QED
      BY <1>3, <3>2, <3>3
  <2>2. \A k \in tasks' : k \in tasks \/ k.pc = "look"
    BY <1>3 DEF BeginRange, Spawn
  <2>3. /\ Described' = Described /\ chain' = chain
        /\ UNCHANGED <<known, queue, stored, refused, cut>>
    BY <1>3 DEF BeginRange, Spawn, Described
  <2>4. QED
    BY <1>1, <2>1, <2>2, <2>3, AccountQuiet
<1>4. ASSUME NEW stale \in SUBSET Described, RepairRead(stale) PROVE AccountInv'
  <2>1. Described' = Described
    BY <1>4 DEF RepairRead, Described
  <2>2. QED
    BY <1>1, <1>4, <2>1, AccountQuiet DEF RepairRead
<1>5. ASSUME NEW some \in SUBSET repair.stale,
             NEW fetched \in [some -> repair.asked..chain], RepairSave(fetched)
      PROVE  AccountInv'
  <2>1. /\ repair.asked \in Row /\ repair.stale \subseteq Token /\ chain \in FirstHead..MaxHead
        /\ rows' = UpsertRows(fetched) /\ rows \in [Token -> 0..MaxHead]
    BY <1>5 DEF RepairSave, IInv, TypeOK, RepairOK
  <2>2. repair.asked..chain \subseteq Row
    BY <2>1, MetadataAssumption DEF Row
  <2>3. DOMAIN fetched \subseteq Token /\ \A t \in DOMAIN fetched : fetched[t] \in Row
    BY <2>1, <2>2
  <2>4. Described \subseteq Described'
    BY <2>1, <2>3, UpsertFacts
  <2>5. QED
    BY <1>1, <1>5, <2>4, AccountQuiet DEF RepairSave
<1>6. QED
  BY <1>2, <1>3, <1>4, <1>5

\* A request that is over: every token of its blocks is known, or refused.
LEMMA AccountFinish ==
  ASSUME IInv, IInv', PlaceInv, AccountInv, NEW task \in tasks, NEW nums \in SUBSET task.nums,
         NEW S \in SUBSET Token, NEW fetched \in [S -> Row],
         Finish(task, nums, fetched), UNCHANGED <<chain, queue, stored, rows, cut>>,
         known \subseteq known', refused \subseteq refused' \cup known',
         \A b \in nums : Mentions[b] \subseteq known' \cup refused'
  PROVE  AccountInv'
<1> DEFINE new == {Bundle(b, fetched) : b \in nums}
<1>1. /\ tasks' = tasks \ {task} /\ task.loop \in Loop /\ nums \subseteq Block
      /\ loops' = [loops EXCEPT ![task.loop].out = @ \cup new]
  BY PlaceTypes DEF Finish
<1>2. \A x \in new : x.block \in nums
  BY <1>1, BundleOf
<1> HIDE DEF new
<1>3. \A m \in Loop : loops[m].out \subseteq loops'[m].out /\ loops'[m].out \subseteq loops[m].out \cup new
  BY <1>1 DEF IInv, TypeOK
<1>4. OnWay \subseteq OnWay' /\ \A x \in OnWay' : x \in OnWay \/ x \in new
  BY <1>3, OnWayIs
<1>5. Carried \subseteq Carried'
  BY <1>4, CarriedIs
<1>6. known' \subseteq Fine'
  BY DEF IInv, KnownIsCarried, Fine
<1>7. Fine \subseteq Fine'
  <2>1. Described' = Described
    BY DEF Described
  <2>2. QED
    BY <1>5, <1>6, <2>1 DEF Fine
<1>8. \A x \in OnWay' : x \in OnWay \/ Mentions[x.block] \subseteq Fine'
  BY <1>2, <1>4, <1>6 DEF Fine
<1>9. RequestFine'
  BY <1>1 DEF AccountInv, RequestFine
<1>10. QED
  BY <1>7, <1>8, <1>9, PlaceTypes, Accounted

LEMMA AccountTask ==
  ASSUME IInv, IInv', PlaceInv, AccountInv, NEW task \in tasks,
         \/ \E got \in SUBSET task.nums : Look(task, got)
         \/ \E fetched \in [task.wanted -> task.asked..chain] : Answer(task, fetched)
         \/ Refuse(task)
  PROVE  AccountInv'
<1>1. /\ task \in Request /\ task.wanted \in SUBSET Token /\ chain \in FirstHead..MaxHead
      /\ task.nums \subseteq Block
  BY DEF IInv, TypeOK, Request
<1>2. ASSUME NEW got \in SUBSET task.nums, Look(task, got) PROVE AccountInv'
  <2> DEFINE wanted == TokensToFetch(got, known)
             ask == [task EXCEPT !.pc = "ask", !.nums = got, !.wanted = wanted, !.asked = chain]
  <2>1. UNCHANGED <<chain, known, queue, stored, rows, refused, cut>>
    BY <1>2 DEF Look
  <2>2. \A b \in got : Mentions[b] \subseteq wanted \cup known
    BY DEF TokensToFetch
  <2>3. CASE wanted = {}
    <3>1. Finish(task, got, NoRows)
      BY <1>2, <2>3 DEF Look
    <3>2. QED
      BY <2>1, <2>2, <2>3, <3>1, Empty, AccountFinish
  <2>4. CASE wanted # {}
    <3>1. tasks' = (tasks \ {task}) \cup {ask} /\ loops' = loops
      BY <1>2, <2>4 DEF Look
    <3>2. ask.nums = got /\ ask.wanted = wanted
      BY <1>1 DEF Request
    <3> HIDE DEF ask, wanted
    <3>3. RequestFine'
      BY <2>1, <2>2, <3>1, <3>2 DEF AccountInv, RequestFine
    <3>4. OnWay' = OnWay /\ Fine' = Fine
      BY <2>1, <3>1 DEF OnWay, Fine, Described, Carried
    <3>5. QED
      BY <2>1, <3>3, <3>4, PlaceTypes, Accounted
  <2>5. QED
    BY <2>3, <2>4
<1>3. ASSUME NEW fetched \in [task.wanted -> task.asked..chain], Answer(task, fetched)
      PROVE  AccountInv'
  <2>1. /\ task.pc = "ask" /\ Finish(task, task.nums, fetched)
        /\ known' = known \cup task.wanted /\ refused' = refused \ task.wanted
        /\ UNCHANGED <<chain, queue, stored, rows, cut>>
    BY <1>3 DEF Answer
  <2>2. task.asked \in Row
    BY <2>1 DEF IInv, RequestOK
  <2>3. task.asked..chain \subseteq Row
    BY <1>1, <2>2, MetadataAssumption DEF Row
  <2>4. fetched \in [task.wanted -> Row]
    BY <2>3
  <2>5. \A b \in task.nums : Mentions[b] \subseteq known'
    BY <2>1 DEF AccountInv, RequestFine
  <2>6. QED
    BY <1>1, <2>1, <2>4, <2>5, AccountFinish
<1>4. CASE Refuse(task)
  <2>1. /\ task.pc = "ask" /\ Finish(task, task.nums, NoRows)
        /\ known' = known /\ refused' = refused \cup task.wanted
        /\ UNCHANGED <<chain, queue, stored, rows, cut>>
    BY <1>4 DEF Refuse
  <2>2. \A b \in task.nums : Mentions[b] \subseteq known' \cup refused'
    BY <2>1 DEF AccountInv, RequestFine
  <2>3. QED
    BY <2>1, <2>2, Empty, AccountFinish
<1>5. QED
  BY <1>2, <1>3, <1>4

\* What a range loses to the cut is noted.
LEMMA AccountEnd ==
  ASSUME IInv, AccountInv, NEW l \in Loop, EndRange(l)
  PROVE  AccountInv'
<1> DEFINE kept == Kept(l)
           lost == loops[l].out \ kept
<1>1. /\ kept \subseteq loops[l].out /\ cut' = cut \cup (RowsOf(lost) \ RowsOf(kept))
      /\ loops' = [loops EXCEPT ![l] = [pc |-> IF kept = {} THEN "idle" ELSE "send",
                                    at |-> loops[l].at, next |-> 0, to |-> 0, out |-> kept]]
      /\ UNCHANGED <<chain, known, tasks, queue, stored, rows, refused>>
  BY KeptFacts DEF EndRange
<1> HIDE DEF kept
<1>2. loops'[l].out = kept /\ \A m \in Loop \ {l} : loops'[m] = loops[m]
  BY <1>1 DEF IInv, TypeOK
<1>3. OnWay' \subseteq OnWay /\ kept \subseteq OnWay' /\ OnWay \subseteq OnWay' \cup lost
  BY <1>1, <1>2, OnWayIs
<1> HIDE DEF lost
<1>4. Carried \subseteq Carried' \cup cut'
  <2>1. Carried \subseteq Carried' \cup RowsOf(lost)
    BY <1>3, CarriedIs DEF RowsOf
  <2>2. RowsOf(kept) \subseteq Carried'
    BY <1>3, CarriedIs DEF RowsOf
  <2>3. QED
    BY <1>1, <2>1, <2>2
<1>5. Fine \subseteq Fine'
  BY <1>1, <1>4 DEF Fine, Described
<1>6. RequestFine'
  BY <1>1 DEF AccountInv, RequestFine
<1>7. QED
  BY <1>1, <1>3, <1>5, <1>6, PlaceTypes, Accounted

LEMMA AccountSend ==
  ASSUME IInv, AccountInv, NEW l \in Loop, Send(l)
  PROVE  AccountInv'
<1>1. PICK x \in loops[l].out :
        /\ queue' = Append(queue, x)
        /\ loops' = [loops EXCEPT ![l] = IF loops[l].out \ {x} = {} THEN Idle(x.block)
                                         ELSE [loops[l] EXCEPT !.out = loops[l].out \ {x}]]
  BY DEF Send
<1>2. /\ UNCHANGED <<chain, known, tasks, stored, rows, refused, cut>>
      /\ queue \in Seq(Bundles) /\ x \in Bundles
      /\ loops[l] \in LoopState /\ loops \in [Loop -> LoopState]
  BY DEF Send, IInv, TypeOK, LoopState
<1>3. loops'[l].out = loops[l].out \ {x} /\ \A m \in Loop \ {l} : loops'[m] = loops[m]
  <2>1. CASE loops[l].out \ {x} = {}
    BY <1>1, <1>2, <2>1 DEF Idle
  <2>2. CASE loops[l].out \ {x} # {}
    BY <1>1, <1>2, <2>2 DEF LoopState
  <2>3. QED
    BY <2>1, <2>2
<1>4. \A y : (\E i \in 1..Len(queue') : y = queue'[i])
            <=> ((\E i \in 1..Len(queue) : y = queue[i]) \/ y = x)
  <2>1. /\ Len(queue) \in Nat /\ Len(queue') = Len(queue) + 1 /\ queue'[Len(queue')] = x
        /\ \A i \in 1..Len(queue) : queue'[i] = queue[i]
    BY <1>1, <1>2
  <2>2. /\ \A i \in 1..Len(queue') : i = Len(queue') \/ i \in 1..Len(queue)
        /\ 1..Len(queue) \subseteq 1..Len(queue') /\ Len(queue') \in 1..Len(queue')
    BY <2>1
  <2>3. QED
    BY <2>1, <2>2
<1>5. OnWay' = OnWay
  <2>1. ASSUME NEW y PROVE y \in OnWay' <=> y \in OnWay
    <3>1. CASE y = x
      BY <1>1, <1>4, <3>1, OnWayIs
    <3>2. CASE y # x
      <4>1. \A m \in Loop : y \in loops'[m].out <=> y \in loops[m].out
        BY <1>3, <3>2
      <4>2. QED
        BY <1>4, <3>2, <4>1, OnWayIs
    <3>3. QED
      BY <3>1, <3>2
  <2>2. QED
    BY <2>1
<1>6. Carried' = Carried
  BY <1>5, CarriedIs
<1>7. Fine' = Fine
  BY <1>2, <1>6 DEF Fine, Described
<1>8. RequestFine'
  BY <1>2 DEF AccountInv, RequestFine
<1>9. QED
  BY <1>2, <1>5, <1>7, <1>8, PlaceTypes, Accounted

\* A block goes on record with its rows; its tokens were accounted for.
LEMMA AccountWrite == ASSUME IInv, PlaceInv, AccountInv, Write PROVE AccountInv'
<1> DEFINE x == queue[1]
<1>1. /\ x \in OnWay /\ x \in Bundles
      /\ stored' = stored \cup {x.block} /\ rows' = UpsertRows(x.rows)
      /\ UNCHANGED <<chain, known, loops, tasks, refused, cut>>
  BY WriteFacts, OnWayIs DEF Write, IInv, TypeOK
<1>2. OnWay' \subseteq OnWay /\ OnWay \subseteq OnWay' \cup {x}
  <2>1. \A y : ((\E i \in 1..Len(queue') : y = queue'[i]) \/ y = x)
             <=> \E i \in 1..Len(queue) : y = queue[i]
    BY WriteFacts
  <2>2. QED
    BY <1>1, <2>1, OnWayIs
<1> HIDE DEF x
<1>3. Described \cup DOMAIN x.rows \subseteq Described'
  BY <1>1, BundleFacts, UpsertFacts DEF IInv, TypeOK
<1>4. Carried \subseteq Carried' \cup DOMAIN x.rows
  BY <1>2, CarriedIs
<1>5. Fine \subseteq Fine'
  BY <1>1, <1>3, <1>4 DEF Fine
<1>6. RequestFine' /\ WayFine'
  BY <1>1, <1>2, <1>5 DEF AccountInv, RequestFine, WayFine
<1>7. StoredFine'
  <2> SUFFICES ASSUME NEW b \in stored', NEW t \in Mentions[b], t \notin Fine'
               PROVE  \E c \in (1..chain) \ stored' : t \in Mentions[c]
    BY <1>1 DEF StoredFine
  <2>1. t \notin Mentions[x.block]
    BY <1>1, <1>5 DEF AccountInv, WayFine
  <2>2. b \in stored /\ t \notin Fine
    BY <1>1, <1>5, <2>1
  <2>3. PICK c \in (1..chain) \ stored : t \in Mentions[c]
    BY <2>2 DEF AccountInv, StoredFine
  <2>4. QED
    BY <1>1, <2>1, <2>3
<1>8. QED
  BY <1>6, <1>7 DEF AccountInv

\* A row that is lost on its way is lost with a block that is asked for again.
LEMMA AccountRestart == ASSUME IInv, PlaceInv, AccountInv, Restart PROVE AccountInv'
<1>1. /\ loops' \in Started(stored, chain) /\ tasks' = {} /\ queue' = <<>>
      /\ UNCHANGED <<chain, stored, rows, refused, cut>>
  BY DEF Restart
<1>2. \A l \in Loop : loops'[l].out = {}
  <2>1. PICK at \in [Loop -> 0..(MaxHead + 1)] : loops' = [l \in Loop |-> Idle(at[l])]
    BY <1>1 DEF Started
  <2>2. QED
    BY <2>1 DEF Idle
<1>3. OnWay' = {}
  BY <1>1, <1>2 DEF OnWay
<1>4. Fine \subseteq Fine' \cup Carried
  BY <1>1 DEF Fine, Described
<1>5. \A t \in Carried : \E c \in (1..chain) \ stored : t \in Mentions[c]
  BY CarriedIs, OnWayFacts
<1>6. StoredFine'
  <2> SUFFICES ASSUME NEW b \in stored, NEW t \in Mentions[b], t \notin Fine'
               PROVE  \E c \in (1..chain) \ stored : t \in Mentions[c]
    BY <1>1 DEF StoredFine
  <2>1. CASE t \in Fine
    BY <1>4, <1>5, <2>1
  <2>2. CASE t \notin Fine
    BY <2>2 DEF AccountInv, StoredFine
  <2>3. QED
    BY <2>1, <2>2
<1>7. QED
  BY <1>1, <1>3, <1>6 DEF AccountInv, RequestFine, WayFine

LEMMA NextAccount ==
  IInv /\ IInv' /\ PlaceInv /\ AccountInv /\ [Next]_vars => AccountInv'
<1> SUFFICES ASSUME IInv, IInv', PlaceInv, AccountInv, [Next]_vars PROVE AccountInv'
  OBVIOUS
<1>1. CASE \/ Grow
           \/ \E stale \in SUBSET Described : RepairRead(stale)
           \/ \E some \in SUBSET repair.stale :
                \E fetched \in [some -> repair.asked..chain] : RepairSave(fetched)
  BY <1>1, AccountMove
<1>2. ASSUME NEW l \in Loop, BeginRange(l) \/ Spawn(l) \/ EndRange(l) \/ Send(l)
      PROVE  AccountInv'
  BY <1>2, AccountMove, AccountEnd, AccountSend
<1>3. ASSUME NEW task \in tasks,
             \/ \E got \in SUBSET task.nums : Look(task, got)
             \/ \E fetched \in [task.wanted -> task.asked..chain] : Answer(task, fetched)
             \/ Refuse(task)
      PROVE  AccountInv'
  BY <1>3, AccountTask
<1>4. CASE Write
  BY <1>4, AccountWrite
<1>5. CASE Restart
  BY <1>5, AccountRestart
<1>6. CASE UNCHANGED vars
  BY <1>6 DEF vars, AccountInv, RequestFine, WayFine, StoredFine, OnWay, Fine, Described, Carried
<1>7. QED
  BY <1>1, <1>2, <1>3, <1>4, <1>5, <1>6 DEF Next

\* With everything indexed nothing is on its way, and no block is to come.
LEMMA AllAccounted == IInv /\ PlaceInv /\ AccountInv => MentionedIsDescribed
<1> SUFFICES ASSUME IInv, PlaceInv, AccountInv, AllIndexed, NEW b \in stored, NEW t \in Mentions[b]
             PROVE  t \in Described \cup refused \cup cut
  BY DEF MentionedIsDescribed
<1>1. (1..chain) \ stored = {}
  BY DEF AllIndexed
<1>2. t \in Fine
  BY <1>1 DEF AccountInv, StoredFine
<1>3. OnWay = {}
  BY <1>1, OnWayFacts
<1>4. Carried = {}
  BY <1>3, CarriedIs
<1>5. QED
  BY <1>2, <1>4 DEF Fine

-----------------------------------------------------------------------------
(***************************************************************************)
(* Theorems.                                                               *)
(***************************************************************************)

\* The variables keep their types: every bundle carries rows of the tokens
\* its block mentions, each read at a head the chain had.
THEOREM TypeCorrect == Spec => []TypeOK
<1>1. IInv => TypeOK
  BY DEF IInv
<1>2. QED
  BY <1>1, Invariance, PTL

\* A token that is not asked for again has a row, or one on its way to the
\* writer, or lost it with a block that was cut off (attach_token_metadata).
THEOREM KnownAreCarried == Spec => []KnownIsCarried
<1>1. IInv => KnownIsCarried
  BY DEF IInv
<1>2. QED
  BY <1>1, Invariance, PTL

\* With everything indexed every token the blocks mention has its row, but for
\* those the node did not answer for and those cut off (attach_token_metadata),
\* whatever the tasks leave to one another and wherever a crash cuts them short.
THEOREM MentionedAreDescribed == Spec => []MentionedIsDescribed
<1>1. Spec => []PlaceInv
  BY InitPlace, NextPlace, Invariance, PTL DEF Spec
<1>2. Spec => []AccountInv
  BY InitAccount, NextAccount, Invariance, <1>1, PTL DEF Spec
<1>3. QED
  BY AllAccounted, Invariance, <1>1, <1>2, PTL

-----------------------------------------------------------------------------
(***************************************************************************)
(* BatchCall.                                                              *)
(***************************************************************************)
\* What a request under way asks: both views of every token it is about, or the
\* balance at genesis of every contract it is about.
CallsOK(for, calls) ==
  /\ for \in {"tokens", "repair"} => \A i \in DOMAIN calls :
       /\ \E v \in Range(Views) : calls[i] = Call(calls[i][1], v)
       /\ \A v \in Range(Views) : \E j \in DOMAIN calls : calls[j] = Call(calls[i][1], v)
  /\ for = "balances" => \A i \in DOMAIN calls : calls[i] = Call(calls[i][1], "balance")

BatchInv == CallsOK(request.for, request.calls) /\ EachItsOwnAnswer

\* The two views there are.
LEMMA TheViews ==
  /\ Range(Views) = {"name", "symbol"} /\ Len(Views) = 2
  /\ Views[1] = "name" /\ Views[2] = "symbol"
BY DEF Views, Range

\* What is asked about is a list.
LEMMA AskedIsSeq ==
  ASSUME NEW asked \in Asked
  PROVE  Len(asked) \in Nat /\ DOMAIN asked = 1..Len(asked)
<1>1. PICK m \in 0..Cardinality(Contracts) : asked \in [1..m -> Contracts]
  BY DEF Asked, BoundedSeq, SeqOf
<1>2. m \in Nat
  BY <1>1
<1>3. asked \in Seq(Contracts)
  BY <1>1, <1>2
<1>4. QED
  BY <1>3

\* The calls for a list of tokens are both views of each, whatever its length.
LEMMA ViewCallsOK ==
  ASSUME NEW asked \in Asked, NEW for \in {"tokens", "repair"}
  PROVE  CallsOK(for, ViewCalls(asked))
<1> DEFINE calls == ViewCalls(asked)
           token(k) == asked[(k + 1) \div 2]
<1>1. /\ Len(asked) \in Nat /\ DOMAIN calls = 1..(2 * Len(asked))
      /\ \A k \in DOMAIN calls : calls[k] = <<token(k), Views[2 - (k % 2)]>>
  BY AskedIsSeq DEF ViewCalls, Call
<1> HIDE DEF calls
<1>2. ASSUME NEW k \in 1..(2 * Len(asked))
      PROVE  /\ calls[k] = <<token(k), Views[2 - (k % 2)]>>
             /\ 2 - (k % 2) \in {1, 2}
             /\ \E i \in 1..Len(asked) : (k + 1) \div 2 = i
  BY <1>1
<1>3. ASSUME NEW k \in DOMAIN calls
      PROVE  \E v \in Range(Views) : calls[k] = Call(calls[k][1], v)
  BY <1>1, <1>2, <1>3, TheViews DEF Call
<1>4. ASSUME NEW k \in DOMAIN calls, NEW v \in Range(Views)
      PROVE  \E j \in DOMAIN calls : calls[j] = Call(calls[k][1], v)
  <2>1. PICK i \in 1..Len(asked) : (k + 1) \div 2 = i
    BY <1>1, <1>2
  <2>2. PICK w \in {1, 2} : v = Views[w]
    BY TheViews
  <2> DEFINE j == 2 * i - 2 + w
  <2>3. j \in 1..(2 * Len(asked)) /\ (j + 1) \div 2 = i /\ 2 - (j % 2) = w
    <3>1. CASE w = 1
      BY <1>1, <3>1
    <3>2. CASE w = 2
      BY <1>1, <3>2
    <3>3. QED
      BY <3>1, <3>2
  <2> HIDE DEF j
  <2>4. calls[j] = <<asked[i], v>> /\ calls[k][1] = asked[i]
    <3>1. calls[j] = <<token(j), Views[2 - (j % 2)]>> /\ calls[k] = <<token(k), Views[2 - (k % 2)]>>
      BY <1>1, <2>3
    <3>2. token(j) = asked[i] /\ token(k) = asked[i] /\ Views[2 - (j % 2)] = v
      BY <2>1, <2>2, <2>3
    <3> HIDE DEF token
    <3>3. QED
      BY <3>1, <3>2
  <2>5. QED
    BY <1>1, <2>3, <2>4 DEF Call
<1>5. QED
  BY <1>3, <1>4 DEF CallsOK, calls

\* A result is what the node says of its call, or no answer: null or an error.
LEMMA EachResult ==
  ASSUME NEW calls, NEW items, NEW i \in DOMAIN calls
  PROVE  Results(calls, items)[i] \in {Says(calls[i]), Null, Failed}
<1>1. ASSUME NEW item
      PROVE  Outcome(item, calls[i]) \in {Says(calls[i]), Null, Failed}
  BY DEF Outcome
<1>2. QED
  BY <1>1 DEF Results

\* The rows of an answer hold what the node said of their views, or nothing.
LEMMA RowsAreAnswers ==
  ASSUME BatchInv, request.for \in {"tokens", "repair"}, NEW items,
         NEW c \in DOMAIN TokenRows(Results(request.calls, items)), NEW v \in Range(Views)
  PROVE  TokenRows(Results(request.calls, items))[c][v] \in {Silent, Says(Call(c, v))}
<1> DEFINE calls == request.calls
           results == Results(calls, items)
           At(u) == CHOOSE i \in DOMAIN calls : calls[i] = Call(c, u)
<1>1. PICK k \in DOMAIN calls : c = calls[k][1]
  BY DEF TokenRows, Range
<1>2. ASSUME NEW u \in Range(Views)
      PROVE  At(u) \in DOMAIN calls /\ calls[At(u)] = Call(c, u)
  <2>1. \E i \in DOMAIN calls : calls[i] = Call(c, u)
    BY <1>1 DEF BatchInv, CallsOK
  <2>2. QED
    BY <2>1
<1>3. ASSUME NEW u \in Range(Views)
      PROVE  Text(results[At(u)]) \in {Silent, Says(Call(c, u))}
  <2>1. results[At(u)] \in {Says(calls[At(u)]), Null, Failed}
    BY <1>2, EachResult
  <2>2. QED
    BY <1>2, <2>1 DEF Text
<1>4. TokenRows(results)[c] = [name |-> Text(results[At("name")]), symbol |-> Text(results[At("symbol")])]
  BY DEF TokenRows
<1> HIDE DEF At, results, calls
<1>5. TokenRows(results)[c][v] = Text(results[At(v)])
  BY <1>4, TheViews
<1>6. QED
  BY <1>3, <1>5 DEF results, calls

\* A row takes its fields from the results of its own calls.
LEMMA TokensStep == ASSUME BatchInv, NEW items, TokensAnswered(items) PROVE BatchInv'
<1> DEFINE found == TokenRows(Results(request.calls, items))
<1>1. /\ request.for \in {"tokens", "repair"} /\ described' = Upsert(found)
      /\ request' = NoRequest /\ UNCHANGED <<node, opening, unsaid>>
  BY DEF TokensAnswered
<1>2. ASSUME NEW c \in DOMAIN found, NEW v \in Range(Views)
      PROVE  found[c][v] \in {Silent, Says(Call(c, v))}
  BY <1>1, RowsAreAnswers
<1> HIDE DEF found
<1>3. PICK saved \in SUBSET DOMAIN found :
        Upsert(found) = [c \in saved \cup DOMAIN described |->
                           IF c \in saved THEN found[c] ELSE described[c]]
  BY DEF Upsert
<1>4. ASSUME NEW c \in DOMAIN described', NEW v \in Range(Views)
      PROVE  described'[c][v] \in {Silent, Says(Call(c, v))}
  <2>1. described'[c] = IF c \in saved THEN found[c] ELSE described[c]
    BY <1>1, <1>3
  <2>2. c \in saved \/ c \in DOMAIN described
    BY <1>1, <1>3
  <2>3. QED
    BY <1>2, <1>3, <2>1, <2>2 DEF BatchInv, EachItsOwnAnswer
<1>5. \A call : Says(call)' = Says(call)
  BY <1>1 DEF Says
<1>6. EachItsOwnAnswer'
  BY <1>1, <1>4, <1>5 DEF BatchInv, EachItsOwnAnswer
<1>7. QED
  BY <1>1, <1>6 DEF BatchInv, CallsOK, NoRequest

\* A page of balances is stored when each was read.
LEMMA BalancesStep == ASSUME BatchInv, NEW items, BalancesAnswered(items) PROVE BatchInv'
<1> DEFINE calls == request.calls
           results == Results(calls, items)
           At(c) == CHOOSE i \in DOMAIN calls : calls[i][1] = c
           asked == {call[1] : call \in Range(calls)}
<1>1. /\ request.for = "balances" /\ Failed \notin Range(results)
      /\ opening' = [c \in asked \cup DOMAIN opening |->
                       IF c \in asked THEN BalanceOf(results[At(c)]) ELSE opening[c]]
      /\ unsaid' = (unsaid \ asked) \cup {c \in asked : results[At(c)] = Null}
      /\ request' = NoRequest /\ UNCHANGED <<node, described>>
  BY DEF BalancesAnswered
<1>2. ASSUME NEW c \in asked
      PROVE  results[At(c)] \in {Says(Call(c, "balance")), Null}
  <2>1. \E i \in DOMAIN calls : calls[i][1] = c
    BY DEF Range
  <2>2. At(c) \in DOMAIN calls /\ calls[At(c)][1] = c
    BY <2>1
  <2>3. calls[At(c)] = Call(c, "balance")
    BY <1>1, <2>2 DEF BatchInv, CallsOK
  <2>4. results[At(c)] \in {Says(calls[At(c)]), Null, Failed}
    BY <2>2, EachResult
  <2>5. results[At(c)] \in Range(results)
    BY <2>2 DEF Range, Results
  <2>6. QED
    BY <1>1, <2>3, <2>4, <2>5
<1> HIDE DEF asked, At, results
<1>3. ASSUME NEW c \in DOMAIN opening'
      PROVE  opening'[c] = IF c \in unsaid' THEN Silent ELSE BalanceOf(Says(Call(c, "balance")))
  <2>1. CASE c \in asked
    <3>1. opening'[c] = BalanceOf(results[At(c)]) /\ (c \in unsaid' <=> results[At(c)] = Null)
      BY <1>1, <2>1
    <3>2. QED
      BY <1>2, <2>1, <3>1 DEF BalanceOf
  <2>2. CASE c \notin asked
    <3>1. c \in DOMAIN opening /\ opening'[c] = opening[c] /\ (c \in unsaid' <=> c \in unsaid)
      BY <1>1, <1>3, <2>2
    <3>2. QED
      BY <3>1 DEF BatchInv, EachItsOwnAnswer
  <2>3. QED
    BY <2>1, <2>2
<1>4. \A call : Says(call)' = Says(call)
  BY <1>1 DEF Says
<1>5. EachItsOwnAnswer'
  BY <1>1, <1>3, <1>4 DEF BatchInv, EachItsOwnAnswer, BalanceOf
<1>6. QED
  BY <1>1, <1>5 DEF BatchInv, CallsOK, NoRequest

\* A request is made, or comes to nothing: what is stored stays as it was.
LEMMA RequestStep ==
  ASSUME BatchInv, Refused \/ \E asked \in Asked : AskTokens(asked) \/ AskRepair(asked) \/ AskBalances(asked)
  PROVE  BatchInv'
<1>1. UNCHANGED <<node, described, opening, unsaid>>
  BY DEF Refused, AskTokens, AskRepair, AskBalances
<1>2. \A call : Says(call)' = Says(call)
  BY <1>1 DEF Says
<1>3. EachItsOwnAnswer'
  BY <1>1, <1>2 DEF BatchInv, EachItsOwnAnswer, BalanceOf
<1>4. CallsOK(request.for, request.calls)'
  <2>1. CASE Refused
    BY <2>1 DEF Refused, NoRequest, CallsOK
  <2>2. ASSUME NEW asked \in Asked, AskTokens(asked) \/ AskRepair(asked)
        PROVE  CallsOK(request'.for, request'.calls)
    BY <2>2, ViewCallsOK DEF AskTokens, AskRepair
  <2>3. ASSUME NEW asked \in Asked, AskBalances(asked)
        PROVE  CallsOK(request'.for, request'.calls)
    BY <2>3 DEF AskBalances, CallsOK, Call
  <2>4. QED
    BY <2>1, <2>2, <2>3 DEF CallsOK
<1>5. QED
  BY <1>3, <1>4 DEF BatchInv

\* What the theorem about BatchCall follows from.
LEMMA BatchInvariance == BatchSpec => []BatchInv
<1>1. BatchInit => BatchInv
  BY DEF BatchInit, BatchInv, CallsOK, NoRequest, EachItsOwnAnswer
<1>2. BatchInv /\ [BatchNext]_batchVars => BatchInv'
  <2> SUFFICES ASSUME BatchInv, [BatchNext]_batchVars PROVE BatchInv'
    OBVIOUS
  <2>1. CASE UNCHANGED batchVars
    BY <2>1 DEF batchVars, BatchInv, CallsOK, EachItsOwnAnswer, Says, BalanceOf
  <2>2. CASE BatchNext
    BY <2>2, TokensStep, BalancesStep, RequestStep DEF BatchNext
  <2>3. QED
    BY <2>1, <2>2
<1>3. QED
  BY <1>1, <1>2, PTL DEF BatchSpec

\* However the node's answers come, with items missing, failed, empty or out of
\* order, what is stored is the node's answer to that very call or the default,
\* and a genesis balance is the default without the node saying so only where an item had
\* neither result nor error (batch_call puts results in the order of the calls
\* by id; balances_at_genesis fails the page on any error but a revert).
THEOREM AnswersGoToTheirCalls == BatchSpec => []EachItsOwnAnswer
<1>1. BatchInv => EachItsOwnAnswer
  BY DEF BatchInv
<1>2. QED
  BY <1>1, BatchInvariance, PTL
=============================================================================
