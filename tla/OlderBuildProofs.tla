-------------------------- MODULE OlderBuildProofs --------------------------
(***************************************************************************)
(* Proofs about what is done for a database an older build left: Anchoring *)
(* (no block on record behind the watermark lacks its rows) and            *)
(* OldDatabase (the counters and the balances are brought up to date).     *)
(***************************************************************************)
EXTENDS Anchoring, OldDatabase, FiniteSetTheorems, TLAPS

\* A window starts behind the watermark or right after it, and within the head.
WindowOK ==
  task.pc \in {"ask", "save"} => task.from <= watermark + 1 /\ task.from <= task.head

AnchoringInv == TypeOK /\ WindowOK /\ RowsBehindWatermark

\* A window ends within the head, at or after its first block.
LEMMA ToFacts ==
  ASSUME TypeOK, task.from <= task.head
  PROVE  /\ To \in Nat /\ task.from <= To /\ To <= task.head
BY AnchoringAssumption DEF TypeOK, To

\* A fresh task over the blocks an older build left satisfies the invariant.
LEMMA InitAnchoring == Init => AnchoringInv
<1> SUFFICES ASSUME Init PROVE AnchoringInv
  OBVIOUS
<1>1. /\ Starting \in [pc : {"start", "ask", "save", "done", "failed"}, from : 0..(MaxHead + 1),
                       window : 1..Window, head : 0..MaxHead]
      /\ Starting.pc = "start"
  BY AnchoringAssumption DEF Starting
<1>2. TypeOK
  BY <1>1, AnchoringAssumption DEF Init, TypeOK, Block
<1>3. RowsBehindWatermark
  BY AnchoringAssumption DEF Init, RowsBehindWatermark
<1>4. QED
  BY <1>1, <1>2, <1>3 DEF Init, AnchoringInv, WindowOK

\* The task reads the watermark and the head, and begins right behind the one.
LEMMA StartStep ==
  ASSUME AnchoringInv, NEW head \in 0..chain, Start(head)
  PROVE  AnchoringInv'
<1>1. /\ watermark \in 0..MaxHead /\ chain \in FirstHead..MaxHead /\ Window \in 1..Window
      /\ head \in 0..MaxHead /\ head \in Nat
  BY AnchoringAssumption DEF AnchoringInv, TypeOK
<1>2. UNCHANGED <<chain, stored, rows, watermark, restarts>>
  BY DEF Start
<1>3. CASE watermark >= head
  <2>1. task' = [task EXCEPT !.pc = "done"]
    BY <1>3 DEF Start
  <2>2. QED
    BY <1>2, <2>1 DEF AnchoringInv, TypeOK, WindowOK, RowsBehindWatermark
<1>4. CASE ~(watermark >= head)
  <2>1. task' = [pc |-> "ask", from |-> watermark, window |-> Window, head |-> head]
    BY <1>4 DEF Start
  <2>2. watermark \in 0..(MaxHead + 1) /\ watermark <= head /\ watermark <= watermark + 1
    BY <1>1, <1>4, AnchoringAssumption
  <2>3. QED
    BY <1>1, <1>2, <2>1, <2>2 DEF AnchoringInv, TypeOK, WindowOK, RowsBehindWatermark
<1>5. QED
  BY <1>3, <1>4

\* A refused window is asked for again, shorter or not at all.
LEMMA RefuseStep == AnchoringInv /\ Refuse => AnchoringInv'
<1> SUFFICES ASSUME AnchoringInv, Refuse PROVE AnchoringInv'
  OBVIOUS
<1>1. UNCHANGED <<chain, stored, rows, watermark, restarts>>
  BY DEF Refuse
<1>2. CASE task.window = 1
  <2>1. task' = [task EXCEPT !.pc = "failed"]
    BY <1>2 DEF Refuse
  <2>2. QED
    BY <1>1, <2>1 DEF AnchoringInv, TypeOK, WindowOK, RowsBehindWatermark
<1>3. CASE task.window # 1
  <2>1. task' = [task EXCEPT !.window = task.window \div 2]
    BY <1>3 DEF Refuse
  <2>2. task.window \in 1..Window /\ Window \in Nat
    BY AnchoringAssumption DEF AnchoringInv, TypeOK
  <2>3. task.window \div 2 \in 1..Window
    BY <1>3, <2>2
  <2>4. QED
    BY <1>1, <2>1, <2>3 DEF AnchoringInv, TypeOK, WindowOK, RowsBehindWatermark
<1>4. QED
  BY <1>2, <1>3

\* The saved window joins what is behind the watermark, so the rows of every
\* block up to its end are on record.
LEMMA SaveStep == AnchoringInv /\ Save => AnchoringInv'
<1> SUFFICES ASSUME AnchoringInv, Save PROVE AnchoringInv'
  OBVIOUS
<1>1. /\ task.pc = "save"
      /\ rows' = rows \cup ((task.from..To) \cap stored)
      /\ watermark' = To
      /\ task' = [task EXCEPT !.pc = IF To + 1 > task.head THEN "done" ELSE "ask",
                              !.from = To + 1]
      /\ UNCHANGED <<chain, stored, restarts>>
  BY DEF Save, SaveWindow
<1>2. /\ task.from <= watermark + 1 /\ task.from <= task.head
      /\ task.from \in Nat /\ task.head \in 0..MaxHead /\ watermark \in Nat
      /\ stored \subseteq Nat
  BY <1>1 DEF AnchoringInv, TypeOK, WindowOK, Block
<1>3. To \in Nat /\ task.from <= To /\ To <= task.head
  BY <1>2, ToFacts DEF AnchoringInv
<1> DEFINE pc == IF To + 1 > task.head THEN "done" ELSE "ask"
<1>4. To \in 0..MaxHead /\ To + 1 \in 0..(MaxHead + 1) /\ pc \in {"ask", "done"}
  BY <1>2, <1>3, AnchoringAssumption
<1>5. task' = [task EXCEPT !.pc = pc, !.from = To + 1] /\ (pc = "ask" => To + 1 <= task.head)
  BY <1>1, <1>2, <1>3
<1> HIDE DEF pc
<1>6. TypeOK'
  BY <1>1, <1>4, <1>5 DEF AnchoringInv, TypeOK
<1>7. WindowOK'
  BY <1>1, <1>3, <1>4, <1>5 DEF AnchoringInv, TypeOK, WindowOK
<1>8. RowsBehindWatermark'
  <2> SUFFICES ASSUME NEW n \in stored, n <= To PROVE n \in rows'
    BY <1>1 DEF RowsBehindWatermark
  <2>1. CASE n <= watermark
    BY <1>1, <2>1 DEF AnchoringInv, RowsBehindWatermark
  <2>2. CASE ~(n <= watermark)
    <3>1. n \in task.from..To
      BY <1>2, <1>3, <2>2
    <3>2. QED
      BY <1>1, <3>1
  <2>3. QED
    BY <2>1, <2>2
<1>9. QED
  BY <1>6, <1>7, <1>8 DEF AnchoringInv

\* The chain, the writer and a restart leave the task and its rows alone or
\* bring rows of their own.
LEMMA NextInv == AnchoringInv /\ [Next]_vars => AnchoringInv'
<1> SUFFICES ASSUME AnchoringInv, [Next]_vars PROVE AnchoringInv'
  OBVIOUS
<1>1. CASE Grow
  BY <1>1, AnchoringAssumption DEF Grow, AnchoringInv, TypeOK, WindowOK, RowsBehindWatermark
<1>2. ASSUME NEW n \in Block, IndexBlock(n) PROVE AnchoringInv'
  BY <1>2, AnchoringAssumption DEF IndexBlock, AnchoringInv, TypeOK, WindowOK, RowsBehindWatermark
<1>3. ASSUME NEW head \in 0..chain, Start(head) PROVE AnchoringInv'
  BY <1>3, StartStep
<1>4. CASE Answer
  BY <1>4 DEF Answer, AnchoringInv, TypeOK, WindowOK, RowsBehindWatermark
<1>5. CASE Refuse
  BY <1>5, RefuseStep
<1>6. CASE Save
  BY <1>6, SaveStep
<1>7. CASE Fail
  BY <1>7 DEF Fail, AnchoringInv, TypeOK, WindowOK, RowsBehindWatermark
<1>8. CASE Restart
  <2>1. /\ Starting \in [pc : {"start", "ask", "save", "done", "failed"}, from : 0..(MaxHead + 1),
                         window : 1..Window, head : 0..MaxHead]
        /\ Starting.pc = "start"
    BY AnchoringAssumption DEF Starting
  <2>2. restarts' \in 0..RestartLimit
    BY <1>8, AnchoringAssumption DEF Restart, AnchoringInv, TypeOK
  <2>3. QED
    BY <1>8, <2>1, <2>2 DEF Restart, AnchoringInv, TypeOK, WindowOK, RowsBehindWatermark
<1>9. CASE UNCHANGED vars
  BY <1>9 DEF vars, AnchoringInv, TypeOK, WindowOK, RowsBehindWatermark, To
<1>10. QED
  BY <1>1, <1>2, <1>3, <1>4, <1>5, <1>6, <1>7, <1>8, <1>9 DEF Next

\* What the theorems about Anchoring follow from.
LEMMA Invariance == Spec => []AnchoringInv
BY InitAnchoring, NextInv, PTL DEF Spec

\* The backfill's variables keep their types: its window never shrinks to
\* nothing, and no row is written for a block that is not on record.
THEOREM TypeCorrect == Spec => []TypeOK
<1>1. AnchoringInv => TypeOK
  BY DEF AnchoringInv
<1>2. QED
  BY <1>1, Invariance, PTL

\* No block on record behind the watermark lacks its rows (backfill_anchoring
\* skips blocks not indexed yet, and never goes back).
THEOREM RowsAreComplete == Spec => []RowsBehindWatermark
<1>1. AnchoringInv => RowsBehindWatermark
  BY DEF AnchoringInv
<1>2. QED
  BY <1>1, Invariance, PTL

-----------------------------------------------------------------------------
(***************************************************************************)
(* OldDatabase.                                                            *)
(***************************************************************************)
Tables == {"blocks", "transactions"}
Complete(kept, blocks) ==
  \E kind \in Kinds : kept = [k \in Kinds |-> IF k = kind THEN SumsOf(blocks) ELSE NoBalances]

OldTypes ==
  /\ written \in SUBSET Blocks
  /\ bal \in [Kinds -> [Holders -> Nat]]
  /\ converted \in BOOLEAN /\ built \in BOOLEAN
  /\ holders \in Nat
  /\ stage \in Tables \cup {"keys", "run"}
  /\ mending \in {"look", "rebuild", "recount", "done", "failed"}

\* A counter is right from when it is there, and there once its table was passed.
Counted ==
  /\ \A t \in DOMAIN counters : t \in Tables /\ counters[t] = Rows(t, written)
  /\ stage # "blocks" => "blocks" \in DOMAIN counters
  /\ stage \in {"keys", "run"} => "transactions" \in DOMAIN counters

\* The keys are converted before anything else runs, and balances once complete
\* stay so under the one kind of key or the other.
Kept ==
  /\ stage = "run" => converted
  /\ mending # "look" => stage = "run"
  /\ built => /\ Complete(bal, written)
              /\ converted => bal = [text |-> NoBalances, blob |-> SumsOf(written)]
              /\ holders = HoldersIn(SumsOf(written))

OldInv == OldTypes /\ Counted /\ Kept

-----------------------------------------------------------------------------
\* The values a function takes on a finite set are finitely many.
LEMMA ImageFinite ==
  ASSUME NEW S, IsFiniteSet(S), NEW f
  PROVE  IsFiniteSet({f[x] : x \in S})
<1> DEFINE T == {f[x] : x \in S}
           g == [x \in S |-> f[x]]
<1>1. g \in Surjection(S, T)
  BY DEF Surjection
<1> HIDE DEF T, g
<1>2. QED
  BY <1>1, FS_Surjection DEF T

\* Blocks on record and their transactions are finitely many.
LEMMA TxsFinite ==
  ASSUME NEW S \in SUBSET Blocks
  PROVE  IsFiniteSet(S) /\ IsFiniteSet(TxsOfBlocks(S))
<1>1. IsFiniteSet(S)
  BY FS_Subset, OldDatabaseAssumption
<1> DEFINE parts == {{b} \X (1..Txs[b]) : b \in S}
<1>2. \A part \in parts : IsFiniteSet(part)
  <2> SUFFICES ASSUME NEW b \in S PROVE IsFiniteSet({b} \X (1..Txs[b]))
    OBVIOUS
  <2>1. Txs[b] \in Int /\ 1 \in Int
    BY OldDatabaseAssumption
  <2>2. IsFiniteSet(1..Txs[b]) /\ IsFiniteSet({b})
    BY <2>1, FS_Interval, FS_Singleton
  <2>3. QED
    BY <2>2, FS_Product
<1>3. IsFiniteSet(parts)
  <2> DEFINE part == [b \in S |-> {b} \X (1..Txs[b])]
  <2>1. parts = {part[b] : b \in S}
    OBVIOUS
  <2> HIDE DEF part, parts
  <2>2. QED
    BY <1>1, <2>1, ImageFinite
<1> HIDE DEF parts
<1>4. IsFiniteSet(UNION parts)
  BY <1>2, <1>3, FS_UNION
<1>5. QED
  BY <1>1, <1>4 DEF parts, TxsOfBlocks

\* A table has a number of rows.
LEMMA RowsType ==
  ASSUME NEW S \in SUBSET Blocks, NEW t
  PROVE  Rows(t, S) \in Nat
BY TxsFinite, FS_CardinalityType DEF Rows

\* A block new to a table adds its own rows.
LEMMA RowsAdd ==
  ASSUME NEW S \in SUBSET Blocks, NEW b \in Blocks, b \notin S, NEW t
  PROVE  Rows(t, S \cup {b}) = Rows(t, S) + Rows(t, {b})
<1> DEFINE of(B) == IF t = "blocks" THEN B ELSE TxsOfBlocks(B)
<1>1. IsFiniteSet(of(S)) /\ IsFiniteSet(of({b}))
  BY TxsFinite
<1>2. of(S \cup {b}) = of(S) \cup of({b})
  BY DEF TxsOfBlocks
<1>3. of(S) \cap of({b}) = {}
  BY DEF TxsOfBlocks
<1> HIDE DEF of
<1>4. /\ Cardinality(of(S) \cup of({b}))
           = Cardinality(of(S)) + Cardinality(of({b})) - Cardinality(of(S) \cap of({b}))
      /\ Cardinality(of(S)) \in Nat /\ Cardinality(of({b})) \in Nat
  BY <1>1, FS_Union, FS_CardinalityType
<1>5. Cardinality(of(S) \cap of({b})) = 0
  BY <1>3, FS_EmptySet
<1>6. Cardinality(of(S \cup {b})) = Cardinality(of(S)) + Cardinality(of({b}))
  <2>1. Cardinality(of(S \cup {b})) = Cardinality(of(S) \cup of({b}))
    BY <1>2
  <2>2. QED
    BY <1>4, <1>5, <2>1
<1>7. QED
  BY <1>6 DEF Rows, of

\* A block paid to a holder adds one to what it has, and to nobody else's.
LEMMA SumsAdd ==
  ASSUME NEW S \in SUBSET Blocks, NEW b \in Blocks, b \notin S
  PROVE  /\ SumsOf(S) \in [Holders -> Nat]
         /\ SumsOf(S \cup {b}) = [SumsOf(S) EXCEPT ![Paid[b]] = @ + 1]
<1> DEFINE of(B, h) == {c \in B : Paid[c] = h}
<1>1. ASSUME NEW h
      PROVE  /\ IsFiniteSet(of(S, h)) /\ Cardinality(of(S, h)) \in Nat
             /\ h = Paid[b] => Cardinality(of(S \cup {b}, h)) = Cardinality(of(S, h)) + 1
             /\ h # Paid[b] => of(S \cup {b}, h) = of(S, h)
  <2>1. IsFiniteSet(of(S, h))
    BY TxsFinite, FS_Subset
  <2>2. h = Paid[b] => of(S \cup {b}, h) = of(S, h) \cup {b} /\ b \notin of(S, h)
    OBVIOUS
  <2>3. h # Paid[b] => of(S \cup {b}, h) = of(S, h)
    OBVIOUS
  <2> HIDE DEF of
  <2>4. QED
    BY <2>1, <2>2, <2>3, FS_CardinalityType, FS_AddElement
<1>2. /\ SumsOf(S) = [h \in Holders |-> Cardinality(of(S, h))]
      /\ SumsOf(S \cup {b}) = [h \in Holders |-> Cardinality(of(S \cup {b}, h))]
  BY DEF SumsOf
<1> HIDE DEF of
<1>3. Paid[b] \in Holders
  BY DEF Holders
<1>4. QED
  BY <1>1, <1>2, <1>3

\* Those with a balance are finitely many, and so are counted.
LEMMA HoldersFinite ==
  ASSUME NEW kept
  PROVE  /\ IsFiniteSet(Holders) /\ IsFiniteSet({h \in Holders : kept[h] > 0})
         /\ HoldersIn(kept) \in Nat
<1>1. IsFiniteSet(Holders)
  BY ImageFinite, OldDatabaseAssumption DEF Holders
<1>2. IsFiniteSet({h \in Holders : kept[h] > 0})
  BY <1>1, FS_Subset
<1>3. QED
  BY <1>1, <1>2, FS_CardinalityType DEF HoldersIn

\* The writer's way of moving the holder count is right.
LEMMA HoldersAdd ==
  ASSUME NEW kept \in [Holders -> Nat], NEW h \in Holders
  PROVE  HoldersIn([kept EXCEPT ![h] = @ + 1])
           = IF kept[h] = 0 THEN HoldersIn(kept) + 1 ELSE HoldersIn(kept)
<1> DEFINE more == [kept EXCEPT ![h] = @ + 1]
           have == {g \in Holders : kept[g] > 0}
<1>1. {g \in Holders : more[g] > 0} = have \cup {h}
  OBVIOUS
<1>2. h \in have <=> kept[h] # 0
  OBVIOUS
<1> HIDE DEF have, more
<1>3. IsFiniteSet(have)
  BY HoldersFinite DEF have
<1>4. Cardinality(have \cup {h}) = IF h \in have THEN Cardinality(have) ELSE Cardinality(have) + 1
  BY <1>3, FS_AddElement
<1>5. HoldersIn(kept) = Cardinality(have) /\ HoldersIn(more) = Cardinality(have \cup {h})
  BY <1>1 DEF HoldersIn, have
<1>6. QED
  BY <1>2, <1>4, <1>5 DEF more

-----------------------------------------------------------------------------
\* The balances an older build may have left.
LEMMA NoneAndSums ==
  ASSUME NEW S \in SUBSET Blocks
  PROVE  /\ NoBalances \in [Holders -> Nat] /\ SumsOf(S) \in [Holders -> Nat]
         /\ HoldersIn(SumsOf(S)) \in Nat /\ HoldersIn(NoBalances) = 0
<1>1. SumsOf(S) \in [Holders -> Nat]
  <2> SUFFICES ASSUME NEW h \in Holders PROVE Cardinality({b \in S : Paid[b] = h}) \in Nat
    BY DEF SumsOf
  <2>1. IsFiniteSet({b \in S : Paid[b] = h})
    BY TxsFinite, FS_Subset
  <2>2. QED
    BY <2>1, FS_CardinalityType
<1>2. {h \in Holders : NoBalances[h] > 0} = {}
  BY DEF NoBalances
<1>3. QED
  BY <1>1, <1>2, HoldersFinite, FS_EmptySet DEF NoBalances, HoldersIn

\* Every database an older build may have left satisfies the invariant.
LEMMA InitOld == OldInit => OldInv
<1> SUFFICES ASSUME OldInit PROVE OldInv
  OBVIOUS
<1>1. written \in SUBSET Blocks /\ stage = "blocks" /\ mending = "look" /\ built \in BOOLEAN
  BY DEF OldInit
<1>2. Counted
  <2>1. ASSUME NEW t \in DOMAIN counters PROVE t \in Tables /\ counters[t] = Rows(t, written)
    <3>1. CASE counters = <<>>
      BY <2>1, <3>1
    <3>2. CASE counters = [u \in {"blocks", "transactions"} |-> Rows(u, written)]
      BY <2>1, <3>2 DEF Tables
    <3>3. QED
      BY <3>1, <3>2 DEF OldInit
  <2>2. QED
    BY <1>1, <2>1 DEF Counted
<1>3. /\ NoBalances \in [Holders -> Nat] /\ SumsOf(written) \in [Holders -> Nat]
      /\ HoldersIn(SumsOf(written)) \in Nat
  BY <1>1, NoneAndSums
<1>4. CASE built
  <2>1. PICK kind \in Kinds :
          /\ converted = (kind = "blob")
          /\ bal = [k \in Kinds |-> IF k = kind THEN SumsOf(written) ELSE NoBalances]
          /\ holders = HoldersIn(SumsOf(written))
    BY <1>4 DEF OldInit
  <2>2. Complete(bal, written)
    BY <2>1 DEF Complete
  <2>3. converted => bal = [text |-> NoBalances, blob |-> SumsOf(written)]
    BY <2>1 DEF Kinds
  <2>4. OldTypes
    BY <1>1, <1>3, <2>1 DEF OldTypes, Tables
  <2>5. QED
    BY <1>1, <1>2, <2>1, <2>2, <2>3, <2>4 DEF OldInv, Kept
<1>5. CASE ~built
  <2>1. bal = [k \in Kinds |-> NoBalances] /\ holders = 0 /\ converted = FALSE
    BY <1>5 DEF OldInit
  <2>2. OldTypes
    BY <1>1, <1>3, <2>1 DEF OldTypes, Tables
  <2>3. QED
    BY <1>1, <1>2, <1>5, <2>2 DEF OldInv, Kept
<1>6. QED
  BY <1>4, <1>5

\* A counter is seeded with the count of rows, or is there and right.
LEMMA SeedStep == ASSUME OldInv, NEW table \in Tables, SeedCounter(table) PROVE OldInv'
<1>1. /\ stage = table /\ stage' = After(table)
      /\ counters' = [t \in DOMAIN counters \cup {table} |->
                        IF t \in DOMAIN counters THEN counters[t] ELSE Rows(t, written)]
      /\ UNCHANGED <<written, bal, converted, holders, mending, built, starts>>
  BY DEF SeedCounter
<1>2. OldTypes'
  BY <1>1 DEF OldInv, OldTypes, After, Tables
<1>3. \A t \in DOMAIN counters' : t \in Tables /\ counters'[t] = Rows(t, written)
  BY <1>1 DEF OldInv, Counted
<1>4. Counted'
  <2>1. \A t : Rows(t, written)' = Rows(t, written)
    BY <1>1 DEF Rows
  <2>2. DOMAIN counters' = DOMAIN counters \cup {table}
    BY <1>1
  <2>3. table = "blocks" \/ "blocks" \in DOMAIN counters
    BY <1>1 DEF OldInv, Counted, Tables
  <2>4. QED
    BY <1>1, <1>3, <2>1, <2>2, <2>3 DEF Counted, After, Tables
<1>5. Kept'
  <2>1. mending = "look" /\ stage' # "run"
    BY <1>1 DEF OldInv, Kept, After, Tables
  <2>2. QED
    BY <1>1, <2>1 DEF OldInv, Kept, Complete
<1>6. QED
  BY <1>2, <1>4, <1>5 DEF OldInv

\* The two tables add up to the balances, as one of them is empty when they are
\* complete.
LEMMA KeysStep == ASSUME OldInv, BlobBalanceKeys PROVE OldInv'
<1>1. /\ stage = "keys" /\ stage' = "run" /\ converted' = TRUE
      /\ bal' = IF converted THEN bal
                ELSE [text |-> NoBalances, blob |-> [h \in Holders |-> bal["blob"][h] + bal["text"][h]]]
      /\ UNCHANGED <<written, counters, holders, mending, built, starts>>
  BY DEF BlobBalanceKeys
<1>2. /\ written \in SUBSET Blocks /\ bal \in [Kinds -> [Holders -> Nat]] /\ mending = "look"
      /\ NoBalances \in [Holders -> Nat] /\ SumsOf(written) \in [Holders -> Nat]
  BY <1>1, NoneAndSums DEF OldInv, OldTypes, Kept
<1>3. OldTypes'
  <2>1. bal["blob"] \in [Holders -> Nat] /\ bal["text"] \in [Holders -> Nat]
    BY <1>2 DEF Kinds
  <2>2. [h \in Holders |-> bal["blob"][h] + bal["text"][h]] \in [Holders -> Nat]
    BY <2>1
  <2>3. bal' \in [Kinds -> [Holders -> Nat]]
    BY <1>1, <1>2, <2>2 DEF Kinds
  <2>4. QED
    BY <1>1, <2>3 DEF OldInv, OldTypes
<1>4. Counted'
  BY <1>1 DEF OldInv, Counted, Rows, TxsOfBlocks
<1>5. ASSUME built PROVE bal' = [text |-> NoBalances, blob |-> SumsOf(written)]
  <2>1. CASE converted
    BY <1>1, <1>5, <2>1 DEF OldInv, Kept
  <2>2. CASE ~converted
    <3>1. PICK kind \in Kinds : bal = [k \in Kinds |-> IF k = kind THEN SumsOf(written) ELSE NoBalances]
      BY <1>5 DEF OldInv, Kept, Complete
    <3>2. \A h \in Holders : bal["blob"][h] + bal["text"][h] = SumsOf(written)[h]
      BY <1>2, <3>1 DEF Kinds, NoBalances
    <3>3. [h \in Holders |-> bal["blob"][h] + bal["text"][h]] = SumsOf(written)
      BY <1>2, <3>2
    <3>4. QED
      BY <1>1, <2>2, <3>3
  <2>3. QED
    BY <2>1, <2>2
<1>6. Kept'
  <2>1. built => Complete(bal', written)
    <3> SUFFICES ASSUME built PROVE Complete(bal', written)
      OBVIOUS
    <3>1. bal' = [k \in Kinds |-> IF k = "blob" THEN SumsOf(written) ELSE NoBalances]
      BY <1>5 DEF Kinds
    <3>2. QED
      BY <3>1 DEF Complete, Kinds
  <2>2. SumsOf(written)' = SumsOf(written) /\ HoldersIn(SumsOf(written))' = HoldersIn(SumsOf(written))
        /\ Complete(bal, written)' = Complete(bal', written)
    BY <1>1 DEF SumsOf, HoldersIn, Complete
  <2>3. QED
    BY <1>1, <1>2, <1>5, <2>1, <2>2 DEF OldInv, Kept
<1>7. QED
  BY <1>3, <1>4, <1>6 DEF OldInv

\* A block moves counters, balances and holder count by what it adds.
LEMMA WriteStep == ASSUME OldInv, NEW b \in Blocks, WriteNew(b) PROVE OldInv'
<1> DEFINE h == Paid[b]
           kept == bal["blob"]
<1>1. /\ stage = "run" /\ b \notin written /\ written' = written \cup {b}
      /\ counters' = [t \in DOMAIN counters |-> counters[t] + Rows(t, {b})]
      /\ bal' = [bal EXCEPT !["blob"] = [kept EXCEPT ![h] = @ + 1]]
      /\ holders' = IF kept[h] = 0 THEN holders + 1 ELSE holders
      /\ UNCHANGED <<converted, stage, mending, built, starts>>
  BY DEF WriteNew
<1>2. /\ written \in SUBSET Blocks /\ written' \in SUBSET Blocks
      /\ bal \in [Kinds -> [Holders -> Nat]] /\ kept \in [Holders -> Nat]
      /\ h \in Holders /\ converted /\ holders \in Nat
  BY <1>1 DEF OldInv, OldTypes, Kept, Kinds, Holders
<1>3. OldTypes'
  <2>1. [kept EXCEPT ![h] = @ + 1] \in [Holders -> Nat]
    BY <1>2
  <2>2. bal' \in [Kinds -> [Holders -> Nat]]
    BY <1>1, <1>2, <2>1
  <2>3. QED
    BY <1>1, <1>2, <2>2 DEF OldInv, OldTypes
<1>4. Counted'
  <2>1. \A t \in DOMAIN counters : t \in Tables /\ counters[t] = Rows(t, written)
    BY DEF OldInv, Counted
  <2>2. \A t \in DOMAIN counters' : t \in Tables /\ counters'[t] = Rows(t, written')
    BY <1>1, <1>2, <2>1, RowsAdd
  <2>3. DOMAIN counters' = DOMAIN counters
    BY <1>1
  <2>4. \A t : Rows(t, written)' = Rows(t, written')
    BY DEF Rows, TxsOfBlocks
  <2>5. QED
    BY <1>1, <2>2, <2>3, <2>4 DEF OldInv, Counted
<1>5. ASSUME built
      PROVE  /\ bal' = [text |-> NoBalances, blob |-> SumsOf(written')]
             /\ holders' = HoldersIn(SumsOf(written'))
  <2>1. bal = [text |-> NoBalances, blob |-> SumsOf(written)] /\ holders = HoldersIn(SumsOf(written))
    BY <1>2, <1>5 DEF OldInv, Kept
  <2>2. SumsOf(written) \in [Holders -> Nat] /\ SumsOf(written') = [SumsOf(written) EXCEPT ![h] = @ + 1]
    BY <1>1, <1>2, SumsAdd
  <2>3. kept = SumsOf(written)
    BY <2>1
  <2>4. holders' = HoldersIn(SumsOf(written'))
    <3> DEFINE sums == SumsOf(written)
    <3>1. sums \in [Holders -> Nat] /\ holders = HoldersIn(sums) /\ SumsOf(written') = [sums EXCEPT ![h] = @ + 1]
      BY <2>1, <2>2
    <3>2. holders' = IF sums[h] = 0 THEN HoldersIn(sums) + 1 ELSE HoldersIn(sums)
      BY <1>1, <2>3, <3>1
    <3> HIDE DEF sums, h
    <3>3. HoldersIn([sums EXCEPT ![h] = @ + 1]) = IF sums[h] = 0 THEN HoldersIn(sums) + 1 ELSE HoldersIn(sums)
      BY <1>2, <3>1, HoldersAdd
    <3>4. QED
      BY <3>1, <3>2, <3>3
  <2>5. bal' = [text |-> NoBalances, blob |-> SumsOf(written')]
    BY <1>1, <2>1, <2>2
  <2>6. QED
    BY <2>4, <2>5
<1>6. Kept'
  <2>1. built => Complete(bal', written')
    <3> SUFFICES ASSUME built PROVE Complete(bal', written')
      OBVIOUS
    <3>1. bal' = [k \in Kinds |-> IF k = "blob" THEN SumsOf(written') ELSE NoBalances]
      BY <1>5 DEF Kinds
    <3>2. QED
      BY <3>1 DEF Complete, Kinds
  <2>2. SumsOf(written)' = SumsOf(written') /\ (HoldersIn(SumsOf(written)))' = HoldersIn(SumsOf(written'))
        /\ Complete(bal, written)' = Complete(bal', written')
    BY DEF SumsOf, HoldersIn, Complete
  <2> HIDE DEF h, kept
  <2>3. QED
    BY <1>1, <1>2, <1>5, <2>1, <2>2 DEF OldInv, Kept
<1>7. QED
  BY <1>3, <1>4, <1>6 DEF OldInv

\* The repair's steps, and a start.
LEMMA MendStep ==
  ASSUME OldInv, LookAtTables \/ RebuildAll \/ RecountAll \/ MendFails \/ StartAgain
  PROVE  OldInv'
<1>1. /\ UNCHANGED <<written, counters, converted>> /\ written \in SUBSET Blocks
      /\ NoBalances \in [Holders -> Nat] /\ SumsOf(written) \in [Holders -> Nat]
      /\ HoldersIn(SumsOf(written)) \in Nat
  BY NoneAndSums DEF OldInv, OldTypes, LookAtTables, RebuildAll, RecountAll, MendFails, StartAgain
<1>2. stage' = stage \/ stage' = "blocks"
  BY DEF LookAtTables, RebuildAll, RecountAll, MendFails, StartAgain
<1>3. Counted'
  <2>1. \A t : Rows(t, written)' = Rows(t, written)
    BY <1>1 DEF Rows, TxsOfBlocks
  <2>2. QED
    BY <1>1, <1>2, <2>1 DEF OldInv, Counted
<1>4. /\ SumsOf(written)' = SumsOf(written) /\ HoldersIn(SumsOf(written))' = HoldersIn(SumsOf(written))
      /\ Complete(bal, written)' = Complete(bal', written)
  BY <1>1 DEF SumsOf, HoldersIn, Complete
<1>5. CASE LookAtTables \/ MendFails \/ StartAgain
  <2>1. /\ UNCHANGED <<bal, holders, built>>
        /\ mending' \in {"look", "rebuild", "recount", "done", "failed"}
        /\ stage' = "run" => converted
        /\ mending' # "look" => stage' = "run"
        /\ stage' \in Tables \cup {"keys", "run"}
    BY <1>5 DEF OldInv, OldTypes, Kept, LookAtTables, MendFails, StartAgain, Tables
  <2>2. OldTypes'
    BY <1>1, <2>1 DEF OldInv, OldTypes
  <2>3. Kept'
    BY <1>1, <1>4, <2>1 DEF OldInv, Kept
  <2>4. QED
    BY <1>3, <2>2, <2>3 DEF OldInv
<1>6. CASE RebuildAll
  <2>1. /\ bal' = [text |-> NoBalances, blob |-> SumsOf(written)] /\ built' = TRUE
        /\ holders' = HoldersIn(SumsOf(written)) /\ mending' = "done" /\ stage' = stage
        /\ stage = "run" /\ converted
    BY <1>6 DEF RebuildAll, OldInv, Kept
  <2>2. bal' = [k \in Kinds |-> IF k = "blob" THEN SumsOf(written) ELSE NoBalances]
    BY <2>1 DEF Kinds
  <2>3. Complete(bal', written) /\ bal' \in [Kinds -> [Holders -> Nat]]
    BY <1>1, <2>2 DEF Complete, Kinds
  <2>4. OldTypes'
    BY <1>1, <2>1, <2>3 DEF OldInv, OldTypes
  <2>5. Kept'
    BY <1>1, <1>4, <2>1, <2>3 DEF Kept
  <2>6. QED
    BY <1>3, <2>4, <2>5 DEF OldInv
<1>7. CASE RecountAll
  <2>1. /\ holders' = HoldersIn(bal["blob"]) /\ mending' = "done"
        /\ UNCHANGED <<bal, stage, built>> /\ stage = "run" /\ converted
    BY <1>7 DEF RecountAll, OldInv, Kept
  <2>2. built => bal["blob"] = SumsOf(written)
    BY <2>1 DEF OldInv, Kept
  <2>3. holders' \in Nat
    BY <2>1, HoldersFinite
  <2>4. OldTypes'
    BY <1>1, <2>1, <2>3 DEF OldInv, OldTypes
  <2>5. Kept'
    BY <1>1, <1>4, <2>1, <2>2 DEF OldInv, Kept
  <2>6. QED
    BY <1>3, <2>4, <2>5 DEF OldInv
<1>8. QED
  BY <1>5, <1>6, <1>7

\* What the theorems about OldDatabase follow from.
LEMMA OldInvariance == OldSpec => []OldInv
<1>1. OldInv /\ [OldNext]_oldVars => OldInv'
  <2> SUFFICES ASSUME OldInv, [OldNext]_oldVars PROVE OldInv'
    OBVIOUS
  <2>1. CASE UNCHANGED oldVars
    <3>1. \A t : Rows(t, written)' = Rows(t, written)
      BY <2>1 DEF oldVars, Rows, TxsOfBlocks
    <3>2. OldTypes' /\ Counted' /\ Kept'
      BY <2>1, <3>1 DEF OldInv, OldTypes, Counted, Kept, oldVars, Complete, SumsOf, HoldersIn
    <3>3. QED
      BY <3>2 DEF OldInv
  <2>2. CASE OldNext
    BY <2>2, SeedStep, KeysStep, WriteStep, MendStep DEF OldNext, Tables
  <2>3. QED
    BY <2>1, <2>2
<1>2. QED
  BY <1>1, InitOld, PTL DEF OldSpec

-----------------------------------------------------------------------------
\* An older build's database keeps its types while it is brought up to date.
THEOREM OldDatabaseIsTyped == OldSpec => []OldTypes
<1>1. OldInv => OldTypes
  BY DEF OldInv
<1>2. QED
  BY <1>1, OldInvariance, PTL

\* Once the writer runs, the counters are the counts of rows and balances that
\* were complete are complete, under one kind of key (init_db runs its steps in
\* order and each is safe to run again).
THEOREM UpToDate == OldSpec => []BroughtUpToDate
<1>1. OldInv => BroughtUpToDate
  BY DEF OldInv, Counted, Kept, BroughtUpToDate, Exact
<1>2. QED
  BY <1>1, OldInvariance, PTL
=============================================================================
