---------------------------- MODULE FetchProofs -----------------------------
(***************************************************************************)
(* A fetch loses no block, keeps none without its receipts and ends within *)
(* four requests a block, for every chunk and every way the node answers;  *)
(* and what a block's receipts become is the block's transfers, anchoring  *)
(* rows and fees, however much of it a node leaves out.  The tasks that    *)
(* fetch, feed and write end by the flag alone, and none waits for one     *)
(* that is gone or waits for it.                                           *)
(***************************************************************************)
EXTENDS Fetch, Receipts, Process, SequenceTheorems, WellFoundedInduction, TLAPS

Span == [from : Number, to : Number]

\* The parts tile the chunk's end, and there are no more of them than blocks.
Tiles(s) ==
  /\ s \in Seq(Span)
  /\ \A i \in 1..Len(s) : s[i].from <= s[i].to /\ Len(s) - i <= Last - s[i].to
  /\ \A i \in 1..(Len(s) - 1) : s[i + 1].from = s[i].to + 1
  /\ s # <<>> => s[Len(s)].to = Last

LEMMA Bounds == First \in Nat /\ Last \in Nat /\ First <= Last /\ Number \subseteq Nat
BY FetchAssumption DEF Number

LEMMA HeadFacts ==
  ASSUME NEW s, Tiles(s), s # <<>>
  PROVE  /\ Head(s) \in Span /\ Head(s) = s[1] /\ Len(s) \in Nat \ {0}
         /\ Head(s).from \in First..Last /\ Head(s).to \in First..Last
         /\ Head(s).from <= Head(s).to
         /\ Len(s) - 1 <= Last - Head(s).to
<1>1. s \in Seq(Span) /\ Len(s) \in Nat \ {0} /\ Head(s) = s[1] /\ s[1] \in Span
  BY DEF Tiles
<1>2. 1 \in 1..Len(s)
  BY <1>1
<1>3. QED
  BY <1>1, <1>2, Bounds DEF Tiles, Span, Number

\* Doing the first part leaves the rest tiled.
LEMMA TailTiles ==
  ASSUME NEW s, Tiles(s), s # <<>>
  PROVE  /\ Tiles(Tail(s))
         /\ Tail(s) # <<>> => /\ Head(Tail(s)).from = Head(s).to + 1
                              /\ Len(Tail(s)) = Len(s) - 1
         /\ Tail(s) = <<>> => Head(s).to = Last /\ Len(s) = 1
<1> DEFINE t == Tail(s)
<1>1. /\ s \in Seq(Span) /\ Len(s) \in Nat \ {0} /\ t \in Seq(Span) /\ Len(t) = Len(s) - 1
      /\ \A i \in 1..Len(t) : t[i] = s[i + 1]
  BY DEF Tiles
<1>2. t = <<>> <=> Len(s) = 1
  BY <1>1
<1> HIDE DEF t
<1>3. ASSUME NEW i \in 1..Len(t)
      PROVE  t[i].from <= t[i].to /\ Len(t) - i <= Last - t[i].to
  <2>1. i + 1 \in 1..Len(s) /\ t[i] = s[i + 1] /\ Len(t) - i = Len(s) - (i + 1)
    BY <1>1
  <2>2. QED
    BY <2>1 DEF Tiles
<1>4. ASSUME NEW i \in 1..(Len(t) - 1)
      PROVE  t[i + 1].from = t[i].to + 1
  <2>1. i + 1 \in 1..(Len(s) - 1) /\ t[i] = s[i + 1] /\ t[i + 1] = s[i + 2] /\ (i + 1) + 1 = i + 2
    BY <1>1
  <2>2. QED
    BY <2>1 DEF Tiles
<1>5. t # <<>> => t[Len(t)] = s[Len(s)] /\ t[1] = s[2] /\ 1 \in 1..(Len(s) - 1)
  BY <1>1, <1>2
<1>6. Tiles(t)
  BY <1>1, <1>3, <1>4, <1>5 DEF Tiles
<1>7. t # <<>> => Head(t) = t[1]
  BY <1>1
<1>8. Head(s) = s[1]
  BY <1>1
<1>9. t # <<>> => s[1 + 1].from = s[1].to + 1
  BY <1>5 DEF Tiles
<1>10. t # <<>> => Head(t).from = Head(s).to + 1 /\ Len(t) = Len(s) - 1
  BY <1>1, <1>5, <1>7, <1>8, <1>9
<1>11. t = <<>> => Head(s).to = Last /\ Len(s) = 1
  BY <1>2, <1>8 DEF Tiles
<1>12. QED
  BY <1>6, <1>10, <1>11 DEF t

\* So does putting two halves in its place.
LEMMA SplitTiles ==
  ASSUME NEW s, Tiles(s), s # <<>>, NEW mid \in Int, Head(s).from <= mid, mid < Head(s).to
  PROVE  LET t == <<[from |-> Head(s).from, to |-> mid],
                    [from |-> mid + 1, to |-> Head(s).to]>> \o Tail(s)
         IN  /\ Tiles(t) /\ t # <<>>
             /\ Head(t) = [from |-> Head(s).from, to |-> mid]
             /\ Len(t) = Len(s) + 1
<1> DEFINE a == [from |-> Head(s).from, to |-> mid]
           b == [from |-> mid + 1, to |-> Head(s).to]
           t == <<a, b>> \o Tail(s)
<1>1. /\ Head(s) = s[1] /\ Len(s) \in Nat \ {0} /\ Head(s).from \in First..Last
      /\ Head(s).to \in First..Last /\ Len(s) - 1 <= Last - Head(s).to
  BY HeadFacts
<1>2. a \in Span /\ b \in Span
  BY <1>1, Bounds DEF Span, Number
<1> HIDE DEF a, b
<1>3. s \in Seq(Span) /\ Tail(s) \in Seq(Span) /\ Len(Tail(s)) = Len(s) - 1
  BY DEF Tiles
<1>4. \A i \in 1..(Len(s) - 1) : Tail(s)[i] = s[i + 1]
  BY <1>3
<1>5. <<a, b>> \in Seq(Span) /\ Len(<<a, b>>) = 2
  BY <1>2
<1>6. t \in Seq(Span) /\ Len(t) = Len(s) + 1
  BY <1>1, <1>3, <1>5
<1>7. t[1] = a /\ t[2] = b
  BY <1>3, <1>5
<1>8. \A i \in 3..(Len(s) + 1) : t[i] = s[i - 1]
  <2>1. \A i \in 3..(Len(s) + 1) : t[i] = Tail(s)[i - 2] /\ i - 2 \in 1..(Len(s) - 1)
    BY <1>1, <1>3, <1>5
  <2>2. ASSUME NEW i \in 3..(Len(s) + 1) PROVE t[i] = s[i - 1]
    <3>1. t[i] = Tail(s)[i - 2] /\ i - 2 \in 1..(Len(s) - 1)
      BY <2>1
    <3>2. Tail(s)[i - 2] = s[(i - 2) + 1] /\ (i - 2) + 1 = i - 1
      BY <1>1, <1>4, <3>1
    <3> HIDE DEF t
    <3>3. QED
      BY <3>1, <3>2
  <2>3. QED
    BY <2>2
<1> HIDE DEF t
<1>9. a.from = s[1].from /\ a.to = mid /\ b.from = mid + 1 /\ b.to = s[1].to
  BY <1>1 DEF a, b
<1>10. ASSUME NEW i \in 1..Len(t)
       PROVE  t[i].from <= t[i].to /\ Len(t) - i <= Last - t[i].to
  <2>1. CASE i = 1
    BY <2>1, <1>1, <1>6, <1>7, <1>9, Bounds
  <2>2. CASE i = 2
    BY <2>2, <1>1, <1>6, <1>7, <1>9, Bounds
  <2>3. CASE i \in 3..Len(t)
    <3>1. t[i] = s[i - 1] /\ i - 1 \in 1..Len(s) /\ Len(t) - i = Len(s) - (i - 1)
      BY <2>3, <1>1, <1>6, <1>8
    <3>2. QED
      BY <3>1 DEF Tiles
  <2>4. QED
    BY <2>1, <2>2, <2>3, <1>1, <1>6
<1>11. ASSUME NEW i \in 1..(Len(t) - 1)
       PROVE  t[i + 1].from = t[i].to + 1
  <2>1. CASE i = 1
    BY <2>1, <1>7, <1>9
  <2>2. CASE i = 2
    <3>1. t[3] = s[2] /\ 1 \in 1..(Len(s) - 1)
      BY <2>2, <1>1, <1>6, <1>8
    <3>2. s[1 + 1].from = s[1].to + 1
      BY <3>1 DEF Tiles
    <3>3. QED
      BY <2>2, <3>1, <3>2, <1>7, <1>9
  <2>3. CASE i \in 3..(Len(t) - 1)
    <3>1. t[i] = s[i - 1] /\ t[i + 1] = s[(i - 1) + 1] /\ i - 1 \in 1..(Len(s) - 1)
      BY <2>3, <1>1, <1>6, <1>8
    <3>2. QED
      BY <3>1 DEF Tiles
  <2>4. QED
    BY <2>1, <2>2, <2>3, <1>1, <1>6
<1>12. t[Len(t)].to = Last
  <2>0. s[Len(s)].to = Last
    BY DEF Tiles
  <2>1. CASE Len(s) = 1
    BY <2>0, <2>1, <1>6, <1>7, <1>9
  <2>2. CASE Len(s) # 1
    <3> DEFINE n == Len(s)
    <3>1. n \in Nat /\ n # 0 /\ n # 1
      BY <2>2, <1>1
    <3> HIDE DEF n
    <3>2. n + 1 \in 3..(n + 1) /\ (n + 1) - 1 = n
      BY <3>1
    <3>3. Len(s) + 1 \in 3..(Len(s) + 1) /\ (Len(s) + 1) - 1 = Len(s)
      BY <3>2 DEF n
    <3>4. t[Len(s) + 1] = s[Len(s)]
      BY <3>3, <1>8
    <3>5. QED
      BY <3>4, <2>0, <1>6
  <2>3. QED
    BY <2>1, <2>2
<1>13. t # <<>> /\ Head(t) = a
  BY <1>1, <1>6, <1>7
<1>14. Tiles(t)
  BY <1>6, <1>10, <1>11, <1>12 DEF Tiles
<1>15. QED
  BY <1>6, <1>13, <1>14 DEF t, a, b

-----------------------------------------------------------------------------
(***************************************************************************)
(* The inductive invariant: what is under way, what it has cost so far,    *)
(* and what the node gave for the blocks done, under way and to come.      *)
(***************************************************************************)
Open == spans # <<>>

AsGiven(f) == \A b \in DOMAIN f : f[b] \in {TxsOf[b]} \cup Gives[b]

PhaseOK ==
  /\ Open <=> pc \in {"blocks", "receipts", "retry"}
  /\ pc \notin {"receipts", "retry"} => found = {} /\ receipts = Nothing /\ short = {}
  /\ pc \in {"receipts", "retry"} =>
       short # {} /\ found \subseteq Head(spans).from..Head(spans).to
  /\ pc = "receipts" => receipts = Nothing
  /\ DOMAIN receipts \subseteq found
  /\ AsGiven(receipts)
  /\ \A b \in short : HasTxs(b)

\* Requests that what is done, and what is under way so far, may have taken.
Spent == 4 * (Head(spans).from - First) + Len(spans)

BudgetOK ==
  /\ pc = "blocks" => requests <= Spent - 1
  /\ pc = "receipts" => requests <= Spent
  /\ pc = "retry" => \A b \in short : requests <= Spent + 1 + b - Head(spans).from
  /\ ~Open => FewRequests

Given(b, some) == <<b, some>> \in served.receipts

ServedOK ==
  /\ \A b \in served.blocks :
       /\ pc = "done" \/ (Open /\ b < Head(spans).from)
       /\ ~HasTxs(b) \/ Given(b, TxsOf[b])
       => b \in DOMAIN result
  /\ Open =>
       \A b \in Number : b >= Head(spans).from =>
         /\ b \in served.blocks => b \in found
         /\ \A some \in SUBSET Tx : Given(b, some) =>
              b \in found /\ (some = TxsOf[b] => b \in DOMAIN receipts)

ResultOK == Open => \A b \in DOMAIN result : b < Head(spans).from

IInv == FetchTypeOK /\ Tiles(spans) /\ ResultOK /\ PhaseOK /\ BudgetOK /\ ServedOK /\ WholeOrAbsent

-----------------------------------------------------------------------------
LEMMA InitInv == FetchInit => IInv
<1> SUFFICES ASSUME FetchInit PROVE IInv
  OBVIOUS
<1> DEFINE whole == [from |-> First, to |-> Last]
<1>1. whole \in Span /\ spans = <<whole>>
  BY Bounds DEF FetchInit, Span, Number
<1>2. Len(spans) = 1 /\ spans[1] = whole /\ Head(spans) = whole /\ spans \in Seq(Span)
  BY <1>1
<1>3. DOMAIN Nothing = {} /\ Nothing \in [{} -> SUBSET Tx]
  BY DEF Nothing
<1>4. FetchTypeOK
  BY <1>2, <1>3 DEF FetchInit, FetchTypeOK, SomeReceipts, Span
<1>5. Tiles(spans)
  BY <1>2, Bounds DEF Tiles
<1>6. ResultOK /\ PhaseOK /\ BudgetOK /\ ServedOK /\ WholeOrAbsent
  BY <1>1, <1>2, <1>3, Bounds
  DEF FetchInit, ResultOK, PhaseOK, BudgetOK, ServedOK, WholeOrAbsent, Open, AsGiven, Spent, Given
<1>7. QED
  BY <1>4, <1>5, <1>6 DEF IInv

-----------------------------------------------------------------------------
LEMMA OpenFacts ==
  ASSUME IInv, Open
  PROVE  /\ Head(spans).from \in First..Last /\ Head(spans).to \in First..Last
         /\ Head(spans).from <= Head(spans).to
         /\ Len(spans) \in Nat \ {0} /\ Len(spans) - 1 <= Last - Head(spans).to
BY HeadFacts DEF IInv, Open

\* The end of a part, whichever reply brings it.
LEMMA FinishStep ==
  ASSUME IInv, Open,
         NEW blocks \in SUBSET (Head(spans).from..Head(spans).to), NEW have,
         SomeReceipts(have), DOMAIN have \subseteq blocks, AsGiven(have),
         Finish(blocks, have),
         requests' \in Nat,
         requests' <= Spent + 2 + Head(spans).to - Head(spans).from,
         served' \in [blocks : SUBSET Number, receipts : SUBSET (Number \X SUBSET Tx)],
         \A b \in Number : b \notin Head(spans).from..Head(spans).to =>
           /\ b \in served'.blocks <=> b \in served.blocks
           /\ \A some \in SUBSET Tx : <<b, some>> \in served'.receipts <=> Given(b, some),
         \A b \in Head(spans).from..Head(spans).to :
           /\ b \in served'.blocks => b \in blocks
           /\ <<b, TxsOf[b]>> \in served'.receipts => b \in DOMAIN have
  PROVE  IInv'
<1> DEFINE from == Head(spans).from
           to   == Head(spans).to
           whole == WithoutMissingReceipts(blocks, have)
<1>1. /\ from \in First..Last /\ to \in First..Last /\ from <= to
      /\ Len(spans) \in Nat \ {0} /\ Len(spans) - 1 <= Last - to
  BY OpenFacts
<1>2. FetchTypeOK /\ Tiles(spans) /\ ResultOK /\ PhaseOK /\ BudgetOK /\ ServedOK /\ WholeOrAbsent
  BY DEF IInv
<1>3. /\ spans' = Tail(spans) /\ pc' = (IF Tail(spans) = <<>> THEN "done" ELSE "blocks")
      /\ found' = {} /\ receipts' = Nothing /\ short' = {}
      /\ result' = [b \in DOMAIN result \cup whole |->
                      CASE b \in DOMAIN result -> result[b]
                        [] b \in whole \cap DOMAIN have -> have[b]
                        [] OTHER -> {}]
  BY DEF Finish
<1>4. /\ Tiles(spans')
      /\ Open' => Head(spans').from = to + 1 /\ Len(spans') = Len(spans) - 1
      /\ ~Open' => to = Last /\ Len(spans) = 1
  BY <1>2, <1>3, TailTiles DEF Open
<1>5. whole \subseteq from..to /\ from..to \subseteq Number
  <2>1. whole \subseteq blocks
    BY DEF WithoutMissingReceipts
  <2>2. from..to \subseteq Number
    BY <1>1, Bounds DEF Number
  <2>3. QED
    BY <2>1, <2>2
<1>6. \A b \in DOMAIN result : b \in Number /\ b < from
  BY <1>2 DEF ResultOK, FetchTypeOK, SomeReceipts
<1>7. /\ DOMAIN result' = DOMAIN result \cup whole
      /\ \A b \in DOMAIN result : result'[b] = result[b]
      /\ \A b \in whole \cap DOMAIN have : result'[b] = have[b]
      /\ \A b \in whole \ DOMAIN have : result'[b] = {}
  <2>1. \A b \in whole : b \notin DOMAIN result
    BY <1>1, <1>5, <1>6, Bounds DEF Number
  <2>2. QED
    BY <1>3, <2>1
<1>8. \A b \in DOMAIN result' : result'[b] \in SUBSET Tx
  <2>1. /\ \A b \in DOMAIN result : result[b] \in SUBSET Tx
        /\ \A b \in DOMAIN have : have[b] \in SUBSET Tx
    BY <1>2 DEF FetchTypeOK, SomeReceipts
  <2>2. QED
    BY <1>7, <2>1
<1>9. SomeReceipts(result')
  <2>1. DOMAIN result' \subseteq Number
    BY <1>5, <1>6, <1>7
  <2>2. result' \in [DOMAIN result' -> SUBSET Tx]
    <3>1. result' = [b \in DOMAIN result' |-> result'[b]]
      BY <1>3
    <3>2. QED
      BY <3>1, <1>8
  <2>3. QED
    BY <2>1, <2>2 DEF SomeReceipts
<1>10. FetchTypeOK'
  <2>1. SomeReceipts(Nothing)
    BY DEF SomeReceipts, Nothing
  <2>2. spans' \in Seq(Span)
    BY <1>4 DEF Tiles
  <2>3. QED
    BY <1>3, <1>9, <2>1, <2>2 DEF FetchTypeOK, SomeReceipts, Span
<1>11. ResultOK'
  <2>1. \A b \in DOMAIN result' : b < to + 1
    BY <1>1, <1>5, <1>6, <1>7, Bounds DEF Number
  <2>2. QED
    BY <1>4, <2>1 DEF ResultOK
<1>12. PhaseOK'
  <2>1. DOMAIN Nothing = {}
    BY DEF Nothing
  <2>2. QED
    BY <1>3, <2>1 DEF PhaseOK, Open, AsGiven
<1>13. WholeOrAbsent'
  <2>1. \A b \in whole \ DOMAIN have : TxsOf[b] = {}
    BY DEF WithoutMissingReceipts, HasTxs
  <2>2. \A b \in DOMAIN result : result[b] \in {TxsOf[b]} \cup Gives[b]
    BY <1>2 DEF WholeOrAbsent
  <2>3. \A b \in DOMAIN have : have[b] \in {TxsOf[b]} \cup Gives[b]
    BY DEF AsGiven
  <2>4. QED
    BY <1>7, <2>1, <2>2, <2>3 DEF WholeOrAbsent
<1>14. BudgetOK'
  <2> DEFINE n == Len(spans)
  <2>3. /\ requests' <= 4 * (from - First) + n + 2 + to - from
        /\ n \in Nat \ {0} /\ from \in Int /\ to \in Int /\ First \in Int /\ from <= to
        /\ requests' \in Nat
    BY <1>1, Bounds DEF Spent
  <2> HIDE DEF n, from, to
  <2>4. requests' <= 4 * (to + 1 - First) + (n - 1) - 1
    BY <2>3
  <2> USE DEF n
  <2>1. CASE Open'
    <3>1. pc' = "blocks" /\ Head(spans').from = to + 1 /\ Len(spans') = Len(spans) - 1
      BY <2>1, <1>3, <1>4 DEF Open
    <3>2. pc' = "blocks" => requests' <= Spent' - 1
      BY <2>3, <2>4, <3>1 DEF Spent
    <3>3. QED
      BY <2>1, <3>1, <3>2 DEF BudgetOK
  <2>2. CASE ~Open'
    <3>1. pc' = "done" /\ to = Last /\ Len(spans) = 1
      BY <2>2, <1>3, <1>4 DEF Open
    <3>2. requests' <= 4 * (Last - First + 1)
      BY <2>3, <3>1
    <3>3. QED
      BY <2>2, <3>1, <3>2 DEF BudgetOK, FewRequests
  <2>5. QED
    BY <2>1, <2>2
<1>15. ServedOK'
  <2>1. ASSUME NEW b \in served'.blocks,
               pc' = "done" \/ (Open' /\ b < Head(spans').from),
               ~HasTxs(b) \/ <<b, TxsOf[b]>> \in served'.receipts
        PROVE  b \in DOMAIN result'
    <3>1. b \in Number /\ b <= to
      <4>1. b \in Number
        OBVIOUS
      <4>2. CASE pc' = "done"
        BY <4>1, <4>2, <1>3, <1>4, Bounds DEF Open, Number
      <4>3. CASE Open' /\ b < Head(spans').from
        BY <4>1, <4>3, <1>1, <1>4, Bounds DEF Number
      <4>4. QED
        BY <2>1, <4>1, <4>2, <4>3
    <3>2. CASE b < from
      <4>1. b \notin from..to /\ b \in served.blocks
        BY <3>1, <3>2, <1>1, Bounds DEF Number
      <4>2. ~HasTxs(b) \/ Given(b, TxsOf[b])
        <5>1. TxsOf[b] \in SUBSET Tx
          BY <3>1, FetchAssumption
        <5>2. QED
          BY <2>1, <3>1, <4>1, <5>1
      <4>3. QED
        BY <3>2, <4>1, <4>2, <1>2, <1>7 DEF ServedOK
    <3>3. CASE ~(b < from)
      <4>1. b \in from..to
        BY <3>1, <3>3, <1>1, Bounds DEF Number
      <4>2. b \in blocks
        BY <4>1
      <4>3. b \in whole
        BY <2>1, <4>1, <4>2 DEF WithoutMissingReceipts
      <4>4. QED
        BY <4>3, <1>7
    <3>4. QED
      BY <3>2, <3>3
  <2>2. ASSUME Open', NEW b \in Number, b >= Head(spans').from
        PROVE  /\ b \notin served'.blocks
               /\ \A some \in SUBSET Tx : <<b, some>> \notin served'.receipts
    <3>1. b > to /\ b \notin from..to /\ b >= from
      <4>1. b \in Int /\ from \in Int /\ to \in Int /\ from <= to
        BY <1>1, Bounds DEF Number
      <4>2. b >= to + 1
        BY <2>2, <1>4
      <4>3. QED
        BY <4>1, <4>2
    <3>2. found \subseteq from..to
      BY <1>2 DEF PhaseOK, Open
    <3>3. b \notin served.blocks /\ \A some \in SUBSET Tx : ~Given(b, some)
      BY <3>1, <3>2, <1>2 DEF ServedOK
    <3>4. QED
      BY <3>1, <3>3
  <2>3. QED
    BY <2>1, <2>2 DEF ServedOK, Given, HasTxs
<1>16. QED
  BY <1>4, <1>10, <1>11, <1>12, <1>13, <1>14, <1>15 DEF IInv

\* A reply after which the part still wants something.
LEMMA GoOnStep ==
  ASSUME IInv, Open, NEW step \in {"receipts", "retry"},
         NEW blocks \in SUBSET (Head(spans).from..Head(spans).to), NEW have,
         NEW left \in SUBSET blocks, left # {}, \A b \in left : HasTxs(b),
         SomeReceipts(have), DOMAIN have \subseteq blocks, AsGiven(have),
         GoOn(step, blocks, have, left),
         requests' \in Nat,
         step = "receipts" => requests' <= Spent /\ have = Nothing,
         \A b \in left : requests' <= Spent + 1 + b - Head(spans).from,
         served' \in [blocks : SUBSET Number, receipts : SUBSET (Number \X SUBSET Tx)],
         \A b \in Number : b \notin Head(spans).from..Head(spans).to =>
           /\ b \in served'.blocks <=> b \in served.blocks
           /\ \A some \in SUBSET Tx : <<b, some>> \in served'.receipts <=> Given(b, some),
         \A b \in Head(spans).from..Head(spans).to :
           /\ b \in served'.blocks => b \in blocks
           /\ \A some \in SUBSET Tx : <<b, some>> \in served'.receipts =>
                b \in blocks /\ (some = TxsOf[b] => b \in DOMAIN have)
  PROVE  IInv'
<1>1. /\ Head(spans).from \in First..Last /\ Head(spans).to \in First..Last
      /\ Head(spans).from <= Head(spans).to
  BY OpenFacts
<1>2. FetchTypeOK /\ Tiles(spans) /\ ResultOK /\ PhaseOK /\ BudgetOK /\ ServedOK /\ WholeOrAbsent
  BY DEF IInv
<1>3. /\ pc' = step /\ found' = blocks /\ receipts' = have /\ short' = left
      /\ spans' = spans /\ result' = result
  BY DEF GoOn
<1>4. Head(spans).from..Head(spans).to \subseteq Number
  BY <1>1, Bounds DEF Number
<1>5. FetchTypeOK'
  BY <1>2, <1>3, <1>4 DEF FetchTypeOK, SomeReceipts
<1>6. PhaseOK'
  BY <1>3 DEF PhaseOK, Open, AsGiven, HasTxs
<1>7. BudgetOK'
  BY <1>3 DEF BudgetOK, Spent, Open
<1>8. ServedOK'
  <2>1. ASSUME NEW b \in served'.blocks, b < Head(spans).from,
               ~HasTxs(b) \/ <<b, TxsOf[b]>> \in served'.receipts
        PROVE  b \in DOMAIN result
    <3>1. b \in Number /\ b \notin Head(spans).from..Head(spans).to
      BY <2>1, <1>1, Bounds DEF Number
    <3>2. TxsOf[b] \in SUBSET Tx
      BY <3>1, FetchAssumption
    <3>3. b \in served.blocks /\ (~HasTxs(b) \/ Given(b, TxsOf[b]))
      BY <2>1, <3>1, <3>2
    <3>4. QED
      BY <2>1, <3>3, <1>2 DEF ServedOK
  <2>2. ASSUME NEW b \in Number, b >= Head(spans).from
        PROVE  /\ b \in served'.blocks => b \in blocks
               /\ \A some \in SUBSET Tx : <<b, some>> \in served'.receipts =>
                    b \in blocks /\ (some = TxsOf[b] => b \in DOMAIN have)
    <3>1. CASE b \in Head(spans).from..Head(spans).to
      BY <3>1
    <3>2. CASE b \notin Head(spans).from..Head(spans).to
      <4>1. found \subseteq Head(spans).from..Head(spans).to
        BY <1>2 DEF PhaseOK, Open
      <4>2. b \notin served.blocks /\ \A some \in SUBSET Tx : ~Given(b, some)
        BY <2>2, <3>2, <4>1, <1>2 DEF ServedOK
      <4>3. QED
        BY <3>2, <4>2
    <3>3. QED
      BY <3>1, <3>2
  <2>3. pc' # "done"
    BY <1>3
  <2>4. QED
    BY <1>3, <2>1, <2>2, <2>3 DEF ServedOK, Given, HasTxs, Open
<1>9. ResultOK' /\ WholeOrAbsent' /\ Tiles(spans')
  BY <1>2, <1>3 DEF ResultOK, WholeOrAbsent, Open
<1>10. QED
  BY <1>5, <1>6, <1>7, <1>8, <1>9 DEF IInv

-----------------------------------------------------------------------------
LEMMA HalveStep == IInv /\ Halve => IInv'
<1> SUFFICES ASSUME IInv, Halve PROVE IInv'
  OBVIOUS
<1> DEFINE from == Head(spans).from
           to   == Head(spans).to
           mid  == Middle(Head(spans))
<1>1. FetchTypeOK /\ Tiles(spans) /\ ResultOK /\ PhaseOK /\ BudgetOK /\ ServedOK /\ WholeOrAbsent
  BY DEF IInv
<1>2. /\ pc = "blocks" /\ from < to
      /\ spans' = <<[from |-> from, to |-> mid], [from |-> mid + 1, to |-> to]>> \o Tail(spans)
      /\ requests' = requests + 1
      /\ UNCHANGED <<pc, found, receipts, short, result, served>>
  BY DEF Halve, Split
<1>3. Open
  BY <1>1, <1>2 DEF PhaseOK
<1>4. from \in Int /\ to \in Int /\ Len(spans) \in Nat
  BY <1>3, OpenFacts, Bounds
<1>5. mid \in Int /\ from <= mid /\ mid < to
  BY <1>2, <1>4 DEF Middle
<1> HIDE DEF mid
<1>6. /\ Tiles(spans') /\ spans' # <<>> /\ Len(spans') = Len(spans) + 1
      /\ Head(spans') = [from |-> from, to |-> mid]
  BY <1>1, <1>2, <1>3, <1>5, SplitTiles DEF Open
<1>7. Head(spans').from = from
  BY <1>6
<1>8. FetchTypeOK'
  BY <1>1, <1>2, <1>6 DEF FetchTypeOK, SomeReceipts, Tiles, Span
<1>9. ResultOK'
  BY <1>1, <1>2, <1>3, <1>7 DEF ResultOK, Open
<1>10. PhaseOK'
  BY <1>1, <1>2, <1>3, <1>6 DEF PhaseOK, Open, AsGiven, HasTxs
<1>11. BudgetOK'
  <2>1. requests <= Spent - 1
    BY <1>1, <1>2 DEF BudgetOK
  <2>2. requests \in Nat
    BY <1>1 DEF FetchTypeOK
  <2>3. requests' <= Spent' - 1
    BY <2>1, <2>2, <1>2, <1>4, <1>6, <1>7, Bounds DEF Spent
  <2>4. QED
    BY <2>3, <1>2, <1>6 DEF BudgetOK, Open
<1>12. ServedOK'
  BY <1>1, <1>2, <1>3, <1>6, <1>7 DEF ServedOK, Given, HasTxs, Open
<1>13. WholeOrAbsent'
  BY <1>1, <1>2 DEF WholeOrAbsent
<1>14. QED
  BY <1>6, <1>8, <1>9, <1>10, <1>11, <1>12, <1>13 DEF IInv

LEMMA FailStep == IInv /\ FetchFails => IInv'
<1> SUFFICES ASSUME IInv, FetchFails PROVE IInv'
  OBVIOUS
<1>1. FetchTypeOK /\ Tiles(spans) /\ PhaseOK /\ BudgetOK
  BY DEF IInv
<1>2. /\ pc = "blocks" /\ pc' = "failed" /\ spans' = <<>> /\ result' = Nothing
      /\ requests' = requests + 1 /\ UNCHANGED <<found, receipts, short, served>>
  BY DEF FetchFails
<1>3. Open
  BY <1>1, <1>2 DEF PhaseOK
<1>4. DOMAIN Nothing = {} /\ SomeReceipts(Nothing)
  BY DEF Nothing, SomeReceipts
<1>5. <<>> \in Seq(Span) /\ Len(<<>>) = 0
  OBVIOUS
<1>6. Tiles(spans')
  BY <1>2, <1>5 DEF Tiles
<1>7. FetchTypeOK'
  BY <1>1, <1>2, <1>4, <1>5 DEF FetchTypeOK, SomeReceipts, Span
<1>8. BudgetOK'
  <2>1. requests <= Spent - 1
    BY <1>1, <1>2 DEF BudgetOK
  <2>2. requests \in Nat
    BY <1>1 DEF FetchTypeOK
  <2>3. requests' <= 4 * (Last - First + 1)
    BY <2>1, <2>2, <1>2, <1>3, OpenFacts, Bounds DEF Spent
  <2>4. QED
    BY <2>3, <1>2 DEF BudgetOK, FewRequests
<1>9. ResultOK' /\ PhaseOK' /\ ServedOK' /\ WholeOrAbsent'
  BY <1>1, <1>2, <1>4 DEF ResultOK, PhaseOK, ServedOK, WholeOrAbsent, Open, AsGiven
<1>10. QED
  BY <1>6, <1>7, <1>8, <1>9 DEF IInv

LEMMA BlocksStep ==
  ASSUME IInv, NEW blocks \in SUBSET Number, BlocksAnswered(blocks)
  PROVE  IInv'
<1> DEFINE left == {b \in blocks : HasTxs(b)}
<1>1. FetchTypeOK /\ PhaseOK /\ BudgetOK /\ ServedOK
  BY DEF IInv
<1>2. /\ pc = "blocks" /\ blocks \subseteq Head(spans).from..Head(spans).to
      /\ served' = [served EXCEPT !.blocks = @ \cup blocks]
      /\ requests' = requests + 1
      /\ GoOn("receipts", blocks, Nothing, left)
  BY DEF BlocksAnswered
<1>3. Open /\ found = {}
  BY <1>1, <1>2 DEF PhaseOK
<1>4. DOMAIN Nothing = {} /\ SomeReceipts(Nothing) /\ AsGiven(Nothing)
  BY DEF Nothing, SomeReceipts, AsGiven
<1>5. requests' \in Nat /\ requests' <= Spent
  <2>1. requests \in Nat
    BY <1>1 DEF FetchTypeOK
  <2>2. requests <= Spent - 1 /\ Spent \in Int
    BY <1>1, <1>2, <1>3, OpenFacts, Bounds DEF BudgetOK, Spent
  <2>3. QED
    BY <2>1, <2>2, <1>2
<1>6. Spent \in Int /\ Head(spans).from \in Int /\ Head(spans).to \in Int
      /\ Head(spans).from <= Head(spans).to
  BY <1>3, OpenFacts, Bounds DEF Spent
<1>7. served' \in [blocks : SUBSET Number, receipts : SUBSET (Number \X SUBSET Tx)]
      /\ served'.blocks = served.blocks \cup blocks /\ served'.receipts = served.receipts
  BY <1>1, <1>2 DEF FetchTypeOK
<1>8. \A b \in Number : b \notin Head(spans).from..Head(spans).to =>
        /\ b \in served'.blocks <=> b \in served.blocks
        /\ \A some \in SUBSET Tx : <<b, some>> \in served'.receipts <=> Given(b, some)
  BY <1>2, <1>7 DEF Given
<1>9. \A b \in Head(spans).from..Head(spans).to :
        /\ b \in Number /\ b \notin served.blocks
        /\ \A some \in SUBSET Tx : <<b, some>> \notin served'.receipts
  <2>1. Head(spans).from..Head(spans).to \subseteq Number
    BY <1>3, OpenFacts, Bounds DEF Number
  <2>2. QED
    BY <2>1, <1>1, <1>3, <1>6, <1>7 DEF ServedOK, Given
<1>10. \A b \in Number : TxsOf[b] \in SUBSET Tx
  BY FetchAssumption
<1>11. CASE left = {}
  <2>1. Finish(blocks, Nothing)
    BY <1>2, <1>11 DEF GoOn
  <2>2. requests' <= Spent + 2 + Head(spans).to - Head(spans).from
    BY <1>5, <1>6
  <2>3. \A b \in Head(spans).from..Head(spans).to :
          /\ b \in served'.blocks => b \in blocks
          /\ <<b, TxsOf[b]>> \in served'.receipts => b \in DOMAIN Nothing
    BY <1>7, <1>9, <1>10
  <2>4. QED
    BY <2>1, <2>2, <2>3, <1>2, <1>3, <1>4, <1>5, <1>7, <1>8, FinishStep
<1>12. CASE left # {}
  <2>1. \A b \in left : requests' <= Spent + 1 + b - Head(spans).from
    <3>1. \A b \in left : b \in Head(spans).from..Head(spans).to
      BY <1>2
    <3>2. QED
      BY <3>1, <1>5, <1>6
  <2>2. \A b \in Head(spans).from..Head(spans).to :
          /\ b \in served'.blocks => b \in blocks
          /\ \A some \in SUBSET Tx : <<b, some>> \in served'.receipts =>
               b \in blocks /\ (some = TxsOf[b] => b \in DOMAIN Nothing)
    BY <1>7, <1>9
  <2>3. left \subseteq blocks /\ \A b \in left : HasTxs(b)
    OBVIOUS
  <2> HIDE DEF left
  <2>4. QED
    BY <1>2, <1>3, <1>4, <1>5, <1>7, <1>8, <1>12, <2>1, <2>2, <2>3, GoOnStep
<1>13. QED
  BY <1>11, <1>12

\* What the replies on receipts find.
LEMMA ReceiptFacts ==
  ASSUME IInv, pc \in {"receipts", "retry"}
  PROVE  /\ Open /\ short # {} /\ short \subseteq found
         /\ found \in SUBSET (Head(spans).from..Head(spans).to)
         /\ Head(spans).from..Head(spans).to \subseteq Number
         /\ \A b \in short : HasTxs(b)
         /\ requests \in Nat /\ Spent \in Int
         /\ Head(spans).from \in Int /\ Head(spans).to \in Int
         /\ SomeReceipts(receipts) /\ DOMAIN receipts \subseteq found /\ AsGiven(receipts)
         /\ \A b \in Head(spans).from..Head(spans).to :
              /\ b \in served.blocks => b \in found
              /\ \A some \in SUBSET Tx : Given(b, some) =>
                   b \in found /\ (some = TxsOf[b] => b \in DOMAIN receipts)
<1>1. FetchTypeOK /\ PhaseOK /\ ServedOK
  BY DEF IInv
<1>2. /\ Open /\ short # {} /\ found \subseteq Head(spans).from..Head(spans).to
      /\ \A b \in short : HasTxs(b)
      /\ DOMAIN receipts \subseteq found /\ AsGiven(receipts)
  BY <1>1 DEF PhaseOK
<1>3. short \subseteq found /\ requests \in Nat /\ SomeReceipts(receipts)
  BY <1>1 DEF FetchTypeOK
<1>4. /\ Head(spans).from..Head(spans).to \subseteq Number /\ Spent \in Int
      /\ Head(spans).from \in Int /\ Head(spans).to \in Int
  BY <1>2, OpenFacts, Bounds DEF Number, Spent
<1>5. \A b \in Head(spans).from..Head(spans).to : b >= Head(spans).from
  BY <1>4
<1>6. \A b \in Head(spans).from..Head(spans).to :
        /\ b \in served.blocks => b \in found
        /\ \A some \in SUBSET Tx : Given(b, some) =>
             b \in found /\ (some = TxsOf[b] => b \in DOMAIN receipts)
  BY <1>1, <1>2, <1>4, <1>5 DEF ServedOK
<1>7. QED
  BY <1>2, <1>3, <1>4, <1>6

LEMMA ReceiptsStep ==
  ASSUME IInv, NEW S \in SUBSET short,
         NEW given \in [S -> UNION {Gives[b] : b \in S}], ReceiptsAnswered(given)
  PROVE  IInv'
<1> DEFINE left == short \ DOMAIN given
<1>1. FetchTypeOK /\ PhaseOK /\ BudgetOK
  BY DEF IInv
<1>2. /\ pc = "receipts" /\ DOMAIN given \subseteq short
      /\ \A b \in DOMAIN given : given[b] \in Gives[b]
      /\ served' = [served EXCEPT !.receipts = @ \cup {<<b, given[b]>> : b \in DOMAIN given}]
      /\ requests' = requests + 1
      /\ GoOn("retry", found, given, left)
  BY DEF ReceiptsAnswered
<1>3. /\ Open /\ short # {} /\ short \subseteq found
      /\ found \in SUBSET (Head(spans).from..Head(spans).to)
      /\ Head(spans).from..Head(spans).to \subseteq Number
      /\ \A b \in short : HasTxs(b)
      /\ requests \in Nat /\ Spent \in Int
      /\ Head(spans).from \in Int /\ Head(spans).to \in Int
      /\ \A b \in Head(spans).from..Head(spans).to :
           /\ b \in served.blocks => b \in found
           /\ \A some \in SUBSET Tx : Given(b, some) =>
                b \in found /\ (some = TxsOf[b] => b \in DOMAIN receipts)
  BY <1>2, ReceiptFacts
<1>4. \A b \in DOMAIN given : given[b] \in SUBSET Tx /\ b \in Number
  BY <1>2, <1>3, FetchAssumption
<1>5. SomeReceipts(given) /\ AsGiven(given)
  <2>1. given \in [DOMAIN given -> SUBSET Tx]
    BY <1>4
  <2>2. QED
    BY <2>1, <1>2, <1>4 DEF SomeReceipts, AsGiven
<1>6. requests' \in Nat /\ requests' <= Spent + 1
  BY <1>1, <1>2, <1>3 DEF BudgetOK
<1>7. /\ served'.blocks = served.blocks
      /\ served'.receipts = served.receipts \cup {<<b, given[b]>> : b \in DOMAIN given}
      /\ served' \in [blocks : SUBSET Number, receipts : SUBSET (Number \X SUBSET Tx)]
  BY <1>1, <1>2, <1>4 DEF FetchTypeOK
<1>8. \A b \in Number : \A some \in SUBSET Tx :
        <<b, some>> \in served'.receipts <=>
          Given(b, some) \/ (b \in DOMAIN given /\ some = given[b])
  BY <1>7 DEF Given
<1>9. \A b \in Number : b \notin Head(spans).from..Head(spans).to =>
        /\ b \in served'.blocks <=> b \in served.blocks
        /\ \A some \in SUBSET Tx : <<b, some>> \in served'.receipts <=> Given(b, some)
  BY <1>2, <1>3, <1>7, <1>8
<1>10. DOMAIN receipts = {}
  BY <1>1, <1>2 DEF PhaseOK, Nothing
<1>11. \A b \in Head(spans).from..Head(spans).to :
         /\ b \in served'.blocks => b \in found
         /\ \A some \in SUBSET Tx : <<b, some>> \in served'.receipts =>
              b \in found /\ (some = TxsOf[b] => b \in DOMAIN given)
  BY <1>2, <1>3, <1>7, <1>8, <1>10
<1>12. \A b \in Number : TxsOf[b] \in SUBSET Tx
  BY FetchAssumption
<1>13. CASE left = {}
  <2>1. Finish(found, given)
    BY <1>2, <1>13 DEF GoOn
  <2>2. requests' <= Spent + 2 + Head(spans).to - Head(spans).from
    BY <1>3, <1>6, OpenFacts
  <2>3. \A b \in Head(spans).from..Head(spans).to :
          /\ b \in served'.blocks => b \in found
          /\ <<b, TxsOf[b]>> \in served'.receipts => b \in DOMAIN given
    BY <1>3, <1>11, <1>12
  <2>4. DOMAIN given \subseteq found
    BY <1>2, <1>3
  <2>5. QED
    BY <2>1, <2>2, <2>3, <2>4, <1>3, <1>5, <1>6, <1>7, <1>9, FinishStep
<1>14. CASE left # {}
  <2>1. \A b \in left : requests' <= Spent + 1 + b - Head(spans).from
    <3>1. \A b \in left : b \in Head(spans).from..Head(spans).to
      BY <1>3
    <3>2. QED
      BY <3>1, <1>3, <1>6
  <2>2. left \subseteq found /\ (\A b \in left : HasTxs(b)) /\ DOMAIN given \subseteq found
    BY <1>2, <1>3
  <2> HIDE DEF left
  <2>3. QED
    BY <1>2, <1>3, <1>5, <1>6, <1>7, <1>9, <1>11, <1>14, <2>1, <2>2, GoOnStep
<1>15. QED
  BY <1>13, <1>14

LEMMA RetryStep ==
  ASSUME IInv, NEW some \in SUBSET Tx, Retry(some)
  PROVE  IInv'
<1>1. PICK b \in short :
        /\ IsLowest(b, short)
        /\ some \subseteq TxsOf[b]
        /\ served' = [served EXCEPT !.receipts = @ \cup {<<b, some>>}]
        /\ LET now == IF some = TxsOf[b] THEN {b} ELSE {}
           IN  GoOn("retry", found,
                    [c \in DOMAIN receipts \cup now |-> IF c \in now THEN some ELSE receipts[c]],
                    short \ {b})
  BY DEF Retry
<1> DEFINE now  == IF some = TxsOf[b] THEN {b} ELSE {}
           have == [c \in DOMAIN receipts \cup now |-> IF c \in now THEN some ELSE receipts[c]]
           left == short \ {b}
<1>2. pc = "retry" /\ requests' = requests + 1 /\ GoOn("retry", found, have, left)
  BY <1>1 DEF Retry
<1>3. FetchTypeOK /\ BudgetOK
  BY DEF IInv
<1>4. /\ Open /\ short # {} /\ short \subseteq found
      /\ found \in SUBSET (Head(spans).from..Head(spans).to)
      /\ Head(spans).from..Head(spans).to \subseteq Number
      /\ \A c \in short : HasTxs(c)
      /\ requests \in Nat /\ Spent \in Int
      /\ Head(spans).from \in Int /\ Head(spans).to \in Int
      /\ SomeReceipts(receipts) /\ DOMAIN receipts \subseteq found /\ AsGiven(receipts)
      /\ \A c \in Head(spans).from..Head(spans).to :
           /\ c \in served.blocks => c \in found
           /\ \A any \in SUBSET Tx : Given(c, any) =>
                c \in found /\ (any = TxsOf[c] => c \in DOMAIN receipts)
  BY <1>2, ReceiptFacts
<1>5. b \in found /\ b \in Head(spans).from..Head(spans).to /\ b \in Number /\ b \in Int
  BY <1>4
<1>6. now \subseteq {b} /\ (some = TxsOf[b] <=> b \in now)
  OBVIOUS
<1>7. /\ DOMAIN have = DOMAIN receipts \cup now
      /\ \A c \in DOMAIN have : have[c] = IF c \in now THEN some ELSE receipts[c]
  OBVIOUS
<1>8. SomeReceipts(have) /\ AsGiven(have) /\ DOMAIN have \subseteq found
  <2>1. \A c \in DOMAIN receipts :
          receipts[c] \in SUBSET Tx /\ receipts[c] \in {TxsOf[c]} \cup Gives[c]
    BY <1>4 DEF SomeReceipts, AsGiven
  <2>2. \A c \in DOMAIN have :
          have[c] \in SUBSET Tx /\ have[c] \in {TxsOf[c]} \cup Gives[c]
    BY <1>6, <1>7, <2>1
  <2>3. have \in [DOMAIN have -> SUBSET Tx]
    BY <2>2
  <2>4. DOMAIN have \subseteq found /\ DOMAIN have \subseteq Number
    BY <1>4, <1>5, <1>6, <1>7
  <2>5. QED
    BY <2>2, <2>3, <2>4 DEF SomeReceipts, AsGiven
<1> HIDE DEF have, now
<1>9. requests' \in Nat /\ requests' <= Spent + 2 + b - Head(spans).from
  <2>1. requests <= Spent + 1 + b - Head(spans).from
    BY <1>2, <1>3 DEF BudgetOK
  <2>2. QED
    BY <2>1, <1>2, <1>4, <1>5
<1>10. /\ served'.blocks = served.blocks
       /\ served'.receipts = served.receipts \cup {<<b, some>>}
       /\ served' \in [blocks : SUBSET Number, receipts : SUBSET (Number \X SUBSET Tx)]
  BY <1>1, <1>3, <1>5 DEF FetchTypeOK
<1>11. \A c \in Number : \A any \in SUBSET Tx :
         <<c, any>> \in served'.receipts <=> Given(c, any) \/ (c = b /\ any = some)
  BY <1>10 DEF Given
<1>12. \A c \in Number : c \notin Head(spans).from..Head(spans).to =>
         /\ c \in served'.blocks <=> c \in served.blocks
         /\ \A any \in SUBSET Tx : <<c, any>> \in served'.receipts <=> Given(c, any)
  BY <1>5, <1>10, <1>11
<1>13. \A c \in Head(spans).from..Head(spans).to :
         /\ c \in served'.blocks => c \in found
         /\ \A any \in SUBSET Tx : <<c, any>> \in served'.receipts =>
              c \in found /\ (any = TxsOf[c] => c \in DOMAIN have)
  BY <1>4, <1>5, <1>6, <1>7, <1>10, <1>11
<1>14. \A c \in Number : TxsOf[c] \in SUBSET Tx
  BY FetchAssumption
<1>15. CASE left = {}
  <2>1. Finish(found, have)
    BY <1>2, <1>15 DEF GoOn
  <2>2. requests' <= Spent + 2 + Head(spans).to - Head(spans).from
    BY <1>4, <1>5, <1>9
  <2>3. \A c \in Head(spans).from..Head(spans).to :
          /\ c \in served'.blocks => c \in found
          /\ <<c, TxsOf[c]>> \in served'.receipts => c \in DOMAIN have
    BY <1>4, <1>13, <1>14
  <2>4. QED
    BY <2>1, <2>2, <2>3, <1>4, <1>8, <1>9, <1>10, <1>12, FinishStep
<1>16. CASE left # {}
  <2>1. \A c \in left : requests' <= Spent + 1 + c - Head(spans).from
    <3>1. \A c \in left : c \in Int /\ b <= c /\ c # b
      BY <1>1, <1>4 DEF IsLowest
    <3>2. QED
      BY <3>1, <1>4, <1>5, <1>9
  <2>2. left \subseteq found /\ \A c \in left : HasTxs(c)
    BY <1>4
  <2> HIDE DEF left
  <2>3. QED
    BY <1>2, <1>4, <1>8, <1>9, <1>10, <1>12, <1>13, <1>16, <2>1, <2>2, GoOnStep
<1>17. QED
  BY <1>15, <1>16

-----------------------------------------------------------------------------
LEMMA NextInv == IInv /\ [FetchNext]_fetchVars => IInv'
<1> SUFFICES ASSUME IInv, [FetchNext]_fetchVars PROVE IInv'
  OBVIOUS
<1>1. CASE Halve
  BY <1>1, HalveStep
<1>2. CASE FetchFails
  BY <1>2, FailStep
<1>3. ASSUME NEW blocks \in SUBSET Number, BlocksAnswered(blocks) PROVE IInv'
  BY <1>3, BlocksStep
<1>4. ASSUME NEW S \in SUBSET short,
             NEW given \in [S -> UNION {Gives[b] : b \in S}], ReceiptsAnswered(given)
      PROVE  IInv'
  BY <1>4, ReceiptsStep
<1>5. ASSUME NEW some \in SUBSET Tx, Retry(some) PROVE IInv'
  BY <1>5, RetryStep
<1>6. CASE UNCHANGED fetchVars
  BY <1>6 DEF fetchVars, IInv, FetchTypeOK, SomeReceipts, Tiles, ResultOK, PhaseOK, BudgetOK, ServedOK,
              WholeOrAbsent, Open, AsGiven, Spent, Given, HasTxs, FewRequests
<1>7. QED
  BY <1>1, <1>2, <1>3, <1>4, <1>5, <1>6 DEF FetchNext

LEMMA Invariance == FetchSpec => []IInv
BY InitInv, NextInv, PTL DEF FetchSpec

\* The fetch's variables keep their types: no half reaches outside the chunk.
THEOREM TypeCorrect == FetchSpec => []FetchTypeOK
<1>1. IInv => FetchTypeOK
  BY DEF IInv
<1>2. QED
  BY <1>1, Invariance, PTL

\* A block comes out whole, with what the node called its receipts, or not at
\* all.
THEOREM NoneShortOfReceipts == FetchSpec => []WholeOrAbsent
<1>1. IInv => WholeOrAbsent
  BY DEF IInv
<1>2. QED
  BY <1>1, Invariance, PTL

\* Every block the node gave whole is in the result of a fetch that ends well.
THEOREM NothingIsLost == FetchSpec => []NoneLost
<1>1. IInv => NoneLost
  BY DEF IInv, ServedOK, NoneLost, Given
<1>2. QED
  BY <1>1, Invariance, PTL

\* The parts of the chunk tile what is left of it, and a fetch ends within four
\* requests for each block.
THEOREM BlocksAreAskedOnce == FetchSpec => []EveryBlockOnce
<1>1. ASSUME IInv PROVE FewRequests
  <2>1. requests \in Nat /\ FetchTypeOK /\ PhaseOK /\ BudgetOK
    BY <1>1 DEF IInv, FetchTypeOK
  <2>2. CASE ~Open
    BY <2>1, <2>2 DEF BudgetOK
  <2>3. CASE Open
    <3>1. /\ Head(spans).from \in First..Last /\ Head(spans).to \in First..Last
          /\ Head(spans).from <= Head(spans).to
          /\ Len(spans) \in Nat /\ Len(spans) - 1 <= Last - Head(spans).to
      BY <1>1, <2>3, OpenFacts
    <3>2. requests <= Spent + 1 + Head(spans).to - Head(spans).from
      <4>1. CASE pc = "blocks" \/ pc = "receipts"
        <5>1. Spent \in Int /\ requests <= Spent
          BY <4>1, <2>1, <3>1, Bounds DEF BudgetOK, Spent
        <5>2. /\ Head(spans).from \in Int /\ Head(spans).to \in Int
              /\ Head(spans).from <= Head(spans).to
          BY <3>1, Bounds
        <5>3. QED
          BY <2>1, <5>1, <5>2
      <4>2. CASE pc = "retry"
        <5>1. PICK b \in short : b \in Head(spans).from..Head(spans).to
          BY <1>1, <4>2, ReceiptFacts
        <5>2. requests <= Spent + 1 + b - Head(spans).from
          BY <4>2, <2>1, <5>1 DEF BudgetOK
        <5>3. /\ b \in Int /\ Head(spans).from \in Int /\ Head(spans).to \in Int
              /\ b <= Head(spans).to
          BY <3>1, <5>1, Bounds
        <5>4. requests \in Int /\ Spent \in Int
          BY <2>1, <3>1, Bounds DEF Spent
        <5>5. QED
          BY <5>2, <5>3, <5>4
      <4>3. QED
        BY <2>1, <2>3, <4>1, <4>2 DEF PhaseOK
    <3> DEFINE from == Head(spans).from
               to == Head(spans).to
               n == Len(spans)
    <3>3. /\ from \in Int /\ to \in Int /\ n \in Int /\ First \in Int /\ Last \in Int
          /\ requests \in Int /\ to <= Last /\ n - 1 <= Last - to
          /\ requests <= 4 * (from - First) + n + 1 + to - from /\ from <= to
      BY <2>1, <3>1, <3>2, Bounds DEF Spent
    <3> HIDE DEF from, to, n
    <3>4. QED
      BY <3>3 DEF FewRequests
  <2>4. QED
    BY <2>2, <2>3
<1>2. IInv => PartsTile
  BY DEF IInv, Tiles, ResultOK, Open, PartsTile
<1>3. QED
  BY <1>1, <1>2, Invariance, PTL DEF EveryBlockOnce

-----------------------------------------------------------------------------
(***************************************************************************)
(* Receipts.                                                               *)
(***************************************************************************)
\* The rows a block has, and those of the logs read.
TransferPlaces == {i \in Places : IsTransfer(Logs[i])}
WritePlaces == {i \in Places : IsWrite(Logs[i])}
Below(S, at) == {i \in S : i < at}
Tables == {ByPlace(S) : S \in SUBSET Places}
TxRow == [token : BOOLEAN, fee : Nat]

\* Nothing tells the fee of a transaction but a transfer still to come, or what
\* is known of it is what was charged.
FeeSoFar(x, row, said, at) ==
  /\ row.token = ("token" \in said)
  /\ FeeTold(x, said) =>
       \/ row.fee = Charges[x]
       \/ /\ row.fee = 0
          /\ said \cap {"object", "receipt"} = {}
          /\ ~\E i \in Below(Places, at) : Logs[i].tx = x /\ Logs[i].is = "fee"

\* What is made of a fetch: the rows of the logs below the one it stands at.
BundleOK ==
  bundle # NoBundle =>
    /\ bundle \in [at : 1..(Len(Logs) + 1), next : Nat, transfers : Tables, writes : Tables,
                   txs : [TxIds -> TxRow], says : Says]
    /\ bundle.next = bundle.at - 1
    /\ bundle.transfers = ByPlace(Below(TransferPlaces, bundle.at))
    /\ bundle.writes = ByPlace(Below(WritePlaces, bundle.at))
    /\ \A x \in TxIds : FeeSoFar(x, bundle.txs[x], bundle.says[x], bundle.at)

\* What is on record: the rows of them all.
RecordedOK ==
  recorded # NoRows =>
    /\ recorded \in [transfers : Tables, writes : Tables, txs : [TxIds -> TxRow], says : Says]
    /\ OnRecordAsOnChain

ReceiptsInv == BundleOK /\ RecordedOK

\* No node gives a place that does not parse: `log_indexes` is the counterexample.
PlacesParse == "garbage" \notin Spellings

\* What a log is, and where it stands.
LEMMA PlaceFacts ==
  /\ Len(Logs) \in Nat /\ Places = 1..Len(Logs) /\ Places \subseteq Nat
  /\ \A i \in Places : Logs[i].tx \in TxIds /\ Logs[i].is \in TransferLogs \cup {"write", "misfit"}
                         /\ Logs[i].amount \in Nat
<1> DEFINE Log == [tx : TxIds, is : TransferLogs \cup {"write", "misfit"}, amount : Nat]
<1>1. Logs \in Seq(Log)
  BY ReceiptsAssumption
<1>2. Len(Logs) \in Nat /\ Places = 1..Len(Logs) /\ \A i \in Places : Logs[i] \in Log
  <2> HIDE DEF Log
  <2>1. QED
    BY <1>1 DEF Places
<1>3. QED
  BY <1>2

\* A log's row joins the others.
LEMMA RowInserted ==
  ASSUME NEW S \in SUBSET Places, NEW i \in Places, i \notin S
  PROVE  Insert(ByPlace(S), PlaceOf(i), i) = ByPlace(S \cup {i})
BY PlaceFacts DEF Insert, InsertAll, ByPlace, PlaceOf

\* A row that is there is not written over.
LEMMA RowThere ==
  ASSUME NEW S \in SUBSET Places, NEW i \in S
  PROVE  Insert(ByPlace(S), PlaceOf(i), i) = ByPlace(S)
BY PlaceFacts DEF Insert, InsertAll, ByPlace, PlaceOf

\* The rows of a block fetched again are the ones there, or the first.
LEMMA RowsMerged ==
  ASSUME NEW S \in SUBSET Places
  PROVE  /\ InsertAll(ByPlace(S), ByPlace(S)) = ByPlace(S)
         /\ InsertAll(<<>>, ByPlace(S)) = ByPlace(S)
BY PlaceFacts DEF ByPlace, InsertAll

\* A bundle that stands at a log is one.
LEMMA NotYet == bundle.at # 0 => bundle # NoBundle
BY DEF NoBundle

\* One log more, if its place can be told.
LEMMA LogPlaced ==
  ASSUME PlacesParse, NEW spelt \in Spellings, NEW i \in Places
  PROVE  LogIndex(spelt, i, i - 1) = PlaceOf(i)
BY PlaceFacts DEF PlacesParse, LogIndex, ParseInt, PlaceOf

\* The rows below a place, from none to all of them.
LEMMA RowsBelow ==
  ASSUME NEW S \in SUBSET Places
  PROVE  /\ Below(S, 1) = {} /\ Below(S, Len(Logs) + 1) = S
         /\ \A i \in Places :
              /\ Below(S, i + 1) = IF i \in S THEN Below(S, i) \cup {i} ELSE Below(S, i)
              /\ i \notin Below(S, i) /\ Below(S, i) \in SUBSET Places
<1>1. \A i \in Places : i \in Nat /\ 1 <= i /\ i <= Len(Logs)
  BY PlaceFacts
<1>2. Below(S, 1) = {}
  <2>1. \A i \in S : ~(i < 1)
    BY <1>1
  <2>2. QED
    BY <2>1 DEF Below
<1>3. Below(S, Len(Logs) + 1) = S
  <2>1. \A i \in S : i < Len(Logs) + 1
    BY <1>1, PlaceFacts
  <2>2. QED
    BY <2>1 DEF Below
<1>4. ASSUME NEW i \in Places
      PROVE  /\ Below(S, i + 1) = IF i \in S THEN Below(S, i) \cup {i} ELSE Below(S, i)
             /\ i \notin Below(S, i) /\ Below(S, i) \in SUBSET Places
  BY <1>1 DEF Below
<1>5. QED
  BY <1>2, <1>3, <1>4

\* A log tells the fee of its own transaction, or nothing.
LEMMA FeeDerived ==
  ASSUME NEW i \in Places, NEW x \in TxIds, NEW row \in TxRow, NEW said \in SUBSET {"object", "receipt", "token"},
         FeeSoFar(x, row, said, i)
  PROVE  LET new == IF Logs[i].tx = x THEN DeriveFeeFromTransfer(row, Logs[i]) ELSE row
         IN  new \in TxRow /\ FeeSoFar(x, new, said, i + 1)
<1> DEFINE log == Logs[i]
           derived == DeriveFeeFromTransfer(row, log)
           new == IF log.tx = x THEN derived ELSE row
           untold == ~\E j \in Below(Places, i) : Logs[j].tx = x /\ Logs[j].is = "fee"
<1>1. /\ log.amount \in Nat /\ Charges[x] \in Nat /\ MaxInt \in Nat
      /\ log.is = "fee" /\ log.tx = x => log.amount = Charges[x]
  BY PlaceFacts, ReceiptsAssumption, FeesAssumption
<1>2. Below(Places, i + 1) = Below(Places, i) \cup {i}
  BY RowsBelow
<1>3. /\ derived \in TxRow /\ derived.token = row.token
      /\ derived.fee = IF log.is \in {"fee", "deposit"} /\ row.token /\ row.fee \notin 1..MaxInt
                       THEN log.amount ELSE row.fee
  BY <1>1 DEF DeriveFeeFromTransfer, TxRow
<1> HIDE DEF derived
<1>4. new \in TxRow /\ new.token = ("token" \in said)
  BY <1>3 DEF FeeSoFar
<1>5. ASSUME FeeTold(x, said), row.fee = Charges[x]
      PROVE  new.fee = Charges[x]
  <2>1. CASE log.tx = x /\ log.is = "deposit"
    <3>1. Charges[x] \in 1..MaxInt
      BY <1>5, <2>1 DEF FeeTold
    <3>2. QED
      BY <1>3, <1>5, <2>1, <3>1
  <2>2. CASE log.tx = x /\ log.is # "deposit"
    BY <1>1, <1>3, <1>5, <2>2
  <2>3. CASE log.tx # x
    BY <1>5, <2>3
  <2>4. QED
    BY <2>1, <2>2, <2>3
<1>6. ASSUME FeeTold(x, said), row.fee = 0, said \cap {"object", "receipt"} = {}, untold
      PROVE  \/ new.fee = Charges[x]
             \/ new.fee = 0 /\ ~(log.tx = x /\ log.is = "fee")
  <2>1. "token" \in said /\ ~\E j \in Places : Logs[j].tx = x /\ Logs[j].is = "deposit"
    BY <1>6 DEF FeeTold
  <2>2. row.token
    BY <2>1 DEF FeeSoFar
  <2>3. log.tx = x => log.is # "deposit"
    BY <2>1
  <2>4. 0 \notin 1..MaxInt
    BY <1>1
  <2>5. QED
    BY <1>1, <1>3, <1>6, <2>2, <2>3, <2>4
<1>7. FeeTold(x, said) =>
        \/ new.fee = Charges[x]
        \/ /\ new.fee = 0
           /\ said \cap {"object", "receipt"} = {}
           /\ ~\E j \in Below(Places, i + 1) : Logs[j].tx = x /\ Logs[j].is = "fee"
  BY <1>2, <1>5, <1>6 DEF FeeSoFar
<1> HIDE DEF new
<1>8. new \in TxRow /\ FeeSoFar(x, new, said, i + 1)
  BY <1>4, <1>7 DEF FeeSoFar
<1>9. QED
  BY <1>8 DEF new, derived

\* What the fields of a transaction and its receipt tell.
LEMMA FeeStated ==
  ASSUME NEW x \in TxIds, NEW said \in SUBSET {"object", "receipt", "token"}
  PROVE  LET row == ApplyReceiptFields(ParseTransaction(x, said), x, said)
         IN  row \in TxRow /\ FeeSoFar(x, row, said, 1)
<1>1. Charges[x] \in Nat /\ Below(Places, 1) = {}
  BY ReceiptsAssumption, RowsBelow
<1>2. QED
  BY <1>1 DEF ApplyReceiptFields, ParseTransaction, TxRow, FeeSoFar

\* A new bundle has no rows, and the fees that are stated.
LEMMA FetchedStep == ASSUME ReceiptsInv, NEW says \in Says, Fetched(says) PROVE ReceiptsInv'
<1> DEFINE row(x) == ApplyReceiptFields(ParseTransaction(x, says[x]), x, says[x])
<1>1. bundle' = [at |-> 1, next |-> 0, transfers |-> <<>>, writes |-> <<>>, says |-> says,
                 txs |-> [x \in TxIds |-> row(x)]]
      /\ recorded' = recorded
  BY DEF Fetched
<1>2. \A x \in TxIds : row(x) \in TxRow /\ FeeSoFar(x, row(x), says[x], 1)
  BY FeeStated DEF Says
<1>3. /\ Below(TransferPlaces, 1) = {} /\ Below(WritePlaces, 1) = {}
      /\ ByPlace({}) = <<>> /\ ByPlace({}) \in Tables
  <2>1. TransferPlaces \in SUBSET Places /\ WritePlaces \in SUBSET Places
    BY DEF TransferPlaces, WritePlaces
  <2>2. Below(TransferPlaces, 1) = {} /\ Below(WritePlaces, 1) = {}
    BY <2>1, RowsBelow
  <2>3. ByPlace({}) = [k \in {} |-> k + 1]
    BY DEF ByPlace
  <2>4. ByPlace({}) = <<>>
    BY <2>3
  <2>5. ByPlace({}) \in Tables
    BY <2>2, PlaceFacts DEF Tables
  <2>6. QED
    BY <2>2, <2>4, <2>5
<1> HIDE DEF row
<1>4. bundle' \in [at : 1..(Len(Logs) + 1), next : Nat, transfers : Tables, writes : Tables,
                    txs : [TxIds -> TxRow], says : Says]
  BY <1>1, <1>2, <1>3, PlaceFacts
<1>5. \A x \in TxIds : FeeSoFar(x, bundle'.txs[x], bundle'.says[x], bundle'.at)
  BY <1>1, <1>2
<1>6. BundleOK'
  <2>1. /\ bundle'.at = 1 /\ bundle'.next = bundle'.at - 1
        /\ bundle'.transfers = <<>> /\ bundle'.writes = <<>>
    BY <1>1
  <2>2. /\ bundle'.transfers = ByPlace(Below(TransferPlaces, bundle'.at))
        /\ bundle'.writes = ByPlace(Below(WritePlaces, bundle'.at))
    BY <1>3, <2>1
  <2>3. QED
    BY <1>4, <1>5, <2>1, <2>2 DEF BundleOK
<1>7. QED
  BY <1>1, <1>6 DEF ReceiptsInv, RecordedOK, OnRecordAsOnChain

\* One log more.
LEMMA IndexStep ==
  ASSUME PlacesParse, ReceiptsInv, NEW spelt \in Spellings, IndexLog(spelt)
  PROVE  ReceiptsInv'
<1> DEFINE i == bundle.at
           log == Logs[i]
<1>1. i \in Places /\ bundle # NoBundle /\ i \in Nat \ {0}
  BY NotYet, PlaceFacts DEF IndexLog
<1>2. /\ bundle \in [at : 1..(Len(Logs) + 1), next : Nat, transfers : Tables, writes : Tables,
                     txs : [TxIds -> TxRow], says : Says]
      /\ bundle.next = i - 1
      /\ bundle.transfers = ByPlace(Below(TransferPlaces, i))
      /\ bundle.writes = ByPlace(Below(WritePlaces, i))
      /\ \A x \in TxIds : FeeSoFar(x, bundle.txs[x], bundle.says[x], i)
  BY <1>1 DEF ReceiptsInv, BundleOK
<1>3. LogIndex(spelt, i, bundle.next) = PlaceOf(i)
  BY <1>1, <1>2, LogPlaced
<1>4. /\ bundle' = [bundle EXCEPT
            !.at = @ + 1,
            !.next = IF @ > PlaceOf(i) THEN @ ELSE PlaceOf(i) + 1,
            !.transfers = IF IsTransfer(log) THEN Insert(@, PlaceOf(i), i) ELSE @,
            !.writes = IF IsWrite(log) THEN Insert(@, PlaceOf(i), i) ELSE @,
            !.txs[log.tx] = DeriveFeeFromTransfer(@, log)]
      /\ recorded' = recorded
  BY <1>3 DEF IndexLog
<1>5. bundle'.at = i + 1 /\ bundle'.next = i /\ bundle'.says = bundle.says
  BY <1>1, <1>2, <1>4 DEF PlaceOf
<1>6. /\ bundle'.transfers = ByPlace(Below(TransferPlaces, i + 1))
      /\ Below(TransferPlaces, i + 1) \in SUBSET Places
  <2>1. /\ TransferPlaces \in SUBSET Places
        /\ bundle'.transfers = IF i \in TransferPlaces THEN Insert(bundle.transfers, PlaceOf(i), i)
                               ELSE bundle.transfers
    BY <1>1, <1>2, <1>4 DEF TransferPlaces
  <2>2. /\ Below(TransferPlaces, i + 1) = IF i \in TransferPlaces THEN Below(TransferPlaces, i) \cup {i}
                                       ELSE Below(TransferPlaces, i)
        /\ i \notin Below(TransferPlaces, i) /\ Below(TransferPlaces, i) \in SUBSET Places
    BY <1>1, <2>1, RowsBelow
  <2>3. Insert(ByPlace(Below(TransferPlaces, i)), PlaceOf(i), i) = ByPlace(Below(TransferPlaces, i) \cup {i})
    BY <1>1, <2>2, RowInserted
  <2>4. QED
    BY <1>1, <1>2, <2>1, <2>2, <2>3
<1>7. /\ bundle'.writes = ByPlace(Below(WritePlaces, i + 1))
      /\ Below(WritePlaces, i + 1) \in SUBSET Places
  <2>1. /\ WritePlaces \in SUBSET Places
        /\ bundle'.writes = IF i \in WritePlaces THEN Insert(bundle.writes, PlaceOf(i), i)
                            ELSE bundle.writes
    BY <1>1, <1>2, <1>4 DEF WritePlaces
  <2>2. /\ Below(WritePlaces, i + 1) = IF i \in WritePlaces THEN Below(WritePlaces, i) \cup {i}
                                       ELSE Below(WritePlaces, i)
        /\ i \notin Below(WritePlaces, i) /\ Below(WritePlaces, i) \in SUBSET Places
    BY <1>1, <2>1, RowsBelow
  <2>3. Insert(ByPlace(Below(WritePlaces, i)), PlaceOf(i), i) = ByPlace(Below(WritePlaces, i) \cup {i})
    BY <1>1, <2>2, RowInserted
  <2>4. QED
    BY <1>1, <1>2, <2>1, <2>2, <2>3
<1>8. /\ bundle'.txs = [bundle.txs EXCEPT ![log.tx] = DeriveFeeFromTransfer(@, log)]
      /\ log.tx \in TxIds
  BY <1>1, <1>2, <1>4, PlaceFacts
<1>9. \A x \in TxIds :
        bundle'.txs[x] = IF log.tx = x THEN DeriveFeeFromTransfer(bundle.txs[x], log) ELSE bundle.txs[x]
  BY <1>2, <1>8
<1>10. \A x \in TxIds : bundle'.txs[x] \in TxRow /\ FeeSoFar(x, bundle'.txs[x], bundle.says[x], i + 1)
  <2>1. TAKE x \in TxIds
  <2>2. bundle.txs[x] \in TxRow /\ bundle.says[x] \in SUBSET {"object", "receipt", "token"}
    BY <1>2 DEF Says
  <2>3. QED
    BY <1>1, <1>2, <1>9, <2>2, FeeDerived
<1>11. /\ bundle' \in [at : 1..(Len(Logs) + 1), next : Nat, transfers : Tables, writes : Tables,
                       txs : [TxIds -> TxRow], says : Says]
  <2>1. DOMAIN bundle'.txs = TxIds /\ bundle'.txs = [x \in TxIds |-> bundle'.txs[x]]
    BY <1>2, <1>8
  <2>2. bundle'.txs \in [TxIds -> TxRow]
    BY <1>10, <2>1
  <2>3. bundle'.transfers \in Tables /\ bundle'.writes \in Tables
    BY <1>6, <1>7 DEF Tables
  <2>4. bundle' = [at |-> i + 1, next |-> i, transfers |-> bundle'.transfers, writes |-> bundle'.writes,
                   txs |-> bundle'.txs, says |-> bundle.says]
    BY <1>2, <1>4, <1>5
  <2>5. i + 1 \in 1..(Len(Logs) + 1)
    BY <1>1, PlaceFacts
  <2>6. QED
    BY <1>1, <1>2, <2>2, <2>3, <2>4, <2>5
<1>12. BundleOK'
  BY <1>1, <1>5, <1>6, <1>7, <1>10, <1>11 DEF BundleOK
<1>13. QED
  BY <1>4, <1>12 DEF ReceiptsInv, RecordedOK, OnRecordAsOnChain

\* The bundle put on record.
LEMMA SaveStep == ASSUME ReceiptsInv, SaveBundle PROVE ReceiptsInv'
<1> DEFINE end == Len(Logs) + 1
<1>1. bundle.at = end /\ bundle # NoBundle /\ end \in Nat
  BY NotYet, PlaceFacts DEF SaveBundle
<1>2. TransferPlaces \in SUBSET Places /\ WritePlaces \in SUBSET Places
  BY DEF TransferPlaces, WritePlaces
<1>3. /\ bundle.transfers = ByPlace(TransferPlaces) /\ bundle.writes = ByPlace(WritePlaces)
      /\ bundle.txs \in [TxIds -> TxRow] /\ bundle.says \in Says
      /\ \A x \in TxIds : FeeSoFar(x, bundle.txs[x], bundle.says[x], end)
  <2>1. Below(TransferPlaces, end) = TransferPlaces /\ Below(WritePlaces, end) = WritePlaces
    BY <1>2, RowsBelow
  <2>2. QED
    BY <1>1, <2>1 DEF ReceiptsInv, BundleOK
<1>4. \A x \in TxIds : FeeTold(x, bundle.says[x]) => bundle.txs[x].fee = Charges[x]
  <2>1. TAKE x \in TxIds
  <2>2. Below(Places, end) = Places
    BY RowsBelow
  <2>3. QED
    BY <1>3, <2>2, FeesAssumption DEF FeeSoFar
<1>5. /\ recorded.transfers = <<>> \/ recorded.transfers = ByPlace(TransferPlaces)
      /\ recorded.writes = <<>> \/ recorded.writes = ByPlace(WritePlaces)
  BY DEF ReceiptsInv, RecordedOK, OnRecordAsOnChain, NoRows, TransferPlaces, WritePlaces
<1>6. /\ InsertAll(recorded.transfers, bundle.transfers) = ByPlace(TransferPlaces)
      /\ InsertAll(recorded.writes, bundle.writes) = ByPlace(WritePlaces)
  BY <1>2, <1>3, <1>5, RowsMerged
<1>7. /\ recorded' = [transfers |-> ByPlace(TransferPlaces), writes |-> ByPlace(WritePlaces),
                      txs |-> bundle.txs, says |-> bundle.says]
      /\ bundle' = NoBundle
  BY <1>6 DEF SaveBundle
<1>8. recorded' \in [transfers : Tables, writes : Tables, txs : [TxIds -> TxRow], says : Says]
  BY <1>2, <1>3, <1>7 DEF Tables
<1>9. OnRecordAsOnChain'
  BY <1>4, <1>7 DEF OnRecordAsOnChain, TransferPlaces, WritePlaces
<1>10. QED
  BY <1>7, <1>8, <1>9 DEF ReceiptsInv, BundleOK, RecordedOK

\* The anchoring backfill finds its rows there.
LEMMA BackfillStep ==
  ASSUME PlacesParse, ReceiptsInv, NEW i \in Places, NEW spelt \in Spellings, SaveLog(i, spelt)
  PROVE  recorded' = recorded /\ bundle' = bundle
<1>1. ParseInt(spelt, i) = PlaceOf(i)
  BY DEF PlacesParse, ParseInt
<1>2. recorded # NoRows /\ i \in WritePlaces /\ WritePlaces \in SUBSET Places
  BY DEF SaveLog, WritePlaces
<1>3. /\ recorded \in [transfers : Tables, writes : Tables, txs : [TxIds -> TxRow], says : Says]
      /\ recorded.writes = ByPlace(WritePlaces)
  BY <1>2 DEF ReceiptsInv, RecordedOK, OnRecordAsOnChain, WritePlaces
<1>4. Insert(recorded.writes, ParseInt(spelt, i), i) = recorded.writes
  BY <1>1, <1>2, <1>3, RowThere
<1>5. QED
  BY <1>3, <1>4 DEF SaveLog

\* A step of something else.
LEMMA SameReceipts == ReceiptsInv /\ UNCHANGED receiptsVars => ReceiptsInv'
BY DEF ReceiptsInv, BundleOK, RecordedOK, OnRecordAsOnChain, receiptsVars

\* The inductive invariant: what is made of a fetch so far are the rows of the
\* logs read, and what is on record are those of all of them.
LEMMA ReceiptsInvariance == ASSUME PlacesParse PROVE ReceiptsSpec => []ReceiptsInv
<1>1. ReceiptsInit => ReceiptsInv
  BY DEF ReceiptsInit, ReceiptsInv, BundleOK, RecordedOK
<1>2. ReceiptsInv /\ [ReceiptsNext]_receiptsVars => ReceiptsInv'
  <2> SUFFICES ASSUME ReceiptsInv, [ReceiptsNext]_receiptsVars PROVE ReceiptsInv'
    OBVIOUS
  <2>1. CASE \E says \in Says : Fetched(says)
    BY <2>1, FetchedStep
  <2>2. CASE \E spelt \in Spellings : IndexLog(spelt)
    BY <2>2, IndexStep
  <2>3. CASE SaveBundle
    BY <2>3, SaveStep
  <2>4. CASE \E i \in Places, spelt \in Spellings : SaveLog(i, spelt)
    BY <2>4, BackfillStep, SameReceipts DEF receiptsVars
  <2>5. CASE UNCHANGED receiptsVars
    BY <2>5, SameReceipts
  <2>6. QED
    BY <2>1, <2>2, <2>3, <2>4, <2>5 DEF ReceiptsNext
<1>3. QED
  BY <1>1, <1>2, PTL DEF ReceiptsSpec

\* Whatever a node leaves out, a block's transfers, anchoring rows and fees end up
\* on record as they are on the chain, as long as the places it gives parse.
THEOREM RecordIsTheChain == ASSUME PlacesParse PROVE ReceiptsSpec => []OnRecordAsOnChain
<1>1. ReceiptsInv => OnRecordAsOnChain
  BY DEF ReceiptsInv, RecordedOK, OnRecordAsOnChain
<1>2. QED
  BY <1>1, ReceiptsInvariance, PTL
-----------------------------------------------------------------------------
(***************************************************************************)
(* Process: who waits for whom, and who may end.                           *)
(***************************************************************************)
WatcherRecord == [pc : {"check", "ask", "send", "wait", "gone"},
                  until : {"socket", "pause", "over", "never"}, head : 0..chain]
SocketRecord == [pc : {"none", "connect", "open", "send", "failed", "closed"}, head : 0..chain]
ForwardRecord == [pc : {"recv", "seed", "turn", "fetch", "send", "gone"},
                  sent : 0..chain, head : 0..chain]

WatcherTypes ==
  /\ watcher \in WatcherRecord /\ socket \in SocketRecord
  /\ heads \in Seq(0..chain) /\ Len(heads) <= HeadCap

ForwardTypes ==
  /\ forward \in ForwardRecord
  /\ forward.pc \in {"fetch", "send"} => forward.sent < forward.head

WriterTypes ==
  /\ backfill \in {"look", "send", "gone"}
  /\ bundles \in 0..QueueCap
  /\ writer \in {"recv", "write", "retry", "gone"}

MainTypes ==
  /\ shutdown \in BOOLEAN
  /\ main \in {"serve", "flush", "exited", "cut"}
  /\ open \in 0..MaxOpen

LEMMA TypeParts ==
  ProcessTypeOK <=> chain \in 0..MaxHead /\ WatcherTypes /\ ForwardTypes /\ WriterTypes /\ MainTypes
BY DEF ProcessTypeOK, WatcherTypes, ForwardTypes, WriterTypes, MainTypes,
       WatcherRecord, SocketRecord, ForwardRecord

LEMMA Sizes ==
  /\ MaxHead \in Nat \ {0} /\ HeadCap \in Nat \ {0} /\ IndexWs \in BOOLEAN
  /\ QueueCap \in Nat \ {0} /\ MaxBatch \in Nat \ {0} /\ MaxOpen \in Nat
BY WatcherAssumption, ProcessAssumption

\* Some heads have a highest.
LEMMA HighestFacts ==
  ASSUME NEW n \in Nat, NEW S \in SUBSET (0..n), S # {}
  PROVE  Highest(S) \in S /\ \A m \in S : m <= Highest(S)
<1> DEFINE Before == {p \in Nat \X Nat : p[1] < p[2]}
           Above == {n - m : m \in S}
<1>1. IsWellFoundedOn(Before, Nat)
  <2>1. OpToRel(<, Nat) = Before
    BY DEF OpToRel
  <2> HIDE DEF Before
  <2>2. QED
    BY <2>1, NatLessThanWellFounded
<1>2. \A x, y \in Nat : <<x, y>> \in Before <=> x < y
  OBVIOUS
<1>3. Above \subseteq Nat /\ Above # {}
  <2>1. \A m \in S : n - m \in Nat
    OBVIOUS
  <2>2. QED
    BY <2>1
<1> HIDE DEF Before
<1>4. PICK d \in Above : \A y \in Above : ~(<<y, d>> \in Before)
  <2> HIDE DEF Above
  <2>1. QED
    BY <1>1, <1>3, WFMin
<1>5. PICK k \in S : d = n - k
  OBVIOUS
<1>6. \A m \in S : m <= k
  <2> SUFFICES ASSUME NEW m \in S PROVE m <= k
    OBVIOUS
  <2>1. n - m \in Above /\ n - m \in Nat /\ d \in Nat
    BY <1>3
  <2>2. ~(n - m < d)
    BY <1>2, <1>4, <2>1
  <2>3. QED
    BY <1>5, <2>2
<1>7. QED
  BY <1>6 DEF Highest

LEMMA QueuedFacts ==
  ASSUME ProcessTypeOK
  PROVE  Queued \in SUBSET (0..chain) /\ chain \in Nat /\ (heads # <<>> => Queued # {})
<1>1. heads \in Seq(0..chain) /\ chain \in Nat
  BY Sizes DEF ProcessTypeOK
<1>2. \A i \in 1..Len(heads) : heads[i] \in 0..chain
  BY <1>1
<1>3. heads # <<>> => 1 \in 1..Len(heads)
  BY <1>1
<1>4. QED
  BY <1>1, <1>2, <1>3 DEF Queued

LEMMA HeadSent ==
  ASSUME ProcessTypeOK, NEW head \in 0..chain, Len(heads) < HeadCap
  PROVE  Append(heads, head) \in Seq(0..chain) /\ Len(Append(heads, head)) <= HeadCap
<1>1. heads \in Seq(0..chain) /\ Len(heads) \in Nat
  BY DEF ProcessTypeOK
<1>2. Len(Append(heads, head)) = Len(heads) + 1 /\ Append(heads, head) \in Seq(0..chain)
  BY <1>1
<1>3. QED
  BY <1>1, <1>2, Sizes

\* The watcher's and the socket's step is right when each part of it is.
LEMMA WatcherTypesKept ==
  ASSUME UNCHANGED chain, watcher' \in WatcherRecord, socket' \in SocketRecord,
         heads' \in Seq(0..chain), Len(heads') <= HeadCap
  PROVE  WatcherTypes'
BY DEF WatcherTypes, WatcherRecord, SocketRecord

LEMMA PollTypes == ASSUME ProcessTypeOK, RunPoll PROVE WatcherTypes'
<1>1. /\ watcher \in WatcherRecord /\ socket \in SocketRecord /\ chain \in Nat
      /\ heads \in Seq(0..chain) /\ Len(heads) <= HeadCap
  BY Sizes DEF ProcessTypeOK, WatcherRecord, SocketRecord
<1>2. Leave => watcher' \in WatcherRecord /\ socket' \in SocketRecord
  BY <1>1 DEF Leave, NoSocket, WatcherRecord, SocketRecord
<1>3. NoSocket \in SocketRecord /\ NewSocket \in SocketRecord
  BY <1>1 DEF NoSocket, NewSocket, SocketRecord
<1>4. \A next \in {"check", "ask", "send", "wait"}, until \in {"socket", "pause"}, head \in 0..chain :
        /\ [watcher EXCEPT !.pc = next] \in WatcherRecord
        /\ [watcher EXCEPT !.pc = next, !.head = head] \in WatcherRecord
        /\ [watcher EXCEPT !.pc = next, !.until = until] \in WatcherRecord
  BY <1>1 DEF WatcherRecord
<1>5. 0 \in 0..chain /\ chain \in 0..chain
  BY <1>1
<1>6. CASE CheckShutdown
  BY <1>1, <1>2, <1>4, <1>5, <1>6, WatcherTypesKept DEF CheckShutdown
<1>7. CASE HeadPolled
  BY <1>1, <1>4, <1>5, <1>7, WatcherTypesKept DEF HeadPolled
<1>8. CASE PollFailed
  BY <1>1, <1>4, <1>5, <1>8, WatcherTypesKept DEF PollFailed
<1>9. CASE SendPolled
  <2>1. CASE ReceiverGone
    BY <1>1, <1>2, <1>9, <2>1, WatcherTypesKept DEF SendPolled
  <2>2. CASE ~ReceiverGone
    <3>1. watcher.head \in 0..chain
      BY <1>1 DEF WatcherRecord
    <3>2. heads' \in Seq(0..chain) /\ Len(heads') <= HeadCap
      BY <1>9, <2>2, <3>1, HeadSent DEF SendPolled, HeadRoom
    <3>3. watcher' \in WatcherRecord /\ UNCHANGED <<chain, socket>>
      BY <1>4, <1>5, <1>9, <2>2 DEF SendPolled
    <3>4. QED
      BY <1>1, <3>2, <3>3, WatcherTypesKept
  <2>3. QED
    BY <2>1, <2>2
<1>10. CASE PollAgain
  BY <1>1, <1>4, <1>5, <1>10, WatcherTypesKept DEF PollAgain
<1>11. CASE StopPolling
  BY <1>1, <1>2, <1>11, WatcherTypesKept DEF StopPolling
<1>12. CASE SocketEnded
  BY <1>1, <1>3, <1>4, <1>5, <1>12, WatcherTypesKept DEF SocketEnded
<1>13. CASE Resubscribe
  BY <1>1, <1>3, <1>4, <1>5, <1>13, WatcherTypesKept DEF Resubscribe
<1>14. QED
  BY <1>6, <1>7, <1>8, <1>9, <1>10, <1>11, <1>12, <1>13 DEF RunPoll

LEMMA SocketTypes == ASSUME ProcessTypeOK, RunSocket \/ PauseRunsOut PROVE WatcherTypes'
<1>1. /\ watcher \in WatcherRecord /\ socket \in SocketRecord /\ chain \in Nat
      /\ heads \in Seq(0..chain) /\ Len(heads) <= HeadCap
  BY Sizes DEF ProcessTypeOK, WatcherRecord, SocketRecord
<1>2. \A next \in {"open", "send", "failed", "closed"}, head \in 0..chain :
        /\ [socket EXCEPT !.pc = next] \in SocketRecord
        /\ [pc |-> next, head |-> head] \in SocketRecord
  BY <1>1 DEF SocketRecord
<1>3. 0 \in 0..chain /\ chain \in 0..chain /\ socket.head \in 0..chain
  BY <1>1 DEF SocketRecord
<1>4. CASE SocketOpens \/ SocketTold \/ SocketFails \/ SocketCloses
  <2>1. socket' \in SocketRecord /\ UNCHANGED <<chain, watcher, heads>>
    BY <1>2, <1>3, <1>4 DEF SocketOpens, SocketTold, SocketFails, SocketCloses
  <2>2. QED
    BY <1>1, <2>1, WatcherTypesKept
<1>5. CASE SendTold
  <2>1. socket' \in SocketRecord /\ UNCHANGED <<chain, watcher>>
    BY <1>2, <1>3, <1>5 DEF SendTold
  <2>2. heads' \in Seq(0..chain) /\ Len(heads') <= HeadCap
    BY <1>1, <1>3, <1>5, HeadSent DEF SendTold, HeadRoom
  <2>3. QED
    BY <1>1, <2>1, <2>2, WatcherTypesKept
<1>6. CASE PauseRunsOut
  <2>1. watcher' \in WatcherRecord /\ UNCHANGED <<chain, socket, heads>>
    BY <1>1, <1>6 DEF PauseRunsOut, WatcherRecord
  <2>2. QED
    BY <1>1, <2>1, WatcherTypesKept
<1>7. QED
  BY <1>4, <1>5, <1>6 DEF RunSocket

\* Once round the loop the head is never lowered.
LEMMA TurnTypes ==
  ASSUME ProcessTypeOK, NEW sent \in 0..chain, NEW head \in 0..chain, Turn(sent, head)
  PROVE  heads' \in {heads, <<>>}
         /\ forward' \in [pc : {"recv", "fetch", "gone"}, sent : 0..chain, head : 0..chain]
         /\ (forward'.pc = "fetch" => forward'.sent < forward'.head)
<1>1. chain \in Nat
  BY Sizes DEF ProcessTypeOK
<1>2. /\ Highest(Queued \cup {head}) \in 0..chain
      /\ head <= Highest(Queued \cup {head})
  <2>1. Queued \cup {head} \in SUBSET (0..chain) /\ Queued \cup {head} # {}
    BY QueuedFacts
  <2>2. QED
    BY <1>1, <2>1, HighestFacts
<1>3. QED
  BY <1>1, <1>2 DEF Turn, ForwardGone

LEMMA NoHeads == ASSUME ProcessTypeOK PROVE <<>> \in Seq(0..chain) /\ Len(<<>>) = 0 /\ 0 <= HeadCap
BY Sizes

LEMMA ForwardStepTypes ==
  ASSUME ProcessTypeOK, RunForward PROVE WatcherTypes' /\ ForwardTypes' /\ bundles' \in 0..QueueCap
<1>1. /\ WatcherTypes /\ forward \in ForwardRecord /\ bundles \in 0..QueueCap
      /\ (forward.pc \in {"fetch", "send"} => forward.sent < forward.head)
      /\ chain \in Nat /\ QueueCap \in Nat
      /\ forward.sent \in 0..chain /\ forward.head \in 0..chain
  BY Sizes DEF ProcessTypeOK, WatcherTypes, ForwardRecord, WatcherRecord, SocketRecord
<1>2. ASSUME heads' \in {heads, <<>>}, UNCHANGED <<chain, watcher, socket>>
      PROVE  WatcherTypes'
  BY <1>1, <1>2, NoHeads DEF WatcherTypes, WatcherRecord, SocketRecord
<1>3. ASSUME UNCHANGED chain, forward' \in ForwardRecord,
             forward'.pc \in {"fetch", "send"} => forward'.sent < forward'.head
      PROVE  ForwardTypes'
  BY <1>3 DEF ForwardTypes, ForwardRecord
<1>4. /\ ForwardGone \in ForwardRecord /\ ForwardGone.pc = "gone"
      /\ \A next \in {"recv", "seed", "turn"}, n \in 0..chain :
           /\ [forward EXCEPT !.pc = next, !.sent = n] \in ForwardRecord
           /\ [forward EXCEPT !.pc = next, !.sent = n].pc = next
  <2>1. ForwardGone \in ForwardRecord /\ ForwardGone.pc = "gone"
    BY <1>1 DEF ForwardGone, ForwardRecord
  <2>2. ASSUME NEW next \in {"recv", "seed", "turn"}, NEW n \in 0..chain
        PROVE  /\ [forward EXCEPT !.pc = next, !.sent = n] \in ForwardRecord
               /\ [forward EXCEPT !.pc = next, !.sent = n].pc = next
    BY <1>1 DEF ForwardRecord
  <2>3. QED
    BY <2>1, <2>2
<1>5. ASSUME ForwardUnchanged, forward' \in ForwardRecord, heads' \in {heads, <<>>},
             bundles' \in 0..QueueCap, forward'.pc \in {"recv", "seed", "turn", "gone"}
      PROVE  WatcherTypes' /\ ForwardTypes' /\ bundles' \in 0..QueueCap
  BY <1>2, <1>3, <1>5 DEF ForwardUnchanged
<1>6. CASE ReceiveHeads
  <2>1. Highest(Queued) \in 0..chain
    BY <1>1, <1>6, QueuedFacts, HighestFacts DEF ReceiveHeads
  <2> DEFINE next == IF forward.sent = 0 /\ Highest(Queued) > 0 THEN "seed" ELSE "turn"
  <2>2. forward' = ForwardGone \/ forward' = [forward EXCEPT !.pc = next, !.head = Highest(Queued)]
    BY <1>6 DEF ReceiveHeads
  <2>3. next \in {"recv", "seed", "turn"}
    OBVIOUS
  <2> HIDE DEF next
  <2>4. forward' \in ForwardRecord /\ forward'.pc \in {"recv", "seed", "turn", "gone"}
    <3>1. ForwardGone \in ForwardRecord /\ ForwardGone.pc = "gone"
      BY <1>4
    <3>2. CASE forward' = [forward EXCEPT !.pc = next, !.head = Highest(Queued)]
      BY <1>1, <2>1, <2>3, <3>2 DEF ForwardRecord
    <3>3. QED
      BY <2>2, <3>1, <3>2
  <2>5. QED
    BY <1>1, <1>5, <1>6, <2>4 DEF ReceiveHeads
<1>7. CASE HeadFeedClosed
  BY <1>1, <1>4, <1>5, <1>7 DEF HeadFeedClosed
<1>8. CASE SeedOrTimeout
  <2>1. PICK n \in 0..chain :
          forward' = [forward EXCEPT !.pc = IF n = 0 \/ n >= forward.head THEN "recv" ELSE "turn",
                                     !.sent = n]
    BY <1>8 DEF SeedOrTimeout
  <2> DEFINE next == IF n = 0 \/ n >= forward.head THEN "recv" ELSE "turn"
  <2>2. next \in {"recv", "seed", "turn"} /\ forward' = [forward EXCEPT !.pc = next, !.sent = n]
    BY <2>1
  <2> HIDE DEF next
  <2>3. forward' \in ForwardRecord /\ forward'.pc \in {"recv", "seed", "turn", "gone"}
    BY <1>1, <2>2 DEF ForwardRecord
  <2>4. QED
    BY <1>1, <1>5, <1>8, <2>3 DEF SeedOrTimeout
<1>9. CASE TakeTurn \/ ForwardRests
  <2>1. Turn(forward.sent, forward.head) /\ UNCHANGED bundles /\ ForwardUnchanged
    BY <1>9 DEF TakeTurn, ForwardRests
  <2>2. /\ heads' \in {heads, <<>>}
        /\ forward' \in [pc : {"recv", "fetch", "gone"}, sent : 0..chain, head : 0..chain]
        /\ (forward'.pc = "fetch" => forward'.sent < forward'.head)
    BY <1>1, <2>1, TurnTypes
  <2>3. /\ forward' \in ForwardRecord
        /\ (forward'.pc \in {"fetch", "send"} => forward'.sent < forward'.head)
    BY <2>2 DEF ForwardRecord
  <2>4. QED
    BY <1>1, <1>2, <1>3, <2>1, <2>2, <2>3 DEF ForwardUnchanged
<1>10. CASE ForwardFetched
  <2>1. /\ forward' \in ForwardRecord /\ forward'.pc = "send"
        /\ forward'.sent = forward.sent /\ forward'.head = forward.head
    BY <1>1, <1>10 DEF ForwardFetched, ForwardRecord
  <2>2. QED
    BY <1>1, <1>2, <1>3, <1>10, <2>1 DEF ForwardFetched, ForwardUnchanged
<1>11. CASE ForwardSend
  <2>1. CASE WriterGone
    BY <1>1, <1>4, <1>5, <1>11, <2>1 DEF ForwardSend
  <2>2. CASE ~WriterGone
    <3>1. bundles' \in 0..QueueCap
      BY <1>1, <1>11, <2>2 DEF ForwardSend, BundleRoom
    <3>2. forward.sent + 1 \in 0..chain
      BY <1>1, <1>11 DEF ForwardSend
    <3>3. forward' = [forward EXCEPT !.pc = "turn", !.sent = forward.sent + 1]
      BY <1>1, <1>11, <2>2 DEF ForwardSend, ForwardRecord
    <3>4. QED
      BY <1>4, <1>5, <1>11, <3>1, <3>2, <3>3 DEF ForwardSend
  <2>3. QED
    BY <2>1, <2>2
<1>12. QED
  BY <1>6, <1>7, <1>8, <1>9, <1>10, <1>11 DEF RunForward

LEMMA WriterStepTypes == ASSUME ProcessTypeOK, RunBackfill \/ RunWriter PROVE WriterTypes'
<1>1. WriterTypes /\ QueueCap \in Nat \ {0} /\ MaxBatch \in Nat \ {0}
  BY Sizes DEF ProcessTypeOK, WriterTypes
<1>2. CASE RunBackfill
  BY <1>1, <1>2 DEF RunBackfill, BackfillFetched, BackfillStops, BackfillSend, BackfillUnchanged,
                    BundleRoom, WriterTypes
<1>3. CASE RunWriter
  BY <1>1, <1>3 DEF RunWriter, TakeBatch, BundlesClosed, Written, WriteFails, WriteAgain, RetryStops,
                    WriterUnchanged, WriterTypes
<1>4. QED
  BY <1>2, <1>3

MainSteps == Signal \/ Accept \/ Answered \/ GraceOver \/ ServerStops \/ Exit \/ ExitUnflushed

\* What each task's steps leave alone.
LEMMA OthersUnchanged ==
  /\ Grow => UNCHANGED <<shutdown, watcherVars, indexerVars, mainVars>>
  /\ (RunPoll \/ PauseRunsOut \/ RunSocket) /\ UNCHANGED others =>
       UNCHANGED <<chain, shutdown, forward, backfill, bundles, writer, mainVars>>
  /\ RunForward => UNCHANGED <<chain, shutdown, watcher, socket, backfill, writer, mainVars>>
  /\ RunBackfill => UNCHANGED <<chain, shutdown, watcherVars, forward, writer, mainVars>>
  /\ RunWriter => UNCHANGED <<chain, shutdown, watcherVars, forward, backfill, mainVars>>
  /\ MainSteps => UNCHANGED <<chain, watcherVars, indexerVars>>
<1>1. Grow => UNCHANGED <<shutdown, watcherVars, indexerVars, mainVars>>
  BY DEF Grow
<1>2. RunPoll \/ PauseRunsOut \/ RunSocket => UNCHANGED <<chain, shutdown, forward>>
  BY DEF RunPoll, CheckShutdown, HeadPolled, PollFailed, SendPolled, PollAgain, StopPolling, SocketEnded,
         Resubscribe, PauseRunsOut, RunSocket, SocketOpens, SocketTold, SendTold, SocketFails, SocketCloses
<1>3. RunForward => UNCHANGED <<chain, shutdown, watcher, socket, backfill, writer, mainVars>>
  BY DEF RunForward, ReceiveHeads, HeadFeedClosed, SeedOrTimeout, TakeTurn, ForwardFetched, ForwardRests,
         ForwardSend, ForwardUnchanged
<1>4. RunBackfill => UNCHANGED <<chain, shutdown, watcherVars, forward, writer, mainVars>>
  BY DEF RunBackfill, BackfillFetched, BackfillStops, BackfillSend, BackfillUnchanged
<1>5. RunWriter => UNCHANGED <<chain, shutdown, watcherVars, forward, backfill, mainVars>>
  BY DEF RunWriter, TakeBatch, BundlesClosed, Written, WriteFails, WriteAgain, RetryStops, WriterUnchanged
<1>6. MainSteps => UNCHANGED <<chain, watcherVars, indexerVars>>
  BY DEF MainSteps, Signal, Accept, Answered, GraceOver, ServerStops, Exit, ExitUnflushed, MainUnchanged
<1>7. QED
  BY <1>1, <1>2, <1>3, <1>4, <1>5, <1>6 DEF others

\* The chain grows, and no height known is lost.
LEMMA GrowTypes == ASSUME ProcessTypeOK, Grow PROVE ProcessTypeOK'
<1>1. /\ chain \in Nat /\ chain' = chain + 1 /\ chain' \in 0..MaxHead
      /\ UNCHANGED <<shutdown, watcherVars, indexerVars, mainVars>>
  BY Sizes DEF Grow, ProcessTypeOK
<1>2. 0..chain \subseteq 0..(chain')
  BY <1>1
<1>3. heads \in Seq(0..(chain')) /\ Len(heads) <= HeadCap
  <2>1. heads \in Seq(0..chain) /\ Len(heads) <= HeadCap
    BY DEF ProcessTypeOK
  <2>2. heads \in Seq(0..(chain'))
    BY <1>2, <2>1, SeqMonotonic
  <2>3. QED
    BY <2>1, <2>2
<1>4. watcher \in WatcherRecord' /\ socket \in SocketRecord' /\ forward \in ForwardRecord'
  <2>1. watcher \in WatcherRecord /\ socket \in SocketRecord /\ forward \in ForwardRecord
    BY DEF ProcessTypeOK, WatcherRecord, SocketRecord, ForwardRecord
  <2>2. QED
    BY <1>2, <2>1 DEF WatcherRecord, SocketRecord, ForwardRecord
<1>5. WatcherTypes' /\ ForwardTypes'
  BY <1>1, <1>3, <1>4 DEF ProcessTypeOK, WatcherTypes, ForwardTypes, watcherVars, indexerVars
<1>6. chain' \in 0..MaxHead /\ WriterTypes' /\ MainTypes'
  BY <1>1 DEF ProcessTypeOK, WriterTypes, MainTypes, indexerVars, mainVars
<1>7. QED
  BY <1>5, <1>6 DEF ProcessTypeOK, WatcherTypes, ForwardTypes, WriterTypes, MainTypes,
                    WatcherRecord, SocketRecord, ForwardRecord

LEMMA MainStepTypes == ASSUME ProcessTypeOK, MainSteps PROVE MainTypes'
<1>1. open \in 0..MaxOpen /\ MaxOpen \in Nat /\ main \in {"serve", "flush", "exited", "cut"}
  BY Sizes DEF ProcessTypeOK
<1>2. shutdown \in BOOLEAN
  BY DEF ProcessTypeOK
<1>3. open' \in 0..MaxOpen
  <2>1. CASE Accept \/ Answered
    BY <1>1, <2>1 DEF Accept, Answered
  <2>2. CASE Signal \/ GraceOver \/ ServerStops \/ Exit \/ ExitUnflushed
    <3>1. open' = open \/ open' = 0
      BY <2>2 DEF Signal, GraceOver, ServerStops, Exit, ExitUnflushed, mainVars
    <3>2. QED
      BY <1>1, <3>1
  <2>3. QED
    BY <2>1, <2>2 DEF MainSteps
<1>4. main' \in {"serve", "flush", "exited", "cut"}
  BY <1>1 DEF MainSteps, Signal, Accept, Answered, GraceOver, ServerStops, Exit, ExitUnflushed, mainVars
<1>5. shutdown' \in BOOLEAN
  BY <1>2 DEF MainSteps, Signal, Accept, Answered, GraceOver, ServerStops, Exit, ExitUnflushed, mainVars
<1>6. QED
  BY <1>3, <1>4, <1>5 DEF MainTypes

LEMMA ProcessTypeStep == ProcessTypeOK /\ [Next]_vars => ProcessTypeOK'
<1> SUFFICES ASSUME ProcessTypeOK, [Next]_vars PROVE ProcessTypeOK'
  OBVIOUS
<1> USE DEF watcherVars, indexerVars, mainVars
<1>1. chain \in 0..MaxHead /\ WatcherTypes /\ ForwardTypes /\ WriterTypes /\ MainTypes
  BY TypeParts
<1>2. CASE Grow
  BY <1>2, GrowTypes
<1>3. CASE (RunPoll \/ PauseRunsOut \/ RunSocket) /\ UNCHANGED others
  <2>1. WatcherTypes' /\ UNCHANGED <<chain, shutdown, forward, backfill, bundles, writer, mainVars>>
    BY <1>3, PollTypes, SocketTypes, OthersUnchanged
  <2>2. QED
    BY <1>1, <2>1 DEF ProcessTypeOK, WatcherTypes, ForwardTypes, WriterTypes, MainTypes,
                     WatcherRecord, SocketRecord, ForwardRecord
<1>4. CASE RunForward
  <2>1. /\ WatcherTypes' /\ ForwardTypes' /\ bundles' \in 0..QueueCap
        /\ UNCHANGED <<chain, shutdown, backfill, writer, mainVars>>
    BY <1>4, ForwardStepTypes, OthersUnchanged
  <2>2. QED
    BY <1>1, <2>1 DEF ProcessTypeOK, WatcherTypes, ForwardTypes, WriterTypes, MainTypes,
                     WatcherRecord, SocketRecord, ForwardRecord
<1>5. CASE RunBackfill \/ RunWriter
  <2>1. WriterTypes' /\ UNCHANGED <<chain, shutdown, watcherVars, forward, mainVars>>
    BY <1>5, WriterStepTypes, OthersUnchanged
  <2>2. QED
    BY <1>1, <2>1 DEF ProcessTypeOK, WatcherTypes, ForwardTypes, WriterTypes, MainTypes,
                     WatcherRecord, SocketRecord, ForwardRecord
<1>6. CASE MainSteps
  <2>1. MainTypes' /\ UNCHANGED <<chain, watcherVars, indexerVars>>
    BY <1>6, MainStepTypes, OthersUnchanged
  <2>2. QED
    BY <1>1, <2>1 DEF ProcessTypeOK, WatcherTypes, ForwardTypes, WriterTypes, MainTypes,
                     WatcherRecord, SocketRecord, ForwardRecord
<1>7. CASE UNCHANGED vars
  BY <1>7 DEF ProcessTypeOK, vars
<1>8. QED
  BY <1>2, <1>3, <1>4, <1>5, <1>6, <1>7 DEF Next, MainSteps

LEMMA ProcessTypeInit == Init => ProcessTypeOK
<1> SUFFICES ASSUME Init PROVE ProcessTypeOK
  OBVIOUS
<1>1. chain = 0 /\ 0 \in 0..0 /\ chain \in 0..MaxHead
  BY Sizes DEF Init
<1>2. WatcherTypes
  <2>1. heads \in Seq(0..chain) /\ Len(heads) <= HeadCap
    BY <1>1, Sizes DEF Init, WatcherInit
  <2>2. QED
    BY <1>1, <2>1 DEF Init, WatcherInit, NoSocket, NewSocket, WatcherTypes, WatcherRecord, SocketRecord
<1>3. ForwardTypes /\ WriterTypes
  BY <1>1, Sizes DEF Init, ForwardTypes, WriterTypes, ForwardRecord
<1>4. MainTypes
  <2>1. open = 0 /\ 0 \in 0..MaxOpen /\ main = "serve"
    BY Sizes DEF Init
  <2>2. shutdown \in BOOLEAN
    BY DEF Init
  <2>3. QED
    BY <2>1, <2>2 DEF MainTypes
<1>5. QED
  BY <1>1, <1>2, <1>3, <1>4, TypeParts

\* No task holds a height the chain has not reached, and no channel more than its
\* room, for channels and chains of any size.
THEOREM ProcessTypes == Spec => []ProcessTypeOK
BY ProcessTypeInit, ProcessTypeStep, PTL DEF Spec

-----------------------------------------------------------------------------
\* A watcher that is gone took the socket's task with it, so that no head is
\* waited for that nobody sends.
SocketGoesWithWatcher == watcher.pc = "gone" => socket.pc = "none"

EndsInv == ProcessTypeOK /\ EndsOnlyByTheFlag /\ SocketGoesWithWatcher

LEMMA WatcherFacts ==
  ASSUME ProcessTypeOK
  PROVE  DOMAIN watcher = {"pc", "until", "head"} /\ DOMAIN socket = {"pc", "head"}
         /\ DOMAIN forward = {"pc", "sent", "head"}
BY DEF ProcessTypeOK

\* The watcher and the socket: it ends when told to or when the loop is gone, and
\* only with its socket.
LEMMA WatcherEnds ==
  ASSUME EndsInv, RunPoll \/ PauseRunsOut \/ RunSocket
  PROVE  SocketGoesWithWatcher' /\ (~shutdown => watcher'.pc # "gone")
<1>1. /\ ProcessTypeOK /\ (watcher.pc = "gone" => socket.pc = "none")
      /\ (~shutdown => forward.pc # "gone" /\ watcher.pc # "gone")
  BY DEF EndsInv, EndsOnlyByTheFlag, SocketGoesWithWatcher
<1>2. Leave => watcher'.pc = "gone" /\ socket'.pc = "none"
  BY DEF Leave, NoSocket
<1>3. CASE RunPoll
  <2>1. \/ Leave /\ (shutdown \/ forward.pc = "gone")
        \/ watcher'.pc # "gone"
    BY <1>1, <1>3, WatcherFacts DEF RunPoll, CheckShutdown, HeadPolled, PollFailed, SendPolled, PollAgain,
       StopPolling, SocketEnded, Resubscribe, ReceiverGone
  <2>2. QED
    BY <1>1, <1>2, <2>1 DEF SocketGoesWithWatcher
<1>4. CASE PauseRunsOut
  BY <1>1, <1>4, WatcherFacts DEF PauseRunsOut, SocketGoesWithWatcher
<1>5. CASE RunSocket
  BY <1>1, <1>5 DEF RunSocket, SocketOpens, SocketTold, SendTold, SocketFails, SocketCloses,
                    SocketGoesWithWatcher
<1>6. QED
  BY <1>3, <1>4, <1>5

\* Before the flag no loop finds a channel closed or a receiver gone.
LEMMA LoopEnds ==
  ASSUME EndsInv, ~shutdown
  PROVE  /\ RunForward => forward'.pc # "gone"
         /\ RunBackfill => backfill' # "gone"
         /\ RunWriter => writer' # "gone"
         /\ MainSteps => main' = main
<1>1. /\ watcher.pc # "gone" /\ forward.pc # "gone"
      /\ backfill # "gone" /\ writer # "gone" /\ main = "serve"
      /\ ProcessTypeOK
  BY DEF EndsInv, EndsOnlyByTheFlag
<1>2. ASSUME NEW sent, NEW head, Turn(sent, head) PROVE forward'.pc # "gone"
  BY <1>2 DEF Turn
<1>3. RunForward => forward'.pc # "gone"
  BY <1>1, <1>2, WatcherFacts
     DEF RunForward, ReceiveHeads, HeadFeedClosed, HeadsClosed, SeedOrTimeout, TakeTurn, ForwardFetched,
         ForwardRests, ForwardSend, WriterGone
<1>4. RunBackfill => backfill' # "gone"
  BY <1>1 DEF RunBackfill, BackfillFetched, BackfillStops, BackfillSend, WriterGone
<1>5. RunWriter => writer' # "gone"
  BY <1>1 DEF RunWriter, TakeBatch, BundlesClosed, Written, WriteFails, WriteAgain, RetryStops
<1>6. MainSteps => main' = main
  BY <1>1 DEF MainSteps, Signal, Accept, Answered, GraceOver, ServerStops, Exit, ExitUnflushed, mainVars
<1>7. QED
  BY <1>3, <1>4, <1>5, <1>6

\* A raised flag stays raised.
LEMMA FlagStays == ProcessTypeOK /\ [Next]_vars => (shutdown => shutdown')
<1>1. MainSteps => (shutdown => shutdown')
  BY DEF MainSteps, Signal, Accept, Answered, GraceOver, ServerStops, Exit, ExitUnflushed
<1>2. [Next]_vars => MainSteps \/ UNCHANGED shutdown
  BY OthersUnchanged DEF Next, vars, MainSteps
<1>3. QED
  BY <1>1, <1>2

\* The inductive invariant: each task ends only after another one that did, or by
\* the flag; so the first to end is the flag's.
LEMMA EndsStep == EndsInv /\ [Next]_vars => EndsInv'
<1> SUFFICES ASSUME EndsInv, [Next]_vars PROVE EndsInv'
  OBVIOUS
<1> USE DEF watcherVars, indexerVars, mainVars
<1>1. /\ ProcessTypeOK' /\ (shutdown => shutdown') /\ shutdown \in BOOLEAN
      /\ (~shutdown => /\ watcher.pc # "gone" /\ forward.pc # "gone"
                       /\ backfill # "gone" /\ writer # "gone" /\ main = "serve")
      /\ (watcher.pc = "gone" => socket.pc = "none")
  BY ProcessTypeStep, FlagStays DEF EndsInv, EndsOnlyByTheFlag, SocketGoesWithWatcher, ProcessTypeOK
<1>2. CASE Grow \/ UNCHANGED vars
  <2>1. UNCHANGED <<shutdown, watcher, socket, forward, backfill, writer, main>>
    BY <1>2, OthersUnchanged DEF vars
  <2>2. QED
    BY <1>1, <2>1 DEF EndsInv, EndsOnlyByTheFlag, SocketGoesWithWatcher
<1>3. CASE (RunPoll \/ PauseRunsOut \/ RunSocket) /\ UNCHANGED others
  <2>1. UNCHANGED <<shutdown, forward, backfill, writer, main>>
    BY <1>3, OthersUnchanged
  <2>2. SocketGoesWithWatcher' /\ (~shutdown => watcher'.pc # "gone")
    BY <1>3, WatcherEnds
  <2>3. QED
    BY <1>1, <2>1, <2>2 DEF EndsInv, EndsOnlyByTheFlag
<1>4. CASE RunForward
  <2>1. UNCHANGED <<shutdown, watcher, socket, backfill, writer, main>>
    BY <1>4, OthersUnchanged
  <2>2. ~shutdown => forward'.pc # "gone"
    BY <1>4, LoopEnds
  <2>3. QED
    BY <1>1, <2>1, <2>2 DEF EndsInv, EndsOnlyByTheFlag, SocketGoesWithWatcher
<1>5. CASE RunBackfill
  <2>1. UNCHANGED <<shutdown, watcher, socket, forward, writer, main>>
    BY <1>5, OthersUnchanged
  <2>2. ~shutdown => backfill' # "gone"
    BY <1>5, LoopEnds
  <2>3. QED
    BY <1>1, <2>1, <2>2 DEF EndsInv, EndsOnlyByTheFlag, SocketGoesWithWatcher
<1>6. CASE RunWriter
  <2>1. UNCHANGED <<shutdown, watcher, socket, forward, backfill, main>>
    BY <1>6, OthersUnchanged
  <2>2. ~shutdown => writer' # "gone"
    BY <1>6, LoopEnds
  <2>3. QED
    BY <1>1, <2>1, <2>2 DEF EndsInv, EndsOnlyByTheFlag, SocketGoesWithWatcher
<1>7. CASE MainSteps
  <2>1. UNCHANGED <<watcher, socket, forward, backfill, writer>>
    BY <1>7, OthersUnchanged
  <2>2. ~shutdown => main' = main
    BY <1>7, LoopEnds
  <2>3. QED
    BY <1>1, <2>1, <2>2 DEF EndsInv, EndsOnlyByTheFlag, SocketGoesWithWatcher
<1>8. QED
  BY <1>2, <1>3, <1>4, <1>5, <1>6, <1>7 DEF Next, MainSteps

LEMMA EndsInvariance == Spec => []EndsInv
<1>1. Init => EndsInv
  <2> SUFFICES ASSUME Init PROVE EndsInv
    OBVIOUS
  <2>1. watcher.pc = "check" /\ forward.pc = "recv" /\ backfill = "look" /\ writer = "recv" /\ main = "serve"
    BY DEF Init, WatcherInit
  <2>2. QED
    BY <2>1, ProcessTypeInit DEF EndsInv, EndsOnlyByTheFlag, SocketGoesWithWatcher
<1>2. QED
  BY <1>1, EndsStep, PTL DEF Spec

\* A channel that is full has something to receive, and an empty one has room.
LEMMA FullIsNotEmpty ==
  ASSUME ProcessTypeOK
  PROVE  /\ ~HeadRoom => heads # <<>>
         /\ ~BundleRoom => bundles # 0
         /\ bundles = 0 => BundleRoom
<1>1. Len(<<>>) = 0 /\ heads \in Seq(0..chain) /\ bundles \in 0..QueueCap
  BY DEF ProcessTypeOK
<1>2. ~HeadRoom => heads # <<>>
  BY <1>1, Sizes DEF HeadRoom
<1>3. QED
  BY <1>1, <1>2, Sizes DEF BundleRoom

\* Whoever waits waits for a task that is there and goes on.
LEMMA WaitsAreForRunningTasks == EndsInv => EveryWaitIsForOneThatGoesOn
<1> SUFFICES ASSUME EndsInv PROVE EveryWaitIsForOneThatGoesOn
  OBVIOUS
<1>1. ProcessTypeOK /\ (watcher.pc = "gone" => socket.pc = "none")
  BY DEF EndsInv, SocketGoesWithWatcher
<1>2. WaitsForHead => WatcherGoesOn
  <2>1. watcher.pc = "gone" => HeadsClosed
    BY <1>1 DEF HeadsClosed
  <2>2. QED
    BY <1>1, <2>1, FullIsNotEmpty DEF WaitsForHead, WatcherGoesOn, WaitsForHeadRoom
<1>3. ForwardWaitsForRoom \/ BackfillWaitsForRoom => WriterGoesOn
  BY <1>1, FullIsNotEmpty
     DEF ForwardWaitsForRoom, BackfillWaitsForRoom, WriterGoesOn, WaitsForBundle, WriterGone
<1>4. WaitsForHeadRoom => ForwardGoesOn \/ ForwardWaitsForRoom
  BY <1>1, FullIsNotEmpty DEF WaitsForHeadRoom, ForwardGoesOn, WaitsForHead, ReceiverGone
<1>5. WaitsForBundle => ForwardGoesOn \/ WaitsForHead \/ BackfillGoesOn
  BY <1>1, FullIsNotEmpty
     DEF WaitsForBundle, ForwardGoesOn, ForwardWaitsForRoom, BackfillGoesOn, BackfillWaitsForRoom
<1>6. QED
  BY <1>2, <1>3, <1>4, <1>5 DEF EveryWaitIsForOneThatGoesOn

\* Until a signal the watcher, both loops and the writer run and the server serves,
\* whatever fails and in whatever order the tasks take their turns; and before it
\* and after, whoever waits waits for a task that is there and goes on, with
\* channels of any size.
THEOREM NoTaskLeftWaiting == Spec => []NoneLeftWaiting
<1>1. EndsInv => NoneLeftWaiting
  BY WaitsAreForRunningTasks DEF EndsInv, NoneLeftWaiting
<1>2. QED
  BY <1>1, EndsInvariance, PTL
=============================================================================
