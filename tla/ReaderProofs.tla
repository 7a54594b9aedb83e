---------------------------- MODULE ReaderProofs ----------------------------
(***************************************************************************)
(* Proofs about what a reader is shown: Listing (a listing read page by     *)
(* page while rows come in) and Search (what is suggested and where Enter   *)
(* leads), for any number of rows, tokens, registries and pages of any      *)
(* size.                                                                     *)
(***************************************************************************)
EXTENDS Listing, Search, FiniteSetTheorems, FunctionTheorems, TLAPS

-----------------------------------------------------------------------------
(* Rows in order.                                                          *)

\* before says of any two of S which comes first.
IsOrder(S, before) ==
    /\ \A x \in S : <<x, x>> \notin before
    /\ \A x, y \in S : x # y => <<x, y>> \in before \/ <<y, x>> \in before
    /\ \A x, y, z \in S : <<x, y>> \in before /\ <<y, z>> \in before => <<x, z>> \in before

\* How many of S are ahead of x.
PlaceOf(S, before, x) == Cardinality(Ahead(S, before, x))

\* The numbers from 1 to n are n.
LEMMA Counted == ASSUME NEW n \in Nat PROVE IsFiniteSet(1..n) /\ Cardinality(1..n) = n
BY FS_Interval

\* A function of 1..n is a sequence of length n.
LEMMA SequenceOf ==
  ASSUME NEW T, NEW n \in Nat, NEW s \in [1..n -> T]
  PROVE  s \in Seq(T) /\ Len(s) = n
OBVIOUS

Placed(S, before) ==
    /\ \A x \in S : PlaceOf(S, before, x) \in 0..(Cardinality(S) - 1)
    /\ \A x, y \in S : <<x, y>> \in before => PlaceOf(S, before, x) < PlaceOf(S, before, y)
    /\ \A x, y \in S : PlaceOf(S, before, x) = PlaceOf(S, before, y) => x = y
    /\ \A k \in 1..Cardinality(S) : \E x \in S : PlaceOf(S, before, x) = k - 1

\* Of a finite set in an order each member has a place of its own, and each
\* place a member.
LEMMA Places ==
  ASSUME NEW S, IsFiniteSet(S), NEW before, IsOrder(S, before)
  PROVE  Cardinality(S) \in Nat /\ Placed(S, before)
<1> DEFINE place == [x \in S |-> PlaceOf(S, before, x) + 1]
<1>1. Cardinality(S) \in Nat
  BY FS_CardinalityType
<1>2. ASSUME NEW x
      PROVE  IsFiniteSet(Ahead(S, before, x)) /\ PlaceOf(S, before, x) \in Nat
  <2>1. Ahead(S, before, x) \in SUBSET S
    BY DEF Ahead
  <2>2. QED
    BY <2>1, FS_Subset, FS_CardinalityType DEF PlaceOf
<1>3. ASSUME NEW x \in S
      PROVE  PlaceOf(S, before, x) \in 0..(Cardinality(S) - 1)
  <2> DEFINE A == Ahead(S, before, x)
  <2>1. A \in SUBSET S /\ x \notin A
    BY DEF Ahead, IsOrder
  <2> HIDE DEF A
  <2>2. Cardinality(A) <= Cardinality(S) /\ (Cardinality(A) = Cardinality(S) => A = S)
    BY <2>1, FS_Subset
  <2>3. Cardinality(A) # Cardinality(S)
    BY <2>1, <2>2
  <2>4. PlaceOf(S, before, x) = Cardinality(A)
    BY DEF A, PlaceOf
  <2>5. QED
    BY <1>1, <1>2, <2>2, <2>3, <2>4
<1>4. ASSUME NEW x \in S, NEW y \in S, <<x, y>> \in before
      PROVE  PlaceOf(S, before, x) < PlaceOf(S, before, y)
  <2> DEFINE A == Ahead(S, before, x)
             B == Ahead(S, before, y)
  <2>1. A \in SUBSET B /\ x \in B /\ x \notin A
    BY <1>4 DEF Ahead, IsOrder
  <2>2. IsFiniteSet(B) /\ Cardinality(A) \in Nat /\ Cardinality(B) \in Nat
    BY <1>2 DEF PlaceOf
  <2> HIDE DEF A, B
  <2>3. Cardinality(A) <= Cardinality(B) /\ (Cardinality(A) = Cardinality(B) => A = B)
    BY <2>1, <2>2, FS_Subset
  <2>4. Cardinality(A) # Cardinality(B)
    BY <2>1, <2>3
  <2>5. Cardinality(A) < Cardinality(B)
    BY <2>2, <2>3, <2>4
  <2>6. QED
    BY <2>5 DEF A, B, PlaceOf
<1>5. ASSUME NEW x \in S, NEW y \in S, PlaceOf(S, before, x) = PlaceOf(S, before, y)
      PROVE  x = y
  <2> SUFFICES ASSUME x # y PROVE FALSE
    OBVIOUS
  <2>1. <<x, y>> \in before \/ <<y, x>> \in before
    BY DEF IsOrder
  <2>2. PlaceOf(S, before, x) < PlaceOf(S, before, y) \/ PlaceOf(S, before, y) < PlaceOf(S, before, x)
    BY <1>4, <2>1
  <2>3. QED
    BY <1>2, <1>5, <2>2
<1>6. place \in [S -> 1..Cardinality(S)] /\ \A x \in S : place[x] = PlaceOf(S, before, x) + 1
  BY <1>1, <1>3
<1>7. \A x, y \in S : place[x] = place[y] => x = y
  BY <1>2, <1>5, <1>6
<1> HIDE DEF place
<1>8. place \in Injection(S, 1..Cardinality(S))
  BY <1>6, <1>7, Fun_IsInj
<1>9. place \in Surjection(S, 1..Cardinality(S))
  BY <1>1, <1>8, Counted, FS_Injection
<1>10. ASSUME NEW k \in 1..Cardinality(S)
       PROVE  \E x \in S : PlaceOf(S, before, x) = k - 1
  <2>1. PICK x \in S : place[x] = k
    BY <1>9 DEF Surjection
  <2>2. QED
    BY <1>2, <1>6, <2>1
<1>11. QED
  BY <1>1, <1>3, <1>4, <1>5, <1>10 DEF Placed

\* What InOrder makes of a set: its members, each at its place.
LEMMA Sorted ==
  ASSUME NEW S, IsFiniteSet(S), NEW before, IsOrder(S, before)
  PROVE  /\ InOrder(S, before) \in Seq(S)
         /\ Len(InOrder(S, before)) = Cardinality(S)
         /\ \A k \in 1..Cardinality(S) :
               InOrder(S, before)[k] \in S /\ PlaceOf(S, before, InOrder(S, before)[k]) = k - 1
         /\ \A x \in S : InOrder(S, before)[PlaceOf(S, before, x) + 1] = x
<1> DEFINE s == InOrder(S, before)
<1>1. Cardinality(S) \in Nat /\ s = [k \in 1..Cardinality(S) |-> CHOOSE x \in S : PlaceOf(S, before, x) = k - 1]
  BY Places DEF InOrder, PlaceOf
<1>2. ASSUME NEW k \in 1..Cardinality(S)
      PROVE  s[k] \in S /\ PlaceOf(S, before, s[k]) = k - 1
  <2>1. \E x \in S : PlaceOf(S, before, x) = k - 1
    BY Places DEF Placed
  <2>2. s[k] = CHOOSE x \in S : PlaceOf(S, before, x) = k - 1
    BY <1>1
  <2> HIDE DEF s
  <2>3. QED
    BY <2>1, <2>2
<1>3. DOMAIN s = 1..Cardinality(S)
  BY <1>1
<1>4. s \in Seq(S) /\ Len(s) = Cardinality(S)
  <2>1. s \in [1..Cardinality(S) -> S]
    BY <1>1, <1>2
  <2> HIDE DEF s
  <2>2. Cardinality(S) \in Nat
    BY <1>1
  <2>3. QED
    BY <2>1, <2>2, SequenceOf
<1>5. ASSUME NEW x \in S
      PROVE  s[PlaceOf(S, before, x) + 1] = x
  <2> DEFINE k == PlaceOf(S, before, x) + 1
  <2>1. k \in 1..Cardinality(S) /\ PlaceOf(S, before, x) = k - 1
    BY Places DEF Placed
  <2> HIDE DEF s, k
  <2>2. s[k] \in S /\ PlaceOf(S, before, s[k]) = PlaceOf(S, before, x)
    BY <1>2, <2>1
  <2>3. s[k] = x
    BY <2>2, Places DEF Placed
  <2>4. QED
    BY <2>3 DEF k
<1>6. QED
  BY <1>2, <1>4, <1>5

-----------------------------------------------------------------------------
(* Pages of rows, the newest first.                                        *)

\* How many of S are above x.
Rank(S, x) == Cardinality({y \in S : y > x})

Ranked(S) ==
    /\ Cardinality(S) \in Nat
    /\ \A x \in S : Rank(S, x) \in 0..(Cardinality(S) - 1)
    /\ \A x, y \in S : Rank(S, x) < Rank(S, y) <=> x > y
    /\ \A k \in 1..Cardinality(S) : \E x \in S : Rank(S, x) = k - 1
    /\ Descending(S) \in Seq(S) /\ Len(Descending(S)) = Cardinality(S)
    /\ \A k \in 1..Cardinality(S) : Descending(S)[k] \in S /\ Rank(S, Descending(S)[k]) = k - 1
    /\ \A x \in S : Descending(S)[Rank(S, x) + 1] = x

\* Numbers sorted from the highest: each stands at its rank.
LEMMA Ranks ==
  ASSUME NEW S \in SUBSET Nat, IsFiniteSet(S)
  PROVE  Ranked(S)
<1> DEFINE above == {p \in S \X S : p[1] > p[2]}
<1>1. \A x, y \in S : <<x, y>> \in above <=> x > y
  OBVIOUS
<1>2. Descending(S) = InOrder(S, above)
  BY DEF Descending
<1>3. ASSUME NEW x \in S PROVE PlaceOf(S, above, x) = Rank(S, x)
  <2>1. Ahead(S, above, x) = {y \in S : y > x}
    BY <1>1 DEF Ahead
  <2>2. QED
    BY <2>1 DEF PlaceOf, Rank
<1> HIDE DEF above
<1>4. IsOrder(S, above)
  <2>1. \A x, y \in S : x \in Nat /\ y \in Nat
    OBVIOUS
  <2>2. QED
    BY <1>1, <2>1 DEF IsOrder
<1>5. /\ Cardinality(S) \in Nat
      /\ \A x \in S : Rank(S, x) \in 0..(Cardinality(S) - 1)
      /\ \A x, y \in S : x > y => Rank(S, x) < Rank(S, y)
      /\ \A k \in 1..Cardinality(S) : \E x \in S : Rank(S, x) = k - 1
  <2>1. Cardinality(S) \in Nat /\ Placed(S, above)
    BY <1>4, Places
  <2>2. \A x \in S : PlaceOf(S, above, x) = Rank(S, x)
    BY <1>3
  <2>3. \A x \in S : Rank(S, x) \in 0..(Cardinality(S) - 1)
    BY <2>1, <2>2 DEF Placed
  <2>4. \A x, y \in S : x > y => Rank(S, x) < Rank(S, y)
    BY <1>1, <2>1, <2>2 DEF Placed
  <2>5. \A k \in 1..Cardinality(S) : \E x \in S : Rank(S, x) = k - 1
    BY <2>1, <2>2 DEF Placed
  <2>6. QED
    BY <2>1, <2>3, <2>4, <2>5
<1>6. ASSUME NEW x \in S, NEW y \in S, Rank(S, x) < Rank(S, y)
      PROVE  x > y
  <2>1. x \in Nat /\ y \in Nat /\ Rank(S, x) \in Nat /\ Rank(S, y) \in Nat
    BY <1>5
  <2>2. CASE x = y
    BY <1>6, <2>1, <2>2
  <2>3. CASE y > x
    BY <1>5, <1>6, <2>1, <2>3
  <2>4. QED
    BY <2>1, <2>2, <2>3
<1>7. /\ Descending(S) \in Seq(S) /\ Len(Descending(S)) = Cardinality(S)
      /\ \A k \in 1..Cardinality(S) : Descending(S)[k] \in S /\ Rank(S, Descending(S)[k]) = k - 1
      /\ \A x \in S : Descending(S)[Rank(S, x) + 1] = x
  <2> DEFINE d == InOrder(S, above)
  <2>1. /\ d \in Seq(S) /\ Len(d) = Cardinality(S)
        /\ \A k \in 1..Cardinality(S) : d[k] \in S /\ PlaceOf(S, above, d[k]) = k - 1
        /\ \A x \in S : d[PlaceOf(S, above, x) + 1] = x
    BY <1>4, Sorted
  <2> HIDE DEF d
  <2>2. \A k \in 1..Cardinality(S) : d[k] \in S /\ Rank(S, d[k]) = k - 1
    BY <1>3, <2>1
  <2>3. \A x \in S : d[Rank(S, x) + 1] = x
    BY <1>3, <2>1
  <2>4. Descending(S) = d
    BY <1>2 DEF d
  <2>5. QED
    BY <2>1, <2>2, <2>3, <2>4
<1>8. QED
  BY <1>5, <1>6, <1>7 DEF Ranked

\* A slice has the rows whose ranks it spans.
SizeOf(count, limit, offset) ==
    IF count <= offset THEN 0 ELSE IF count < offset + limit THEN count - offset ELSE limit

IsSlice(s, S, limit, offset) ==
    /\ s \in Seq(S) /\ Len(s) = SizeOf(Cardinality(S), limit, offset)
    /\ ToSet(s) = {x \in S : offset <= Rank(S, x) /\ Rank(S, x) < offset + limit}
    /\ \A k \in DOMAIN s : k + offset \in 1..Cardinality(S) /\ s[k] = Descending(S)[k + offset]

\* LIMIT and OFFSET cut out the rows of the ranks between.
LEMMA Sliced ==
  ASSUME NEW S \in SUBSET Nat, IsFiniteSet(S), NEW limit \in Nat, NEW offset \in Nat
  PROVE  IsSlice(Slice(S, limit, offset), S, limit, offset)
<1> DEFINE d == Descending(S)
           n == SizeOf(Cardinality(S), limit, offset)
           s == Slice(S, limit, offset)
<1>1. d \in Seq(S) /\ Len(d) = Cardinality(S) /\ Cardinality(S) \in Nat /\ n \in Nat
  BY Ranks DEF Ranked, SizeOf
<1>2. s = SubSeq(d, offset + 1, IF Len(d) < offset + limit THEN Len(d) ELSE offset + limit)
  BY DEF Slice
<1>3. \A k \in 1..n : k + offset \in 1..Cardinality(S)
  BY <1>1 DEF SizeOf
<1> HIDE DEF d, s
<1>4. s = [k \in 1..n |-> d[k + offset]]
  BY <1>1, <1>2 DEF SizeOf
<1>5. n \in Nat
  BY <1>1
<1> HIDE DEF n, SizeOf
<1>6. s \in Seq(S) /\ Len(s) = n
  <2>1. s \in [1..n -> S]
    BY <1>1, <1>3, <1>4
  <2>2. QED
    BY <1>5, <2>1, SequenceOf
<1>7. ToSet(s) = {x \in S : offset <= Rank(S, x) /\ Rank(S, x) < offset + limit}
  <2>1. ASSUME NEW x \in ToSet(s)
        PROVE  x \in S /\ offset <= Rank(S, x) /\ Rank(S, x) < offset + limit
    <3>1. PICK k \in 1..n : x = d[k + offset]
      BY <1>4, <2>1 DEF ToSet
    <3>2. x \in S /\ Rank(S, x) = k + offset - 1
      BY <1>3, <3>1, Ranks DEF Ranked, d
    <3>3. k <= limit
      BY <1>1, <3>1 DEF n, SizeOf
    <3>4. QED
      BY <3>1, <3>2, <3>3, <1>5
  <2>2. ASSUME NEW x \in S, offset <= Rank(S, x), Rank(S, x) < offset + limit
        PROVE  x \in ToSet(s)
    <3> DEFINE k == Rank(S, x) + 1 - offset
    <3>1. Rank(S, x) \in 0..(Cardinality(S) - 1) /\ d[Rank(S, x) + 1] = x
      BY Ranks DEF Ranked, d
    <3>2. k \in 1..n /\ k + offset = Rank(S, x) + 1
      BY <1>1, <2>2, <3>1 DEF n, SizeOf
    <3> HIDE DEF k
    <3>3. s[k] = x
      BY <1>4, <3>1, <3>2
    <3>4. QED
      BY <1>4, <3>2, <3>3 DEF ToSet
  <2>3. QED
    BY <2>1, <2>2
<1>8. QED
  BY <1>3, <1>4, <1>6, <1>7 DEF n, s, d, IsSlice

\* Rows that come in never raise a row.
LEMMA Sinks ==
  ASSUME NEW T \in SUBSET Nat, IsFiniteSet(T), NEW S \in SUBSET T, NEW x
  PROVE  /\ IsFiniteSet(S) /\ Rank(S, x) \in Nat /\ Rank(T, x) \in Nat
         /\ Rank(S, x) <= Rank(T, x)
<1> DEFINE A == {y \in S : y > x}
           B == {y \in T : y > x}
<1>1. IsFiniteSet(S)
  BY FS_Subset
<1>2. A \in SUBSET B /\ B \in SUBSET T
  OBVIOUS
<1>3. Rank(S, x) = Cardinality(A) /\ Rank(T, x) = Cardinality(B)
  BY DEF Rank
<1> HIDE DEF A, B
<1>4. IsFiniteSet(B) /\ IsFiniteSet(A) /\ Cardinality(A) <= Cardinality(B)
  BY <1>2, FS_Subset
<1>5. QED
  BY <1>1, <1>3, <1>4, FS_CardinalityType

\* Without gaps a row's rank is its distance from the highest.
LEMMA RangeRanks ==
  ASSUME NEW a \in Nat, NEW b \in Nat
  PROVE  /\ a..b \in SUBSET Nat /\ IsFiniteSet(a..b)
         /\ \A x \in a..b : Rank(a..b, x) = b - x
<1>1. a..b \in SUBSET Nat /\ IsFiniteSet(a..b)
  BY FS_Interval
<1>2. ASSUME NEW x \in a..b PROVE Rank(a..b, x) = b - x
  <2>1. {y \in a..b : y > x} = (x + 1)..b
    OBVIOUS
  <2>2. x + 1 \in Int /\ b \in Int /\ x \in Int /\ x <= b
    OBVIOUS
  <2>3. Cardinality((x + 1)..b) = IF x + 1 > b THEN 0 ELSE b - (x + 1) + 1
    BY <2>2, FS_Interval
  <2>4. Cardinality((x + 1)..b) = b - x
    BY <2>2, <2>3
  <2>5. QED
    BY <2>1, <2>4 DEF Rank
<1>3. QED
  BY <1>1, <1>2

\* Below the first n of a set there are only the others.
LEMMA Bottom ==
  ASSUME NEW S \in SUBSET Nat, IsFiniteSet(S), NEW n \in 0..Cardinality(S)
  PROVE  /\ IsFiniteSet({x \in S : Rank(S, x) >= n})
         /\ Cardinality({x \in S : Rank(S, x) >= n}) = Cardinality(S) - n
<1> DEFINE T == {x \in S : Rank(S, x) < n}
           U == {x \in S : Rank(S, x) >= n}
           f == [k \in 1..n |-> Descending(S)[k]]
<1>1. Cardinality(S) \in Nat /\ n \in Nat /\ 1..n \in SUBSET (1..Cardinality(S))
  BY Ranks DEF Ranked
<1>2. \A x \in S : Rank(S, x) \in Nat
  BY <1>1, Ranks DEF Ranked
<1>3. f \in [1..n -> T]
  <2>1. ASSUME NEW k \in 1..n PROVE Descending(S)[k] \in T
    <3>1. k \in 1..Cardinality(S) /\ k - 1 < n
      BY <1>1
    <3>2. Descending(S)[k] \in S /\ Rank(S, Descending(S)[k]) = k - 1
      BY <3>1, Ranks DEF Ranked
    <3>3. QED
      BY <3>1, <3>2
  <2>2. QED
    BY <2>1
<1>4. \A j, k \in 1..n : f[j] = f[k] => j = k
  <2> SUFFICES ASSUME NEW j \in 1..n, NEW k \in 1..n, f[j] = f[k] PROVE j = k
    OBVIOUS
  <2>1. Descending(S)[j] = Descending(S)[k]
    OBVIOUS
  <2>2. Rank(S, Descending(S)[j]) = j - 1 /\ Rank(S, Descending(S)[k]) = k - 1
    BY <1>1, Ranks DEF Ranked
  <2>3. j - 1 = k - 1
    BY <2>1, <2>2
  <2>4. QED
    BY <2>3
<1>5. \A x \in T : \E k \in 1..n : f[k] = x
  <2> SUFFICES ASSUME NEW x \in T PROVE \E k \in 1..n : f[k] = x
    OBVIOUS
  <2>1. Rank(S, x) \in Nat /\ Rank(S, x) < n /\ Descending(S)[Rank(S, x) + 1] = x
    BY Ranks DEF Ranked
  <2>2. QED
    BY <1>1, <2>1
<1>6. S \ T = U /\ T \in SUBSET S
  <2>1. ASSUME NEW x \in S PROVE x \notin T <=> x \in U
    <3>1. Rank(S, x) \in Nat
      BY <1>2
    <3>2. ~(Rank(S, x) < n) <=> Rank(S, x) >= n
      BY <1>1, <3>1
    <3>3. QED
      BY <3>2
  <2>2. T \in SUBSET S /\ U \in SUBSET S
    OBVIOUS
  <2> HIDE DEF T, U
  <2>3. QED
    BY <2>1, <2>2
<1> HIDE DEF f, T, U
<1>7. f \in Injection(1..n, T)
  BY <1>3, <1>4, Fun_IsInj
<1>8. f \in Surjection(1..n, T)
  BY <1>3, <1>5, Fun_IsSurj
<1>9. IsFiniteSet(T) /\ Cardinality(T) = n
  <2>1. IsFiniteSet(1..n) /\ Cardinality(1..n) = n
    BY <1>1, Counted
  <2>2. IsFiniteSet(T) /\ Cardinality(T) <= n
    BY <1>8, <2>1, FS_Surjection
  <2>3. n <= Cardinality(T)
    BY <1>7, <2>1, <2>2, FS_Injection
  <2>4. QED
    BY <1>1, <2>2, <2>3, FS_CardinalityType
<1>10. IsFiniteSet(U) /\ Cardinality(U) = Cardinality(S) - n
  <2>1. S \cap T = T
    BY <1>6
  <2>2. IsFiniteSet(S \ T) /\ Cardinality(S \ T) = Cardinality(S) - Cardinality(S \cap T)
    BY FS_Difference
  <2>3. QED
    BY <1>6, <1>9, <2>1, <2>2
<1>11. QED
  BY <1>10 DEF U

\* A page begins where the one before it ends.
LEMMA Offsets ==
  ASSUME NEW page \in Nat \ {0}
  PROVE  /\ PerPage \in Nat \ {0} /\ PageOffset(page) \in Nat
         /\ PageOffset(page + 1) = PageOffset(page) + PerPage
         /\ page * PerPage = PageOffset(page) + PerPage
         /\ PageOffset(1) = 0
BY ListingAssumption DEF PageOffset

\* The page of two walks, each cut at the page's end, is the page of all they walk.
Splits(S, A, B) == S \in SUBSET Nat /\ IsFiniteSet(S) /\ A \cup B = S

Walked(A, cut) == ToSet(Slice(A, cut, 0))

\* Two walks cut at the page's end hold all the rows of the page: a row is no
\* deeper in its own walk than among all.
LEMMA Merged ==
  ASSUME NEW S, NEW A, NEW B, Splits(S, A, B),
         NEW limit \in Nat, NEW offset \in Nat, NEW cut, cut = limit + offset
  PROVE  Slice(Walked(A, cut) \cup Walked(B, cut), limit, offset) = Slice(S, limit, offset)
<1> USE DEF Walked
<1>0. /\ S \in SUBSET Nat /\ IsFiniteSet(S) /\ A \in SUBSET S /\ B \in SUBSET S /\ A \cup B = S
      /\ cut \in Nat
  BY DEF Splits
<1> USE <1>0
<1> DEFINE M == ToSet(Slice(A, cut, 0)) \cup ToSet(Slice(B, cut, 0))
<1>1. IsFiniteSet(A) /\ IsFiniteSet(B) /\ A \in SUBSET Nat /\ B \in SUBSET Nat
  BY FS_Subset
<1>2. /\ ToSet(Slice(A, cut, 0)) = {x \in A : 0 <= Rank(A, x) /\ Rank(A, x) < 0 + cut}
      /\ ToSet(Slice(B, cut, 0)) = {x \in B : 0 <= Rank(B, x) /\ Rank(B, x) < 0 + cut}
  <2>1. IsSlice(Slice(A, cut, 0), A, cut, 0) /\ IsSlice(Slice(B, cut, 0), B, cut, 0)
    BY <1>1, Sliced
  <2>2. QED
    BY <2>1 DEF IsSlice
<1>3. M \in SUBSET S
  BY <1>2
<1>4. ASSUME NEW x \in S, Rank(S, x) < cut
      PROVE  x \in M
  <2>1. /\ Rank(S, x) \in Nat /\ Rank(A, x) \in Nat /\ Rank(B, x) \in Nat
        /\ Rank(A, x) <= Rank(S, x) /\ Rank(B, x) <= Rank(S, x)
    BY Sinks
  <2>2. 0 <= Rank(A, x) /\ Rank(A, x) < 0 + cut /\ 0 <= Rank(B, x) /\ Rank(B, x) < 0 + cut
    BY <1>4, <2>1
  <2>3. x \in A \/ x \in B
    OBVIOUS
  <2>4. QED
    BY <1>2, <2>2, <2>3
<1> HIDE DEF M
<1>5. M \in SUBSET Nat /\ IsFiniteSet(M)
  BY <1>3, FS_Subset
<1>6. ASSUME NEW x \in S, Rank(S, x) < cut
      PROVE  Rank(M, x) = Rank(S, x)
  <2>1. ASSUME NEW y \in S, y > x PROVE y \in M
    <3>1. Rank(S, y) < Rank(S, x) /\ Rank(S, y) \in Nat /\ Rank(S, x) \in Nat
      BY <2>1, Ranks DEF Ranked
    <3>2. Rank(S, y) < cut
      BY <1>6, <3>1
    <3>3. QED
      BY <1>4, <3>2
  <2>2. {y \in M : y > x} = {y \in S : y > x}
    BY <1>3, <2>1
  <2>3. QED
    BY <2>2 DEF Rank
<1> DEFINE m == Cardinality(M)
           n == Cardinality(S)
           d == Descending(M)
           e == Descending(S)
<1>7. m \in Nat /\ n \in Nat /\ m <= n
  BY <1>3, FS_Subset, FS_CardinalityType
<1>8. ASSUME NEW k \in 1..n, k <= cut
      PROVE  k <= m /\ d[k] = e[k]
  <2>1. Ranked(S) /\ Ranked(M)
    BY <1>5, Ranks
  <2>2. e[k] \in S /\ Rank(S, e[k]) = k - 1
    BY <2>1 DEF Ranked
  <2> HIDE DEF e
  <2>3. Rank(S, e[k]) < cut
    BY <1>7, <1>8, <2>2
  <2>4. e[k] \in M /\ Rank(M, e[k]) = k - 1
    BY <1>4, <1>6, <2>2, <2>3
  <2>5. Rank(M, e[k]) \in 0..(m - 1) /\ d[Rank(M, e[k]) + 1] = e[k]
    BY <2>1, <2>4 DEF Ranked
  <2> HIDE DEF d, m
  <2>6. (k - 1) + 1 = k /\ k <= m
    BY <1>7, <2>4, <2>5
  <2>7. QED
    BY <2>4, <2>5, <2>6
<1> DEFINE s == Slice(M, limit, offset)
           t == Slice(S, limit, offset)
           size(c) == SizeOf(c, limit, offset)
<1>9. IsSlice(s, M, limit, offset)
  BY <1>5, Sliced
<1>10. IsSlice(t, S, limit, offset)
  BY Sliced
<1>11. /\ s \in Seq(M) /\ Len(s) = size(m)
       /\ \A k \in DOMAIN s : k + offset \in 1..m /\ s[k] = d[k + offset]
  BY <1>9 DEF IsSlice, s
<1>12. /\ t \in Seq(S) /\ Len(t) = size(n)
       /\ \A k \in DOMAIN t : k + offset \in 1..n /\ t[k] = e[k + offset]
  BY <1>10 DEF IsSlice, t
<1> HIDE DEF m, n, d, e, s, t
<1>13. size(m) = size(n)
  <2>1. CASE n <= cut
    <3>1. n = 0 \/ n \in 1..n
      BY <1>7
    <3>2. m = n
      BY <1>7, <1>8, <2>1, <3>1
    <3>3. QED
      BY <3>2
  <2>2. CASE n > cut
    <3>1. cut = 0 \/ cut \in 1..n
      BY <1>7, <2>2
    <3>2. cut <= m
      BY <1>7, <1>8, <3>1
    <3>3. QED
      BY <1>7, <2>2, <3>2 DEF SizeOf
  <2>3. QED
    BY <1>7, <2>1, <2>2
<1>14. size(n) \in Nat /\ \A k \in 1..size(n) : k + offset <= cut
  BY <1>7 DEF SizeOf
<1> HIDE DEF size
<1>15. DOMAIN s = 1..size(n) /\ DOMAIN t = 1..size(n)
  BY <1>11, <1>12, <1>13
<1>16. ASSUME NEW k \in 1..size(n) PROVE s[k] = t[k]
  <2>1. k + offset \in 1..n /\ k + offset <= cut
    BY <1>12, <1>14, <1>15
  <2>2. d[k + offset] = e[k + offset]
    BY <1>8, <2>1
  <2>3. QED
    BY <1>11, <1>12, <1>15, <2>2
<1>17. s = t
  BY <1>11, <1>12, <1>15, <1>16
<1>18. QED
  BY <1>17 DEF s, t, M

\* All of a set in descending order: the last is the least.
LEMMA Descends ==
  ASSUME NEW S \in SUBSET Nat, IsFiniteSet(S)
  PROVE  /\ Descending(S) \in Seq(Nat) /\ ToSet(Descending(S)) = S
         /\ S = {} => Descending(S) = <<>>
         /\ S # {} => /\ Descending(S) # <<>> /\ Last(Descending(S)) \in S
                      /\ \A x \in S : Last(Descending(S)) <= x
<1> DEFINE d == Descending(S)
           n == Cardinality(S)
<1>1. Ranked(S)
  BY Ranks
<1>2. /\ n \in Nat /\ d \in Seq(S) /\ Len(d) = n
      /\ \A x \in S : Rank(S, x) \in 0..(n - 1) /\ d[Rank(S, x) + 1] = x
      /\ \A k \in 1..n : d[k] \in S /\ Rank(S, d[k]) = k - 1
      /\ \A x, y \in S : Rank(S, x) < Rank(S, y) <=> x > y
  BY <1>1 DEF Ranked
<1>3. n = 0 <=> S = {}
  BY FS_EmptySet
<1> HIDE DEF d, n
<1>4. DOMAIN d = 1..n /\ d \in Seq(Nat)
  <2>1. DOMAIN d = 1..n
    BY <1>2
  <2>2. d \in Seq(S) /\ n \in Nat /\ S \in SUBSET Nat
    BY <1>2
  <2>3. d \in [1..n -> S]
    BY <2>1, <2>2
  <2>4. d \in [1..n -> Nat]
    BY <2>2, <2>3
  <2>5. QED
    BY <2>1, <2>2, <2>4, SequenceOf
<1>5. ToSet(d) = S
  <2>1. ASSUME NEW x \in S PROVE x \in ToSet(d)
    <3>1. Rank(S, x) + 1 \in 1..n /\ d[Rank(S, x) + 1] = x
      BY <1>2
    <3>2. QED
      BY <1>4, <3>1 DEF ToSet
  <2>2. ASSUME NEW x \in ToSet(d) PROVE x \in S
    BY <1>2, <1>4, <2>2 DEF ToSet
  <2>3. QED
    BY <2>1, <2>2
<1>6. S = {} => d = <<>>
  BY <1>2, <1>3
<1>7. ASSUME S # {}
      PROVE  d # <<>> /\ Last(d) \in S /\ \A x \in S : Last(d) <= x
  <2>1. n \in 1..n /\ Last(d) = d[n]
    <3>1. n # 0
      BY <1>3, <1>7
    <3>2. Len(d) = n /\ n \in Nat
      BY <1>2
    <3>3. Last(d) = d[n]
      BY <3>2 DEF Last
    <3>4. QED
      BY <3>1, <3>2, <3>3
  <2>2. d[n] \in S /\ Rank(S, d[n]) = n - 1
    BY <1>2, <2>1
  <2>3. ASSUME NEW x \in S PROVE d[n] <= x
    <3>1. Rank(S, x) <= n - 1 /\ Rank(S, x) \in Nat
      BY <1>2
    <3>2. ~(Rank(S, d[n]) < Rank(S, x))
      BY <1>2, <2>2, <3>1
    <3>3. ~(d[n] > x)
      BY <1>2, <2>2, <3>2
    <3>4. d[n] \in Nat /\ x \in Nat
      BY <2>2
    <3>5. QED
      BY <3>3, <3>4
  <2>4. d # <<>>
    BY <1>2, <2>1
  <2>5. QED
    BY <2>1, <2>2, <2>3, <2>4
<1>8. QED
  BY <1>4, <1>5, <1>6, <1>7 DEF d

-----------------------------------------------------------------------------
(* The reader.                                                             *)

ListingTypes ==
    /\ lo \in Nat \ {0} /\ hi \in Nat /\ lo <= hi + 1 /\ hi <= MaxRow
    /\ role \in [1..MaxRow -> Roles]
    /\ listing \in Listings /\ (OfContract => lo = 1)
    /\ \A n \in counted : n \in Nat /\ n <= Cardinality(Listed)

\* A reader under way.
Reading == [pc : {"count", "lowest", "read", "after", "end"}, page : Nat \ {0}, held : Nat,
            lowest : Nat, items : Seq(Nat), was : SUBSET Nat, seen : SUBSET Nat, late : Nat]

ReaderTypes ==
    \/ reader.pc = "idle"
    \/ reader \in Reading /\ reader.was \subseteq Listed /\ reader.seen \subseteq Listed

\* The rows still to come.
Left == reader.was \ reader.seen

\* How many rows the pages read so far had room for.
Through == IF reader.pc = "after" THEN PageOffset(reader.page + 1) ELSE PageOffset(reader.page)

ByHeight == {"blocks", "records", "versions"}

\* What a handler took before it read the rows was true then.
HeldOK ==
    /\ reader.pc \in {"lowest", "read", "after"} /\ listing \in ByHeight \cup ByCursor => reader.held <= hi
    /\ reader.pc = "read" /\ listing \in CountMayBeShort => reader.held <= Cardinality(Listed)
    /\ reader.pc = "count" => listing \in CountsFirst
    /\ reader.pc = "lowest" => listing = "blocks"
    /\ reader.pc = "after" => listing \in CountsAfter

\* A row still to come is below every row read, and behind all that the pages
\* so far had room for, by its rank or by its height below what was held; and
\* none is below the lowest block a page of blocks was told of.
LeftOK ==
    /\ reader.pc # "idle" => \A row \in Left, read \in reader.seen : row < read
    /\ reader.pc \in {"count", "lowest", "read", "after"} =>
          \A row \in Left :
             /\ listing \notin ByCursor => Rank(Listed, row) >= Through
             /\ listing \in ByHeight /\ reader.pc # "count" => row + Through <= reader.held
             /\ listing \in ByCursor /\ reader.pc = "read" => row <= reader.held
             /\ listing \in ByCursor /\ reader.pc = "after" => reader.items # <<>> /\ row < Last(reader.items)
    /\ listing \in ByCursor /\ reader.pc = "after" /\ reader.items # <<>> => Last(reader.items) \in 1..hi
    /\ listing = "blocks" /\ reader.pc = "read" => \A row \in Left : reader.lowest <= row

ListingInv == ListingTypes /\ ReaderTypes /\ HeldOK /\ LeftOK /\ MissesOnlyTheLate

\* What is listed lies between the lowest and the highest row, and is all that
\* does unless it is an address's.
LEMMA ListedFacts ==
  ASSUME ListingTypes
  PROVE  /\ Listed \in SUBSET (lo..hi) /\ Listed \in SUBSET Nat /\ IsFiniteSet(Listed)
         /\ Cardinality(Listed) \in Nat
         /\ \A x \in Listed : x \in Nat /\ 1 <= lo /\ lo <= x /\ x <= hi
         /\ ~OfAddress => Listed = lo..hi /\ Cardinality(Listed) = IF lo <= hi THEN hi - lo + 1 ELSE 0
<1>1. lo \in Nat /\ hi \in Nat /\ 1 <= lo
  BY DEF ListingTypes
<1>2. Listed \in SUBSET (lo..hi) /\ (~OfAddress => Listed = lo..hi)
  BY DEF Listed
<1>3. lo..hi \in SUBSET Nat /\ IsFiniteSet(lo..hi) /\ \A x \in lo..hi : x \in Nat /\ lo <= x /\ x <= hi
  BY <1>1, RangeRanks
<1>4. Cardinality(lo..hi) = IF lo > hi THEN 0 ELSE hi - lo + 1
  BY <1>1, FS_Interval
<1>5. IsFiniteSet(Listed) /\ Cardinality(Listed) \in Nat
  BY <1>2, <1>3, FS_Subset, FS_CardinalityType
<1>6. ~OfAddress => Cardinality(Listed) = IF lo <= hi THEN hi - lo + 1 ELSE 0
  BY <1>1, <1>2, <1>4
<1>7. QED
  BY <1>1, <1>2, <1>3, <1>5, <1>6

\* The walks of an address split its rows: one to itself is in the first alone.
LEMMA MergedIsPage ==
  ASSUME ListingTypes, OfAddress, NEW page \in Nat \ {0}
  PROVE  MergedWalks(page) = Page(Listed, page)
<1> DEFINE sent == {r \in lo..hi : role[r] \in {"sent", "self"}}
           received == {r \in lo..hi : role[r] = "received"}
           cut == PerPage + PageOffset(page)
<1>1. sent \cup received = Listed
  <2>1. \A r \in lo..hi : role[r] \in Roles
    <3>1. lo \in Nat /\ hi \in Nat /\ 1 <= lo /\ hi <= MaxRow /\ role \in [1..MaxRow -> Roles]
      BY DEF ListingTypes
    <3>2. \A r \in lo..hi : r \in 1..MaxRow
      BY <3>1, ListingAssumption
    <3>3. QED
      BY <3>1, <3>2
  <2>2. Listed = {r \in lo..hi : role[r] # "other"}
    BY DEF Listed
  <2>3. QED
    BY <2>1, <2>2 DEF Roles
<1>2. sent \in SUBSET Listed /\ received \in SUBSET Listed
  BY <1>1
<1>3. MergedWalks(page) = Page(ToSet(Slice(sent, cut, 0)) \cup ToSet(Slice(received, cut, 0)), page)
  BY DEF MergedWalks
<1>4. PerPage \in Nat /\ PageOffset(page) \in Nat /\ cut \in Nat /\ cut = PerPage + PageOffset(page)
  BY Offsets
<1>5. Listed \in SUBSET Nat /\ IsFiniteSet(Listed)
  BY ListedFacts
<1> HIDE DEF sent, received, cut
<1>6. Slice(ToSet(Slice(sent, cut, 0)) \cup ToSet(Slice(received, cut, 0)), PerPage, PageOffset(page))
         = Slice(Listed, PerPage, PageOffset(page))
  <2>1. Splits(Listed, sent, received)
    BY <1>1, <1>5 DEF Splits
  <2>2. Slice(Walked(sent, cut) \cup Walked(received, cut), PerPage, PageOffset(page))
           = Slice(Listed, PerPage, PageOffset(page))
    BY <1>4, <2>1, Merged
  <2>3. QED
    BY <2>2 DEF Walked
<1>7. QED
  BY <1>3, <1>6 DEF Page

\* What a reader has before it reads a page's rows.
LEMMA ReadyFacts ==
  ASSUME ListingInv, reader.pc = "read"
  PROVE  /\ reader \in Reading /\ reader.page \in Nat \ {0} /\ reader.held \in Nat
         /\ reader.was \subseteq Listed /\ reader.seen \subseteq Listed
         /\ \A row \in Left :
               /\ row \in Listed /\ \A read \in reader.seen : row < read
               /\ listing \notin ByCursor => Rank(Listed, row) >= PageOffset(reader.page)
               /\ listing \in ByHeight => row + PageOffset(reader.page) <= reader.held
               /\ listing \in ByCursor => row <= reader.held
         /\ listing \in ByHeight \cup ByCursor => reader.held <= hi
         /\ listing \in CountMayBeShort => reader.held <= Cardinality(Listed)
<1>1. reader \in Reading /\ reader.was \subseteq Listed /\ reader.seen \subseteq Listed
  BY DEF ListingInv, ReaderTypes
<1>2. reader.page \in Nat \ {0} /\ reader.held \in Nat
  BY <1>1 DEF Reading
<1>3. Through = PageOffset(reader.page)
  BY DEF Through
<1>4. LeftOK /\ HeldOK
  BY DEF ListingInv
<1>5. ASSUME NEW row \in Left
      PROVE  /\ row \in Listed /\ \A read \in reader.seen : row < read
             /\ listing \notin ByCursor => Rank(Listed, row) >= PageOffset(reader.page)
             /\ listing \in ByHeight => row + PageOffset(reader.page) <= reader.held
             /\ listing \in ByCursor => row <= reader.held
  BY <1>1, <1>3, <1>4 DEF LeftOK, Left
<1>6. /\ listing \in ByHeight \cup ByCursor => reader.held <= hi
      /\ listing \in CountMayBeShort => reader.held <= Cardinality(Listed)
  BY <1>4 DEF HeldOK
<1>7. QED
  BY <1>1, <1>2, <1>5, <1>6

\* What the rows of a page leave to come.
Leaves(items) ==
    /\ items \in Seq(Nat) /\ ToSet(items) \subseteq Listed
    /\ \A row \in Left \ ToSet(items) :
          /\ \A x \in ToSet(items) : row < x
          /\ listing \notin ByCursor => Rank(Listed, row) >= PageOffset(reader.page + 1)
          /\ listing \in ByHeight => row + PageOffset(reader.page + 1) <= reader.held
          /\ listing \in ByCursor => items # <<>> /\ row < Last(items)
    /\ listing \in ByCursor /\ items # <<>> => Last(items) \in 1..hi
    /\ listing \notin ByHeight \cup ByCursor =>
          Len(items) = SizeOf(Cardinality(Listed), PerPage, PageOffset(reader.page))

\* A page cut by offset.
LEMMA PageLeaves ==
  ASSUME ListingInv, reader.pc = "read", listing \notin ByHeight \cup ByCursor
  PROVE  Leaves(Page(Listed, reader.page))
<1> DEFINE items == Page(Listed, reader.page)
           off == PageOffset(reader.page)
           next == PageOffset(reader.page + 1)
<1>1. /\ reader.page \in Nat \ {0}
      /\ \A row \in Left : row \in Listed /\ Rank(Listed, row) >= off
  BY ReadyFacts
<1>2. Listed \in SUBSET Nat /\ IsFiniteSet(Listed)
  BY ListedFacts DEF ListingInv
<1>3. PerPage \in Nat \ {0} /\ off \in Nat /\ next = off + PerPage
  BY <1>1, Offsets
<1>4. IsSlice(items, Listed, PerPage, off)
  BY <1>2, <1>3, Sliced DEF Page
<1>5. Ranked(Listed)
  BY <1>2, Ranks
<1> HIDE DEF items, off, next
<1>6. /\ items \in Seq(Listed) /\ Len(items) = SizeOf(Cardinality(Listed), PerPage, off)
      /\ ToSet(items) = {x \in Listed : off <= Rank(Listed, x) /\ Rank(Listed, x) < off + PerPage}
  BY <1>4 DEF IsSlice
<1>7. items \in Seq(Nat) /\ ToSet(items) \subseteq Listed
  <2>1. items \in [1..Len(items) -> Listed] /\ Len(items) \in Nat
    BY <1>6
  <2>2. items \in [1..Len(items) -> Nat]
    BY <1>2, <2>1
  <2>3. QED
    BY <1>6, <2>1, <2>2, SequenceOf
<1>8. ASSUME NEW row \in Left \ ToSet(items)
      PROVE  Rank(Listed, row) >= next /\ \A x \in ToSet(items) : row < x
  <2>1. row \in Listed /\ Rank(Listed, row) >= off /\ Rank(Listed, row) \in Nat
    BY <1>1, <1>5 DEF Ranked
  <2>2. ~(Rank(Listed, row) < off + PerPage)
    BY <1>6, <1>8, <2>1
  <2>3. Rank(Listed, row) >= next
    BY <1>3, <2>1, <2>2
  <2>4. ASSUME NEW x \in ToSet(items) PROVE row < x
    <3>1. x \in Listed /\ Rank(Listed, x) < off + PerPage /\ Rank(Listed, x) \in Nat
      BY <1>5, <1>6 DEF Ranked
    <3>2. Rank(Listed, x) < Rank(Listed, row)
      BY <1>3, <2>1, <2>3, <3>1
    <3>3. x > row /\ x \in Nat /\ row \in Nat
      BY <1>2, <1>5, <2>1, <3>1, <3>2 DEF Ranked
    <3>4. QED
      BY <3>3
  <2>5. QED
    BY <2>3, <2>4
<1>9. QED
  BY <1>6, <1>7, <1>8 DEF Leaves, items, off, next

\* A page of block numbers counted from the highest there was.
LEMMA BlocksLeave ==
  ASSUME ListingInv, reader.pc = "read", listing = "blocks"
  PROVE  Leaves(BlocksPage(reader.held, reader.page))
<1> DEFINE first == BlocksStart(reader.held, reader.page)
           last == BlocksEnd(reader.held, reader.page)
           S == {r \in lo..hi : r \in first..last}
           items == Descending(S)
           off == PageOffset(reader.page)
           next == PageOffset(reader.page + 1)
<1>1. /\ reader.page \in Nat \ {0} /\ reader.held \in Nat /\ reader.held <= hi
      /\ \A row \in Left : row \in Listed /\ row + off <= reader.held
  BY ReadyFacts DEF ByHeight
<1>2. lo \in Nat /\ hi \in Nat /\ 1 <= lo /\ Listed = lo..hi
  BY ListedFacts DEF ListingInv, ListingTypes, OfAddress
<1>3. PerPage \in Nat \ {0} /\ off \in Nat /\ next = off + PerPage
  BY <1>1, Offsets
<1>4. S \in SUBSET Nat /\ IsFiniteSet(S) /\ S \subseteq Listed
  <2>1. S \in SUBSET (lo..hi) /\ IsFiniteSet(lo..hi) /\ lo..hi \in SUBSET Nat
    BY <1>2, RangeRanks
  <2>2. QED
    BY <1>2, <2>1, FS_Subset
<1>5. items \in Seq(Nat) /\ ToSet(items) = S
  BY <1>4, Descends
<1>6. /\ last = IF reader.held > off THEN reader.held - off ELSE 0
      /\ first = IF last > PerPage THEN last - PerPage + 1 ELSE 1
  BY DEF BlocksStart, BlocksEnd
<1> HIDE DEF items, off, next, first, last
<1>7. ASSUME NEW row \in Left \ ToSet(items)
      PROVE  /\ row + next <= reader.held /\ Rank(Listed, row) >= next
             /\ \A x \in ToSet(items) : row < x
  <2>1. row \in Nat /\ lo <= row /\ row <= hi /\ row + off <= reader.held /\ row \notin S
    BY <1>1, <1>2, <1>5, <1>7
  <2>2. last = reader.held - off /\ row <= last
    BY <1>1, <1>2, <1>3, <1>6, <2>1
  <2>3. row < first
    BY <1>1, <1>2, <1>3, <1>6, <2>1, <2>2
  <2>4. row + next <= reader.held
    BY <1>1, <1>2, <1>3, <1>6, <2>1, <2>2, <2>3
  <2>5. Rank(Listed, row) = hi - row
    BY <1>2, <2>1, RangeRanks
  <2>6. Rank(Listed, row) >= next
    BY <1>1, <1>2, <1>3, <2>1, <2>4, <2>5
  <2>7. \A x \in ToSet(items) : row < x
    BY <1>1, <1>2, <1>3, <1>5, <1>6, <2>1, <2>3
  <2>8. QED
    BY <2>4, <2>6, <2>7
<1>8. BlocksPage(reader.held, reader.page) = items
  BY DEF BlocksPage, items, first, last
<1>9. QED
  BY <1>4, <1>5, <1>7, <1>8 DEF Leaves, next, ByHeight, ByCursor

\* A page of ids counted down from the count.
LEMMA IdsLeave ==
  ASSUME ListingInv, reader.pc = "read", listing \in {"records", "versions"}
  PROVE  Leaves(NewestFirst(reader.held, reader.page))
<1> DEFINE off == PageOffset(reader.page)
           next == PageOffset(reader.page + 1)
           last == reader.held - off
           first == IF last > PerPage THEN last - PerPage + 1 ELSE 1
           items == NewestFirst(reader.held, reader.page)
<1>1. /\ reader.page \in Nat \ {0} /\ reader.held \in Nat /\ reader.held <= hi
      /\ \A row \in Left : row \in Listed /\ row + off <= reader.held
  BY ReadyFacts DEF ByHeight
<1>2. lo = 1 /\ hi \in Nat /\ Listed = 1..hi
  BY ListedFacts DEF ListingInv, ListingTypes, OfAddress, OfContract
<1>3. PerPage \in Nat \ {0} /\ off \in Nat /\ next = off + PerPage
  BY <1>1, Offsets
<1>4. items = IF reader.held <= off THEN <<>> ELSE Descending(first..last)
  BY DEF NewestFirst
<1> HIDE DEF items, off, next
<1>5. CASE reader.held <= off
  <2>1. items = <<>> /\ ToSet(items) = {}
    BY <1>4, <1>5 DEF ToSet
  <2>2. Left = {}
    <3>1. ASSUME NEW row \in Left PROVE FALSE
      BY <1>1, <1>2, <1>3, <1>5
    <3>2. QED
      BY <3>1
  <2>3. items \in Seq(Nat)
    BY <2>1
  <2>4. QED
    BY <2>1, <2>2, <2>3 DEF Leaves, ByHeight, ByCursor, items
<1>6. CASE reader.held > off
  <2>1. first \in Nat /\ last \in Nat /\ 1 <= first /\ last <= hi
    BY <1>1, <1>2, <1>3, <1>6
  <2>2. first = IF last > PerPage THEN last - PerPage + 1 ELSE 1
    OBVIOUS
  <2>3. last = reader.held - off
    OBVIOUS
  <2>4. items = Descending(first..last)
    BY <1>1, <1>3, <1>4, <1>6
  <2> HIDE DEF first, last
  <2>5. first..last \in SUBSET Nat /\ IsFiniteSet(first..last) /\ first..last \subseteq Listed
    BY <1>2, <2>1, RangeRanks
  <2>6. items \in Seq(Nat) /\ ToSet(items) = first..last
    BY <2>4, <2>5, Descends
  <2>7. ASSUME NEW row \in Left \ ToSet(items)
        PROVE  /\ row + next <= reader.held /\ Rank(Listed, row) >= next
               /\ \A x \in ToSet(items) : row < x
    <3>1. row \in 1..hi /\ row + off <= reader.held /\ row \notin first..last
      BY <1>1, <1>2, <2>6, <2>7
    <3>2. row < first
      BY <1>1, <1>3, <2>1, <2>3, <3>1
    <3>3. row + next <= reader.held
      BY <1>1, <1>2, <1>3, <2>1, <2>2, <2>3, <3>1, <3>2
    <3>4. Rank(Listed, row) = hi - row
      BY <1>2, <3>1, RangeRanks
    <3>5. Rank(Listed, row) >= next
      BY <1>1, <1>2, <1>3, <3>1, <3>3, <3>4
    <3>6. \A x \in ToSet(items) : row < x
      BY <2>1, <2>6, <3>1, <3>2
    <3>7. QED
      BY <3>3, <3>5, <3>6
  <2>8. QED
    BY <2>5, <2>6, <2>7 DEF Leaves, next, ByHeight, ByCursor, items
<1>7. QED
  BY <1>1, <1>3, <1>5, <1>6

\* A page of block numbers from the one in the link.
LEMMA BlocksFromLeave ==
  ASSUME ListingInv, reader.pc = "read", listing = "blocks_page"
  PROVE  Leaves(BlocksFrom(reader.held))
<1> DEFINE from == reader.held
           first == IF from > PerPage THEN from - PerPage + 1 ELSE 0
           S == {r \in lo..hi : r \in first..from}
           items == Descending(S)
<1>1. /\ from \in Nat /\ from <= hi
      /\ \A row \in Left : row \in Listed /\ row <= from
  BY ReadyFacts DEF ByCursor
<1>2. lo \in Nat /\ hi \in Nat /\ 1 <= lo /\ Listed = lo..hi
  BY ListedFacts DEF ListingInv, ListingTypes, OfAddress
<1>3. PerPage \in Nat \ {0}
  BY ListingAssumption
<1>4. S \in SUBSET Nat /\ IsFiniteSet(S) /\ S \subseteq Listed
  <2>1. S \in SUBSET (lo..hi) /\ IsFiniteSet(lo..hi) /\ lo..hi \in SUBSET Nat
    BY <1>2, RangeRanks
  <2>2. QED
    BY <1>2, <2>1, FS_Subset
<1>5. /\ items \in Seq(Nat) /\ ToSet(items) = S
      /\ S = {} => items = <<>>
      /\ S # {} => items # <<>> /\ Last(items) \in S
  BY <1>4, Descends
<1> HIDE DEF items
<1>6. ASSUME NEW row \in Left \ ToSet(items)
      PROVE  /\ items # <<>> /\ row < Last(items)
             /\ \A x \in ToSet(items) : row < x
  <2>1. row \in Nat /\ lo <= row /\ row <= from /\ from <= hi /\ row \notin S
    BY <1>1, <1>2, <1>5, <1>6
  <2>2. row < first
    BY <1>1, <1>2, <1>3, <2>1
  <2>3. from \in S
    BY <1>1, <1>2, <1>3, <2>1
  <2>4. \A x \in S : row < x
    BY <1>1, <1>2, <1>3, <2>1, <2>2
  <2>5. QED
    BY <1>5, <2>3, <2>4
<1>7. items # <<>> => Last(items) \in 1..hi
  BY <1>2, <1>5
<1>8. BlocksFrom(reader.held) = items
  BY DEF BlocksFrom, items
<1>9. QED
  BY <1>4, <1>5, <1>6, <1>7, <1>8 DEF Leaves, ByHeight, ByCursor

\* A single block, found from the number in the link.
LEMMA BlockLeaves ==
  ASSUME ListingInv, reader.pc = "read", listing = "block_page"
  PROVE  Leaves(FindBlock(reader.held))
<1> DEFINE held == reader.held
           items == FindBlock(held)
<1>1. /\ held \in Nat /\ held <= hi
      /\ \A row \in Left : row \in Listed /\ row <= held
  BY ReadyFacts DEF ByCursor
<1>2. lo \in Nat /\ hi \in Nat /\ 1 <= lo /\ Listed = lo..hi
  BY ListedFacts DEF ListingInv, ListingTypes, OfAddress
<1> HIDE DEF held
<1>3. CASE held \in lo..hi
  <2>1. items = <<held>> /\ items \in Seq(Nat) /\ Last(items) = held /\ items # <<>>
    BY <1>1, <1>3 DEF FindBlock, Last
  <2>2. ToSet(items) = {held}
    BY <2>1 DEF ToSet
  <2> HIDE DEF items
  <2>3. \A row \in Left \ ToSet(items) : row < held
    BY <1>1, <1>2, <2>2
  <2>4. held \in 1..hi
    BY <1>2, <1>3
  <2>5. QED
    BY <1>2, <1>3, <2>1, <2>2, <2>3, <2>4 DEF Leaves, ByHeight, ByCursor, items, held
<1>4. CASE held \notin lo..hi
  <2>1. items = <<>>
    BY <1>4 DEF FindBlock
  <2>2. ToSet(items) = {} /\ items \in Seq(Nat)
    BY <2>1 DEF ToSet
  <2> HIDE DEF items
  <2>3. Left = {}
    <3>1. ASSUME NEW row \in Left PROVE FALSE
      BY <1>1, <1>2, <1>4
    <3>2. QED
      BY <3>1
  <2>4. QED
    BY <2>1, <2>2, <2>3 DEF Leaves, ByHeight, ByCursor, items, held
<1>5. QED
  BY <1>3, <1>4

\* Whatever the listing, a page leaves what is below it.
LEMMA ItemsLeave ==
  ASSUME ListingInv, reader.pc = "read"
  PROVE  Leaves(ItemsOf(reader.page, reader.held))
<1>1. ListingTypes /\ listing \in Listings /\ reader.page \in Nat \ {0}
  BY ReadyFacts DEF ListingInv, ListingTypes
<1>2. CASE listing = "blocks"
  BY <1>2, BlocksLeave DEF ItemsOf
<1>3. CASE listing \in {"records", "versions"}
  BY <1>3, IdsLeave DEF ItemsOf, Versions
<1>4. CASE listing = "blocks_page"
  BY <1>4, BlocksFromLeave DEF ItemsOf
<1>5. CASE listing = "block_page"
  BY <1>5, BlockLeaves DEF ItemsOf
<1>6. CASE listing \notin ByHeight \cup ByCursor
  <2>1. ItemsOf(reader.page, reader.held) = Page(Listed, reader.page)
    <3>1. CASE OfAddress
      <4>1. MergedWalks(reader.page) = Page(Listed, reader.page)
        BY <1>1, <3>1, MergedIsPage
      <4>2. QED
        BY <3>1, <4>1 DEF ItemsOf, AddressTransfers, OfAddress
    <3>2. CASE ~OfAddress
      BY <1>6, <3>2 DEF ItemsOf, OfAddress, ByHeight, ByCursor
    <3>3. QED
      BY <3>1, <3>2
  <2>2. QED
    BY <1>6, <2>1, PageLeaves
<1>7. QED
  BY <1>1, <1>2, <1>3, <1>4, <1>5, <1>6 DEF Listings, ByHeight, ByCursor

\* At first nothing is read.
LEMMA InitListing == ListingInit => ListingInv
<1> SUFFICES ASSUME ListingInit PROVE ListingInv
  OBVIOUS
<1> USE ListingAssumption
<1>1. hi \in Nat /\ hi <= MaxRow
  BY DEF ListingInit
<1>2. lo \in Nat \ {0} /\ lo <= hi + 1 /\ (OfContract => lo = 1)
  BY <1>1 DEF ListingInit
<1>3. listing \in Listings
  BY DEF ListingInit
<1>4. role \in [1..MaxRow -> Roles]
  BY DEF ListingInit, Roles
<1>5. ASSUME NEW n \in counted PROVE n \in Nat /\ n <= Cardinality(Listed)
  <2>1. Listed \in SUBSET (lo..hi) /\ IsFiniteSet(lo..hi)
    BY <1>1, <1>2, RangeRanks DEF Listed
  <2>2. Cardinality(Listed) \in Nat
    BY <2>1, FS_Subset, FS_CardinalityType
  <2>3. counted = {} \/ \E m \in 0..Cardinality(Listed) : counted = {m}
    BY DEF ListingInit
  <2>4. n \in 0..Cardinality(Listed)
    BY <1>5, <2>3
  <2>5. QED
    BY <2>2, <2>4
<1>6. ListingTypes
  BY <1>1, <1>2, <1>3, <1>4, <1>5 DEF ListingTypes
<1>7. reader.pc = "idle"
  BY DEF ListingInit
<1>8. QED
  BY <1>6, <1>7 DEF ListingInv, ReaderTypes, HeldOK, LeftOK, MissesOnlyTheLate

\* Rows that come in leave the reader's knowledge true.
LEMMA Grows ==
  ASSUME ListingInv, ListingTypes', Listed \subseteq Listed', hi <= hi', UNCHANGED <<listing, reader>>
  PROVE  ListingInv'
<1>1. ListingTypes /\ ReaderTypes /\ HeldOK /\ LeftOK /\ MissesOnlyTheLate
  BY DEF ListingInv
<1>2. /\ IsFiniteSet(Listed) /\ Cardinality(Listed) \in Nat /\ hi \in Nat
  BY <1>1, ListedFacts DEF ListingTypes
<1>3. Listed' \in SUBSET Nat /\ IsFiniteSet(Listed') /\ Cardinality(Listed') \in Nat /\ hi' \in Nat
  <2>1. lo' \in Nat /\ hi' \in Nat
    BY DEF ListingTypes
  <2>2. Listed' \in SUBSET (lo'..hi')
    BY DEF Listed
  <2>3. lo'..hi' \in SUBSET Nat /\ IsFiniteSet(lo'..hi')
    BY <2>1, RangeRanks
  <2>4. QED
    BY <2>1, <2>2, <2>3, FS_Subset, FS_CardinalityType
<1>4. Cardinality(Listed) <= Cardinality(Listed')
  BY <1>3, FS_Subset
<1>5. \A row : /\ Rank(Listed, row) \in Nat /\ Rank(Listed', row) \in Nat
               /\ Rank(Listed, row) <= Rank(Listed', row)
  BY <1>3, Sinks
<1>6. ReaderTypes'
  BY <1>1 DEF ReaderTypes
<1>7. HeldOK'
  BY <1>1, <1>2, <1>3, <1>4 DEF HeldOK, ReaderTypes, Reading
<1>8. LeftOK'
  <2>1. Left' = Left /\ Through' = Through
    BY DEF Left, Through
  <2>2. reader.pc # "idle" => \A row \in Left, read \in reader.seen : row < read
    BY <1>1 DEF LeftOK
  <2>3. reader.pc # "idle" => Through \in Nat
    <3>1. SUFFICES ASSUME reader.pc # "idle" PROVE Through \in Nat
      OBVIOUS
    <3>2. reader.page \in Nat \ {0} /\ reader.page + 1 \in Nat \ {0}
      BY <1>1, <3>1 DEF ReaderTypes, Reading
    <3>3. QED
      BY <3>2, Offsets DEF Through
  <2>4. ASSUME reader.pc \in {"count", "lowest", "read", "after"}, NEW row \in Left
        PROVE  /\ listing \notin ByCursor => Rank(Listed', row) >= Through
               /\ listing \in ByHeight /\ reader.pc # "count" => row + Through <= reader.held
               /\ listing \in ByCursor /\ reader.pc = "read" => row <= reader.held
               /\ listing \in ByCursor /\ reader.pc = "after" => reader.items # <<>> /\ row < Last(reader.items)
    <3>1. /\ listing \notin ByCursor => Rank(Listed, row) >= Through
          /\ listing \in ByHeight /\ reader.pc # "count" => row + Through <= reader.held
          /\ listing \in ByCursor /\ reader.pc = "read" => row <= reader.held
          /\ listing \in ByCursor /\ reader.pc = "after" => reader.items # <<>> /\ row < Last(reader.items)
      BY <1>1, <2>4 DEF LeftOK
    <3>2. Through \in Nat
      BY <2>3, <2>4
    <3>3. listing \notin ByCursor => Rank(Listed', row) >= Through
      BY <1>5, <3>1, <3>2
    <3>4. QED
      BY <3>1, <3>3
  <2>5. listing \in ByCursor /\ reader.pc = "after" /\ reader.items # <<>> => Last(reader.items) \in 1..hi'
    BY <1>1, <1>2, <1>3 DEF LeftOK
  <2>6. /\ listing' = listing /\ reader' = reader /\ ByCursor' = ByCursor /\ ByHeight' = ByHeight
    BY DEF ByCursor, ByHeight
  <2>7. listing = "blocks" /\ reader.pc = "read" => \A row \in Left : reader.lowest <= row
    BY <1>1 DEF LeftOK
  <2>8. QED
    BY <2>1, <2>2, <2>4, <2>5, <2>6, <2>7 DEF LeftOK, Rank, Last
<1>9. MissesOnlyTheLate'
  BY <1>1 DEF MissesOnlyTheLate
<1>10. QED
  BY <1>6, <1>7, <1>8, <1>9 DEF ListingInv

\* Growth at either end keeps what is listed.
LEMMA GrowTypes ==
  ASSUME ListingInv, UNCHANGED <<role, counted, listing>>, lo' \in Nat \ {0}, hi' \in Nat,
         lo' <= lo, hi <= hi', hi' <= MaxRow, lo' <= hi' + 1, OfContract => lo' = 1
  PROVE  ListingTypes' /\ Listed \subseteq Listed'
<1>1. ListingTypes /\ lo \in Nat /\ hi \in Nat
  BY DEF ListingInv, ListingTypes
<1>2. OfAddress' = OfAddress /\ OfContract' = OfContract
  BY DEF OfAddress, OfContract
<1>3. lo..hi \subseteq lo'..hi'
  BY <1>1
<1>4. Listed \subseteq Listed' /\ Listed' \in SUBSET (lo'..hi')
  BY <1>2, <1>3 DEF Listed
<1>5. IsFiniteSet(Listed')
  BY <1>4, RangeRanks, FS_Subset
<1>6. Cardinality(Listed) <= Cardinality(Listed') /\ Cardinality(Listed) \in Nat /\ Cardinality(Listed') \in Nat
  BY <1>1, <1>4, <1>5, FS_Subset, FS_CardinalityType, ListedFacts
<1>7. \A n \in counted' : n \in Nat /\ n <= Cardinality(Listed')
  BY <1>1, <1>6 DEF ListingTypes
<1>8. QED
  BY <1>1, <1>2, <1>4, <1>7 DEF ListingTypes

\* A newer row pushes what is left down by one.
LEMMA NewerStep == ASSUME ListingInv, IndexNewer PROVE ListingInv'
<1>1. ListingTypes
  BY DEF ListingInv
<1>2. ListingTypes' /\ Listed \subseteq Listed'
  BY <1>1, GrowTypes, ListingAssumption DEF IndexNewer, ListingTypes
<1>3. QED
  BY <1>1, <1>2, Grows DEF IndexNewer, ListingTypes

\* An older row comes in below all that is left.
LEMMA OlderStep == ASSUME ListingInv, IndexOlder PROVE ListingInv'
<1>1. ListingTypes
  BY DEF ListingInv
<1>2. ListingTypes' /\ Listed \subseteq Listed'
  BY <1>1, GrowTypes, ListingAssumption DEF IndexOlder, ListingTypes
<1>3. QED
  BY <1>1, <1>2, Grows DEF IndexOlder, ListingTypes

\* The statistics are the count of now.
LEMMA RecountStep == ASSUME ListingInv, Recount PROVE ListingInv'
<1>1. ListingTypes /\ hi \in Nat
  BY DEF ListingInv, ListingTypes
<1>2. Listed' = Listed /\ OfContract' = OfContract
  BY DEF Recount, Listed, OfAddress, OfContract
<1>3. Cardinality(Listed) \in Nat
  BY <1>1, ListedFacts
<1>4. \A n \in counted' : n \in Nat /\ n <= Cardinality(Listed')
  BY <1>2, <1>3 DEF Recount
<1>5. ListingTypes'
  BY <1>1, <1>2, <1>4 DEF ListingTypes, Recount
<1>6. QED
  BY <1>1, <1>2, <1>5, Grows DEF Recount

\* A reader begins: all is left.
LEMMA OpenStep == ASSUME ListingInv, Open PROVE ListingInv'
<1>1. ListingTypes /\ Listed \in SUBSET Nat /\ IsFiniteSet(Listed) /\ Cardinality(Listed) \in Nat
  BY ListedFacts DEF ListingInv
<1>2. UNCHANGED <<lo, hi, role, counted, listing>>
  BY DEF Open
<1>3. /\ ListingTypes' /\ Listed' = Listed
      /\ ByCursor' = ByCursor /\ ByHeight' = ByHeight /\ CountsFirst' = CountsFirst
  BY <1>1, <1>2 DEF ListingTypes, Listed, OfAddress, OfContract, ByCursor, ByHeight, CountsFirst
<1>4. reader' = [pc |-> FirstStep, page |-> 1, held |-> 0, items |-> <<>>,
                 lowest |-> 1, was |-> Listed, seen |-> {}, late |-> 0]
  BY DEF Open
<1>5. FirstStep \in {"count", "read"}
  BY DEF FirstStep
<1>6. /\ reader'.pc = FirstStep /\ reader'.page = 1 /\ reader'.held = 0 /\ reader'.was = Listed
      /\ reader'.seen = {} /\ reader' \in Reading
  BY <1>1, <1>4, <1>5 DEF Reading
<1>7. ReaderTypes'
  BY <1>1, <1>3, <1>6 DEF ReaderTypes
<1>8. FirstStep = "read" => listing \notin CountsFirst
  BY DEF FirstStep
<1>9. FirstStep = "count" => listing \in CountsFirst
  BY DEF FirstStep
<1>10. HeldOK'
  BY <1>2, <1>5, <1>6, <1>8, <1>9 DEF HeldOK, CountsFirst, CountMayBeShort, ByHeight, ByCursor
<1>11. LeftOK'
  <2>1. Left' = Listed /\ Through' = 0
    BY <1>5, <1>6, Offsets DEF Left, Through
  <2>2. ASSUME NEW row \in Listed PROVE Rank(Listed, row) >= 0
    BY <1>1, Sinks
  <2>3. FirstStep = "read" => listing \notin ByHeight /\ listing \notin ByCursor /\ listing # "blocks"
    BY <1>8 DEF CountsFirst, ByHeight, ByCursor
  <2>4. listing' = listing
    BY <1>2
  <2>5. QED
    BY <1>3, <1>5, <1>6, <2>1, <2>2, <2>3, <2>4 DEF LeftOK, Rank
<1>12. MissesOnlyTheLate'
  BY <1>5, <1>6 DEF MissesOnlyTheLate
<1>13. QED
  BY <1>3, <1>7, <1>10, <1>11, <1>12 DEF ListingInv

\* A count, or the highest row, is taken before the rows.
LEMMA CountStep == ASSUME ListingInv, Count PROVE ListingInv'
<1>1. /\ ListingTypes /\ Listed \in SUBSET Nat /\ IsFiniteSet(Listed) /\ Cardinality(Listed) \in Nat
      /\ ReaderTypes /\ HeldOK /\ LeftOK
  BY ListedFacts DEF ListingInv
<1>2. UNCHANGED <<lo, hi, role, counted, listing>> /\ reader.pc = "count"
  BY DEF Count
<1>3. /\ ListingTypes' /\ Listed' = Listed
      /\ ByCursor' = ByCursor /\ ByHeight' = ByHeight /\ CountMayBeShort' = CountMayBeShort
  BY <1>1, <1>2 DEF ListingTypes, Listed, OfAddress, OfContract, ByCursor, ByHeight, CountMayBeShort
<1>4. reader \in Reading /\ reader.was \subseteq Listed /\ reader.seen \subseteq Listed
  BY <1>1, <1>2 DEF ReaderTypes
<1> DEFINE held == CASE listing \in {"blocks"} \cup ByCursor -> Highest
                     [] listing = "txs_page" -> TotalTxs
                     [] OTHER -> Cardinality(Listed)
           pc == IF listing = "blocks" THEN "lowest" ELSE "read"
<1>5. reader' = [reader EXCEPT !.pc = pc, !.held = held]
  BY DEF Count
<1>6. hi \in Nat /\ lo \in Nat \ {0} /\ Highest = IF lo <= hi THEN hi ELSE 0
  BY <1>1 DEF ListingTypes, Highest
<1>7. TotalTxs \in Nat /\ TotalTxs <= Cardinality(Listed)
  <2>1. CASE counted = {}
    BY <1>1, <2>1 DEF TotalTxs
  <2>2. CASE counted # {}
    <3>1. TotalTxs \in counted
      BY <2>2 DEF TotalTxs
    <3>2. QED
      BY <1>1, <3>1 DEF ListingTypes
  <2>3. QED
    BY <2>1, <2>2
<1>8. listing \in {"blocks"} \cup ByCursor => held = Highest
  BY DEF ByCursor
<1>9. listing = "txs_page" => held = TotalTxs
  BY DEF ByCursor
<1>10. listing \notin {"blocks", "txs_page"} \cup ByCursor => held = Cardinality(Listed)
  OBVIOUS
<1> HIDE DEF held, pc
<1>11. held \in Nat
  BY <1>1, <1>6, <1>7, <1>8, <1>9, <1>10 DEF ByCursor
<1>12. /\ reader' \in Reading /\ reader'.pc = pc /\ reader'.held = held
       /\ reader'.was = reader.was /\ reader'.seen = reader.seen /\ reader'.page = reader.page
       /\ pc \in {"lowest", "read"} /\ (pc = "lowest" <=> listing = "blocks")
  <2>1. pc \in {"lowest", "read"} /\ (pc = "lowest" <=> listing = "blocks")
    BY DEF pc
  <2>2. QED
    BY <1>4, <1>5, <1>11, <2>1 DEF Reading
<1>13. ReaderTypes'
  BY <1>3, <1>4, <1>12 DEF ReaderTypes
<1>14. listing \in {"records", "versions"} => lo = 1 /\ Listed = lo..hi /\ Cardinality(Listed) = hi
  BY <1>1, <1>6, ListedFacts DEF ListingTypes, OfContract, OfAddress
<1>15. listing \in ByHeight \cup ByCursor => held <= hi
  BY <1>6, <1>8, <1>10, <1>14 DEF ByHeight, ByCursor
<1>16. listing \in CountMayBeShort => held <= Cardinality(Listed)
  BY <1>1, <1>7, <1>9, <1>10 DEF CountMayBeShort, ByCursor
<1>17. HeldOK'
  BY <1>2, <1>3, <1>12, <1>15, <1>16 DEF HeldOK
<1>18. LeftOK'
  <2>1. Left' = Left /\ Through' = Through
    BY <1>2, <1>12 DEF Left, Through
  <2>2. \A row \in Left : /\ \A read \in reader.seen : row < read
                          /\ listing \notin ByCursor => Rank(Listed, row) >= Through
    BY <1>1, <1>2 DEF LeftOK
  <2>3. ASSUME NEW row \in Left, listing \in ByHeight
        PROVE  row + Through <= held
    <3>1. ~OfAddress /\ listing \notin ByCursor
      BY <2>3 DEF ByHeight, OfAddress, ByCursor
    <3>2. Listed = lo..hi
      BY <1>1, <3>1, ListedFacts
    <3>3. row \in lo..hi
      BY <1>4, <3>2 DEF Left
    <3>4. Rank(Listed, row) = hi - row
      BY <1>6, <3>2, <3>3, RangeRanks
    <3>5. held = hi
      BY <1>6, <1>8, <1>10, <1>14, <2>3, <3>3 DEF ByHeight, ByCursor
    <3>6. Through \in Nat
      BY <1>2, <1>4, Offsets DEF Through, Reading
    <3>7. QED
      BY <1>6, <2>2, <3>1, <3>3, <3>4, <3>5, <3>6
  <2>4. ASSUME NEW row \in Left, listing \in ByCursor
        PROVE  row <= held
    <3>1. Listed = lo..hi
      BY <1>1, <2>4, ListedFacts DEF ByCursor, OfAddress
    <3>2. row \in lo..hi
      BY <1>4, <3>1 DEF Left
    <3>3. QED
      BY <1>6, <1>8, <2>4, <3>2
  <2>5. listing' = listing
    BY <1>2
  <2>6. QED
    BY <1>3, <1>12, <2>1, <2>2, <2>3, <2>4, <2>5 DEF LeftOK, Rank
<1>19. MissesOnlyTheLate'
  BY <1>12 DEF MissesOnlyTheLate
<1>20. QED
  BY <1>3, <1>13, <1>17, <1>18, <1>19 DEF ListingInv

\* Of blocks the lowest is read, and all that is left is at or above it.
LEMMA LowestStep == ASSUME ListingInv, Lowest PROVE ListingInv'
<1> DEFINE lowest == IF lo <= hi THEN lo ELSE 1
<1>1. /\ ListingTypes /\ ReaderTypes /\ HeldOK /\ LeftOK /\ reader.pc = "lowest"
      /\ UNCHANGED <<lo, hi, role, counted, listing>>
  BY DEF ListingInv, Lowest
<1>2. /\ ListingTypes' /\ Listed' = Listed
      /\ ByCursor' = ByCursor /\ ByHeight' = ByHeight /\ CountMayBeShort' = CountMayBeShort
  BY <1>1 DEF ListingTypes, Listed, OfAddress, OfContract, ByCursor, ByHeight, CountMayBeShort
<1>3. listing = "blocks" /\ reader \in Reading /\ reader.was \subseteq Listed /\ reader.seen \subseteq Listed
  BY <1>1 DEF HeldOK, ReaderTypes
<1>4. lowest \in Nat
  BY <1>1 DEF ListingTypes
<1>5. ASSUME NEW row \in Left PROVE lowest <= row
  <2>1. row \in Listed
    BY <1>3 DEF Left
  <2>2. row \in Nat /\ lo <= row /\ row <= hi /\ lo \in Nat /\ hi \in Nat
    BY <1>1, <2>1, ListedFacts DEF ListingTypes
  <2>3. QED
    BY <2>2
<1>6. reader' = [reader EXCEPT !.pc = "read", !.lowest = lowest]
  BY DEF Lowest
<1> HIDE DEF lowest
<1>7. /\ reader' \in Reading /\ reader'.pc = "read" /\ reader'.held = reader.held /\ reader'.lowest = lowest
      /\ reader'.was = reader.was /\ reader'.seen = reader.seen /\ reader'.page = reader.page
  BY <1>3, <1>4, <1>6 DEF Reading
<1>8. ReaderTypes' /\ HeldOK'
  BY <1>1, <1>2, <1>3, <1>7 DEF ReaderTypes, HeldOK, CountMayBeShort
<1>9. LeftOK'
  <2>1. Left' = Left /\ Through' = Through
    BY <1>1, <1>7 DEF Left, Through
  <2>2. \A row \in Left : /\ \A read \in reader.seen : row < read
                          /\ listing \notin ByCursor => Rank(Listed, row) >= Through
                          /\ listing \in ByHeight => row + Through <= reader.held
    BY <1>1 DEF LeftOK
  <2>3. QED
    BY <1>1, <1>2, <1>3, <1>5, <1>7, <2>1, <2>2 DEF LeftOK, Rank, ByCursor
<1>10. MissesOnlyTheLate'
  BY <1>7 DEF MissesOnlyTheLate
<1>11. QED
  BY <1>2, <1>8, <1>9, <1>10 DEF ListingInv

\* A reader whose page is read.
ReadOK(r) ==
    /\ r \in Reading /\ r.was \subseteq Listed /\ r.seen \subseteq Listed
    /\ \A row \in r.was \ r.seen :
          /\ \A read \in r.seen : row < read
          /\ listing \notin ByCursor => Rank(Listed, row) >= PageOffset(r.page + 1)
          /\ listing \in ByHeight => row + PageOffset(r.page + 1) <= r.held
          /\ listing \in ByCursor => r.items # <<>> /\ row < Last(r.items)
    /\ listing \in ByHeight \cup ByCursor => r.held <= hi
    /\ listing \in ByCursor /\ r.items # <<>> => Last(r.items) \in 1..hi

\* Where the page is shown, the reader goes on or has missed only what came late.
LEMMA Shows ==
  ASSUME ListingTypes, NEW r, ReadOK(r), NEW more \in BOOLEAN,
         more /\ listing \in ByCursor => r.items # <<>>,
         ~more => Cardinality(r.was \ r.seen) <= r.late,
         reader' = Shown(r, more), UNCHANGED <<lo, hi, role, counted, listing>>
  PROVE  ListingInv'
<1>1. /\ ListingTypes' /\ Listed' = Listed /\ listing' = listing /\ hi' = hi /\ ByCursor' = ByCursor
      /\ ByHeight' = ByHeight /\ CountMayBeShort' = CountMayBeShort /\ CountsFirst' = CountsFirst
  BY DEF ListingTypes, Listed, OfAddress, OfContract, ByCursor, ByHeight, CountMayBeShort, CountsFirst
<1>2. /\ r \in Reading /\ r.was \subseteq Listed /\ r.seen \subseteq Listed
      /\ r.page \in Nat \ {0} /\ r.items \in Seq(Nat) /\ hi \in Nat
  BY DEF ReadOK, Reading, ListingTypes
<1>3. CASE ~more
  <2>1. reader' = [r EXCEPT !.pc = "end"]
    BY <1>3 DEF Shown
  <2>2. /\ reader' \in Reading /\ reader'.pc = "end" /\ reader'.was = r.was /\ reader'.seen = r.seen
        /\ reader'.late = r.late
    BY <1>2, <2>1 DEF Reading
  <2>3. ReaderTypes' /\ HeldOK'
    BY <1>1, <1>2, <2>2 DEF ReaderTypes, HeldOK
  <2>4. LeftOK'
    <3>1. \A row \in r.was \ r.seen, read \in r.seen : row < read
      BY DEF ReadOK
    <3>2. QED
      BY <2>2, <3>1 DEF LeftOK, Left
  <2>5. MissesOnlyTheLate'
    BY <1>3, <2>2 DEF MissesOnlyTheLate
  <2>6. QED
    BY <1>1, <2>3, <2>4, <2>5 DEF ListingInv
<1>4. CASE more /\ listing \in ByCursor
  <2> DEFINE held == Last(r.items) - 1
  <2>1. reader' = [r EXCEPT !.pc = "read", !.held = held]
    BY <1>4 DEF Shown
  <2>2. Last(r.items) \in 1..hi
    BY <1>4 DEF ReadOK
  <2>3. held \in Nat /\ held <= hi
    BY <1>2, <2>2
  <2>4. ASSUME NEW row \in r.was \ r.seen
        PROVE  row <= held /\ \A read \in r.seen : row < read
    <3>1. row < Last(r.items) /\ \A read \in r.seen : row < read
      BY <1>4 DEF ReadOK
    <3>2. row \in Nat
      BY <1>2, ListedFacts
    <3>3. QED
      BY <1>2, <2>2, <3>1, <3>2
  <2> HIDE DEF held
  <2>5. /\ reader' \in Reading /\ reader'.pc = "read" /\ reader'.was = r.was /\ reader'.seen = r.seen
        /\ reader'.held = held
    BY <1>2, <2>1, <2>3 DEF Reading
  <2>6. listing \notin CountMayBeShort /\ listing \notin ByHeight /\ listing # "blocks"
    BY <1>4 DEF CountMayBeShort, ByHeight, ByCursor
  <2>7. ReaderTypes' /\ HeldOK'
    BY <1>1, <1>2, <2>3, <2>5, <2>6 DEF ReaderTypes, HeldOK
  <2>8. LeftOK'
    BY <1>1, <1>4, <2>4, <2>5, <2>6 DEF LeftOK, Left
  <2>9. MissesOnlyTheLate'
    BY <2>5 DEF MissesOnlyTheLate
  <2>10. QED
    BY <1>1, <2>7, <2>8, <2>9 DEF ListingInv
<1>5. CASE more /\ listing \notin ByCursor
  <2>1. reader' = [r EXCEPT !.pc = FirstStep, !.page = @ + 1]
    BY <1>5 DEF Shown
  <2>2. /\ FirstStep \in {"count", "read"}
        /\ FirstStep = "count" => listing \in CountsFirst
        /\ FirstStep = "read" => listing \notin CountsFirst
    BY DEF FirstStep
  <2>3. /\ reader' \in Reading /\ reader'.pc = FirstStep /\ reader'.was = r.was /\ reader'.seen = r.seen
        /\ reader'.page = r.page + 1
    <3>1. r.page + 1 \in Nat \ {0}
      BY <1>2
    <3>2. FirstStep \in {"count", "lowest", "read", "after", "end"}
      BY <2>2
    <3>3. reader' = [[r EXCEPT !.pc = FirstStep] EXCEPT !.page = r.page + 1]
      BY <1>2, <2>1 DEF Reading
    <3> HIDE DEF FirstStep
    <3>4. QED
      BY <1>2, <3>1, <3>2, <3>3 DEF Reading
  <2>4. FirstStep = "read" => listing \notin ByHeight /\ listing \notin CountMayBeShort /\ listing # "blocks"
    BY <2>2 DEF CountMayBeShort, ByHeight, CountsFirst
  <2>5. ReaderTypes' /\ HeldOK'
    BY <1>1, <1>2, <1>5, <2>2, <2>3, <2>4 DEF ReaderTypes, HeldOK
  <2>6. \A row \in r.was \ r.seen :
           Rank(Listed, row) >= PageOffset(r.page + 1) /\ \A read \in r.seen : row < read
    BY <1>5 DEF ReadOK
  <2>7. Left' = r.was \ r.seen /\ Through' = PageOffset(r.page + 1)
    BY <2>2, <2>3 DEF Left, Through
  <2>8. LeftOK'
    BY <1>1, <1>5, <2>2, <2>3, <2>4, <2>6, <2>7 DEF LeftOK, Rank
  <2>9. MissesOnlyTheLate'
    BY <2>2, <2>3 DEF MissesOnlyTheLate
  <2>10. QED
    BY <1>1, <2>5, <2>8, <2>9 DEF ListingInv
<1>6. QED
  BY <1>3, <1>4, <1>5

\* With nothing left nothing is missed.
LEMMA NoneLeft ==
  ASSUME NEW r \in Reading, r.was \ r.seen = {}
  PROVE  Cardinality(r.was \ r.seen) <= r.late
<1>1. r.late \in Nat
  BY DEF Reading
<1>2. QED
  BY <1>1, FS_EmptySet

\* The reader with a page's rows.
With(items, late) ==
    [reader EXCEPT !.items = items, !.seen = reader.seen \cup ToSet(items), !.late = late]

\* After a page what is left is below it.
LEMMA PageRead ==
  ASSUME ListingInv, reader.pc = "read", NEW items, Leaves(items), NEW late \in Nat
  PROVE  /\ With(items, late) \in Reading /\ ReadOK(With(items, late))
         /\ With(items, late).was \ With(items, late).seen = Left \ ToSet(items)
         /\ With(items, late).items = items /\ With(items, late).late = late
         /\ With(items, late).pc = "read" /\ With(items, late).page = reader.page
         /\ With(items, late).held = reader.held
<1> DEFINE r == With(items, late)
<1>1. /\ reader \in Reading /\ reader.was \subseteq Listed /\ reader.seen \subseteq Listed
      /\ \A row \in Left : \A read \in reader.seen : row < read
      /\ listing \in ByHeight \cup ByCursor => reader.held <= hi
  BY ReadyFacts
<1>2. items \in Seq(Nat) /\ ToSet(items) \subseteq Listed
  BY DEF Leaves
<1>3. Listed \in SUBSET Nat
  BY ListedFacts DEF ListingInv
<1>4. reader.seen \cup ToSet(items) \in SUBSET Nat
  BY <1>1, <1>2, <1>3
<1>5. /\ r \in Reading /\ r.was = reader.was /\ r.seen = reader.seen \cup ToSet(items)
      /\ r.items = items /\ r.page = reader.page /\ r.held = reader.held /\ r.late = late /\ r.pc = "read"
  BY <1>1, <1>2, <1>4 DEF With, Reading
<1>6. r.was \ r.seen = Left \ ToSet(items)
  BY <1>5 DEF Left
<1> HIDE DEF r
<1>7. ReadOK(r)
  <2>1. ASSUME NEW row \in r.was \ r.seen
        PROVE  /\ \A read \in r.seen : row < read
               /\ listing \notin ByCursor => Rank(Listed, row) >= PageOffset(r.page + 1)
               /\ listing \in ByHeight => row + PageOffset(r.page + 1) <= r.held
               /\ listing \in ByCursor => r.items # <<>> /\ row < Last(r.items)
    BY <1>1, <1>5, <1>6 DEF Leaves
  <2>2. listing \in ByCursor /\ r.items # <<>> => Last(r.items) \in 1..hi
    BY <1>5 DEF Leaves
  <2>3. r.was \subseteq Listed /\ r.seen \subseteq Listed
    BY <1>1, <1>2, <1>5
  <2>4. QED
    BY <1>1, <1>5, <2>1, <2>2, <2>3 DEF ReadOK
<1>8. QED
  BY <1>5, <1>6, <1>7 DEF r

\* A page that offers no other leaves only what came since the count.
LEMMA LastPage ==
  ASSUME ListingInv, reader.pc = "read", listing \notin CountsAfter,
         NEW items, Leaves(items), ~OffersMore(items),
         NEW late, late = IF listing \in CountMayBeShort THEN Cardinality(Listed) - reader.held ELSE 0
  PROVE  Cardinality(Left \ ToSet(items)) <= late
<1> DEFINE U == Left \ ToSet(items)
           off == PageOffset(reader.page)
           next == PageOffset(reader.page + 1)
<1>1. /\ reader.page \in Nat \ {0} /\ reader.held \in Nat
      /\ \A row \in Left : row \in Listed
      /\ listing \in CountMayBeShort => reader.held <= Cardinality(Listed)
  BY ReadyFacts
<1>2. /\ Listed \in SUBSET Nat /\ IsFiniteSet(Listed) /\ Cardinality(Listed) \in Nat
      /\ \A x \in Listed : x \in Nat /\ 1 <= x
  BY ListedFacts DEF ListingInv, ListingTypes
<1>3. PerPage \in Nat \ {0} /\ off \in Nat /\ next = off + PerPage /\ reader.page * PerPage = next
  BY <1>1, Offsets
<1>4. /\ listing \notin ByCursor => \A row \in U : Rank(Listed, row) >= next
      /\ listing \in ByHeight => \A row \in U : row + next <= reader.held
      /\ listing \in ByCursor => \A row \in U : items # <<>>
      /\ listing \notin ByHeight \cup ByCursor => Len(items) = SizeOf(Cardinality(Listed), PerPage, off)
  BY DEF Leaves
<1>5. /\ listing = "blocks_page" => items = <<>>
      /\ listing = "blocks" => ~(BlocksStart(reader.held, reader.page) > reader.lowest)
      /\ listing \in CountsFirst \ (ByCursor \cup {"blocks"}) => next >= reader.held
      /\ listing \notin CountsFirst => Len(items) # PerPage
  <2>1. RunsPast(reader.held, reader.page) <=> next < reader.held
    BY <1>3 DEF RunsPast
  <2>2. listing \in CountsFirst \ (ByCursor \cup {"blocks"}) => ~RunsPast(reader.held, reader.page)
    BY DEF OffersMore, ByCursor
  <2>3. /\ listing = "blocks_page" => items = <<>>
        /\ listing = "blocks" => ~(BlocksStart(reader.held, reader.page) > reader.lowest)
    BY DEF OffersMore, ByCursor
  <2>4. listing \notin CountsFirst => Len(items) # PerPage
    BY DEF OffersMore, CountsFirst
  <2> HIDE DEF off, next
  <2>5. QED
    BY <1>1, <1>3, <2>1, <2>2, <2>3, <2>4
<1>6. listing \in Listings
  BY DEF ListingInv, ListingTypes
<1>7. U \in SUBSET Listed
  BY <1>1
<1> HIDE DEF U, off, next
<1>8. \A row \in U : Rank(Listed, row) \in Nat /\ Rank(Listed, row) <= Cardinality(Listed) - 1
  <2>1. Ranked(Listed)
    BY <1>2, Ranks
  <2>2. QED
    BY <1>2, <1>7, <2>1 DEF Ranked
<1>9. U = {} => Cardinality(U) = 0
  BY FS_EmptySet
<1>10. CASE listing = "blocks_page"
  <2>1. listing \in ByCursor /\ late = 0
    BY <1>10 DEF ByCursor, CountMayBeShort
  <2>2. U = {}
    BY <1>4, <1>5, <1>10, <2>1
  <2>3. QED
    BY <1>9, <2>1, <2>2 DEF U
<1>11. CASE listing \in {"records", "versions"}
  <2>1. listing \in ByHeight /\ listing \in CountsFirst \ (ByCursor \cup {"blocks"}) /\ late = 0
    BY <1>11 DEF ByHeight, CountsFirst, ByCursor, CountMayBeShort
  <2>2. U = {}
    <3>1. ASSUME NEW row \in U PROVE FALSE
      BY <1>1, <1>2, <1>3, <1>4, <1>5, <1>7, <2>1
    <3>2. QED
      BY <3>1
  <2>3. QED
    BY <1>9, <2>1, <2>2 DEF U
<1>12. CASE listing \in CountMayBeShort
  <2>1. listing \notin ByCursor /\ listing \in CountsFirst \ (ByCursor \cup {"blocks"}) /\ late = Cardinality(Listed) - reader.held
    BY <1>12 DEF CountMayBeShort, CountsFirst, ByCursor
  <2> DEFINE B == {x \in Listed : Rank(Listed, x) >= reader.held}
  <2>2. ASSUME NEW row \in U PROVE row \in B
    <3>1. Rank(Listed, row) >= next /\ Rank(Listed, row) \in Nat
      BY <1>4, <1>8, <2>1
    <3>2. Rank(Listed, row) >= reader.held
      BY <1>1, <1>3, <1>5, <2>1, <3>1
    <3>3. QED
      BY <1>7, <3>2
  <2>3. reader.held \in 0..Cardinality(Listed)
    BY <1>1, <1>2, <1>12
  <2>4. IsFiniteSet(B) /\ Cardinality(B) = Cardinality(Listed) - reader.held
    BY <1>2, <2>3, Bottom
  <2> HIDE DEF B
  <2>5. U \in SUBSET B
    BY <2>2
  <2>6. Cardinality(U) <= Cardinality(B)
    BY <2>4, <2>5, FS_Subset
  <2>7. QED
    BY <2>1, <2>4, <2>6 DEF U
<1>13. CASE listing \in {"txs", "address_txs", "address_transfers"}
  <2>1. /\ listing \notin CountsFirst /\ listing \notin ByHeight \cup ByCursor /\ late = 0
    BY <1>13 DEF ByHeight, CountsFirst, ByCursor, CountMayBeShort
  <2>2. SizeOf(Cardinality(Listed), PerPage, off) # PerPage
    BY <1>4, <1>5, <2>1
  <2>3. Cardinality(Listed) < next
    BY <1>2, <1>3, <2>2 DEF SizeOf
  <2>4. U = {}
    <3>1. ASSUME NEW row \in U PROVE FALSE
      BY <1>2, <1>3, <1>4, <1>8, <2>1, <2>3
    <3>2. QED
      BY <3>1
  <2>5. QED
    BY <1>9, <2>1, <2>4 DEF U
<1>14. CASE listing = "blocks"
  <2>1. listing \in ByHeight /\ late = 0
    BY <1>14 DEF ByHeight, CountMayBeShort
  <2>2. \A row \in U : reader.lowest <= row
    BY <1>14 DEF ListingInv, LeftOK, U
  <2>3. ASSUME NEW row \in U PROVE FALSE
    <3>1. row \in Nat /\ 1 <= row /\ row + next <= reader.held
      BY <1>2, <1>4, <1>7, <2>1, <2>3
    <3>2. BlocksEnd(reader.held, reader.page) = reader.held - off
      BY <1>1, <1>3, <3>1 DEF BlocksEnd, off
    <3>3. BlocksStart(reader.held, reader.page) > row /\ BlocksStart(reader.held, reader.page) \in Nat
      BY <1>1, <1>3, <3>1, <3>2 DEF BlocksStart
    <3>4. reader.lowest \in Nat /\ reader.lowest <= row
      BY <2>2, <2>3, ReadyFacts DEF Reading
    <3>5. QED
      BY <1>5, <1>14, <3>1, <3>3, <3>4
  <2>4. U = {}
    BY <2>3
  <2>5. QED
    BY <1>9, <2>1, <2>4 DEF U
<1>15. QED
  BY <1>6, <1>10, <1>11, <1>12, <1>13, <1>14 DEF Listings, CountsAfter, CountMayBeShort

\* A page is read, and the next asked for, or there is none.
LEMMA ReadStep == ASSUME ListingInv, Read PROVE ListingInv'
<1> DEFINE items == ItemsOf(reader.page, reader.held)
           late == IF listing \in CountMayBeShort THEN Cardinality(Listed) - reader.held ELSE 0
           r == With(items, late)
<1>1. ListingTypes /\ reader.pc = "read" /\ UNCHANGED <<lo, hi, role, counted, listing>>
  BY DEF ListingInv, Read
<1>2. Leaves(items)
  BY <1>1, ItemsLeave
<1>3. late \in Nat
  <2>1. Cardinality(Listed) \in Nat
    BY <1>1, ListedFacts
  <2>2. reader.held \in Nat /\ (listing \in CountMayBeShort => reader.held <= Cardinality(Listed))
    BY <1>1, ReadyFacts
  <2>3. QED
    BY <2>1, <2>2
<1>4. reader \in Reading /\ reader.page \in Nat \ {0}
  BY <1>1, ReadyFacts
<1>5. reader' = IF listing \in CountsAfter THEN [r EXCEPT !.pc = "after"] ELSE Shown(r, OffersMore(items))
  BY DEF Read, With
<1>6. /\ r \in Reading /\ ReadOK(r) /\ r.was \ r.seen = Left \ ToSet(items)
      /\ r.items = items /\ r.late = late
  BY <1>1, <1>2, <1>3, PageRead
<1>7. late = IF listing \in CountMayBeShort THEN Cardinality(Listed) - reader.held ELSE 0
  OBVIOUS
<1>8. OffersMore(items) \in BOOLEAN
  <2>1. CASE listing = "blocks_page"
    BY <2>1 DEF OffersMore, ByCursor
  <2>2. CASE listing \in CountsFirst \ (ByCursor \cup {"blocks"})
    <3>1. OffersMore(items) = RunsPast(reader.held, reader.page)
      BY <2>2 DEF OffersMore, ByCursor
    <3>2. QED
      BY <3>1 DEF RunsPast
  <2>3. CASE listing # "blocks_page" /\ listing # "blocks" /\ listing \notin CountsFirst \ ByCursor
    BY <2>3 DEF OffersMore
  <2>4. CASE listing = "blocks"
    BY <2>4 DEF OffersMore, ByCursor
  <2>5. QED
    BY <2>1, <2>2, <2>3, <2>4
<1> HIDE DEF items, late, r
<1>9. CASE listing \in CountsAfter
  <2>1. reader' = [r EXCEPT !.pc = "after"]
    BY <1>5, <1>9
  <2>2. /\ reader' \in Reading /\ reader'.pc = "after" /\ reader'.was = r.was /\ reader'.seen = r.seen
        /\ reader'.page = r.page /\ reader'.held = r.held /\ reader'.items = r.items
    BY <1>6, <2>1 DEF Reading
  <2>3. /\ ListingTypes' /\ Listed' = Listed /\ listing' = listing /\ hi' = hi /\ ByCursor' = ByCursor
        /\ ByHeight' = ByHeight /\ CountsAfter' = CountsAfter
    BY <1>1 DEF ListingTypes, Listed, OfAddress, OfContract, ByCursor, ByHeight, CountsAfter
  <2>4. ReaderTypes' /\ HeldOK'
    BY <1>6, <1>9, <2>2, <2>3 DEF ReaderTypes, HeldOK, ReadOK
  <2>5. Left' = r.was \ r.seen /\ Through' = PageOffset(r.page + 1)
    BY <2>2 DEF Left, Through
  <2>6. LeftOK'
    BY <1>6, <2>2, <2>3, <2>5 DEF LeftOK, ReadOK, Rank
  <2>7. MissesOnlyTheLate'
    BY <2>2 DEF MissesOnlyTheLate
  <2>8. QED
    BY <2>3, <2>4, <2>6, <2>7 DEF ListingInv
<1>10. CASE listing \notin CountsAfter
  <2>1. reader' = Shown(r, OffersMore(items))
    BY <1>5, <1>10
  <2>2. OffersMore(items) /\ listing \in ByCursor => r.items # <<>>
    BY <1>6, <1>10 DEF OffersMore, ByCursor, CountsAfter
  <2>3. ~OffersMore(items) => Cardinality(r.was \ r.seen) <= r.late
    BY <1>1, <1>2, <1>6, <1>7, <1>10, LastPage
  <2>4. QED
    BY <1>1, <1>6, <1>8, <2>1, <2>2, <2>3, Shows
<1>11. QED
  BY <1>9, <1>10

\* A count is taken after the rows.
LEMMA CountAfterStep == ASSUME ListingInv, CountAfter PROVE ListingInv'
<1> DEFINE more == IF listing = "block_page" THEN HasPrevious
                   ELSE RunsPast(Cardinality(Listed), reader.page)
           next == PageOffset(reader.page + 1)
<1>1. /\ ListingTypes /\ ReaderTypes /\ HeldOK /\ LeftOK /\ reader.pc = "after"
      /\ UNCHANGED <<lo, hi, role, counted, listing>>
  BY DEF ListingInv, CountAfter
<1>2. /\ reader \in Reading /\ reader.was \subseteq Listed /\ reader.seen \subseteq Listed
      /\ reader.page \in Nat \ {0} /\ reader.held \in Nat
  BY <1>1 DEF ReaderTypes, Reading
<1>3. listing \in CountsAfter
  BY <1>1 DEF HeldOK
<1>4. Through = next /\ Left = reader.was \ reader.seen
  BY <1>1 DEF Through, Left
<1>5. ReadOK(reader)
  BY <1>1, <1>2, <1>4 DEF ReadOK, LeftOK, HeldOK
<1>6. /\ lo \in Nat /\ hi \in Nat /\ 1 <= lo /\ Listed \in SUBSET Nat /\ IsFiniteSet(Listed)
      /\ Cardinality(Listed) \in Nat
  BY <1>1, ListedFacts DEF ListingTypes
<1>7. PerPage \in Nat \ {0} /\ PageOffset(reader.page) \in Nat /\ next = PageOffset(reader.page) + PerPage
      /\ reader.page * PerPage = next
  BY <1>2, Offsets
<1>8. more \in BOOLEAN /\ reader' = Shown(reader, more)
  <2>1. reader' = Shown(reader, more)
    BY DEF CountAfter
  <2>2. more \in BOOLEAN
    <3>1. CASE listing = "block_page"
      BY <3>1 DEF HasPrevious
    <3>2. CASE listing # "block_page"
      <4>1. more = RunsPast(Cardinality(Listed), reader.page)
        BY <3>2
      <4> HIDE DEF more
      <4>2. QED
        BY <4>1 DEF RunsPast
    <3>3. QED
      BY <3>1, <3>2
  <2>3. QED
    BY <2>1, <2>2
<1>9. more /\ listing \in ByCursor => reader.items # <<>>
  BY <1>3 DEF HasPrevious, ByCursor, CountsAfter
<1>10. ASSUME ~more, NEW row \in Left PROVE FALSE
  <2>1. row \in Listed
    BY <1>2, <1>4
  <2>2. CASE listing = "block_page"
    <3>1. Listed = lo..hi
      BY <1>1, <2>2, ListedFacts DEF OfAddress
    <3>2. row \in lo..hi
      BY <2>1, <3>1
    <3>3. reader.items # <<>> /\ row < Last(reader.items) /\ Last(reader.items) \in 1..hi
      BY <1>1, <2>2 DEF LeftOK, ByCursor
    <3>4. ~HasPrevious
      BY <1>10, <2>2
    <3>5. Last(reader.items) - 1 \notin lo..hi
      BY <3>3, <3>4 DEF HasPrevious
    <3>6. QED
      BY <1>6, <3>2, <3>3, <3>5
  <2>3. CASE listing = "token_page"
    <3>1. Rank(Listed, row) >= next
      BY <1>1, <1>4, <2>3 DEF LeftOK, ByCursor
    <3>2. ~(next < Cardinality(Listed))
      BY <1>7, <1>10, <2>3 DEF RunsPast
    <3>3. Ranked(Listed)
      BY <1>6, Ranks
    <3>4. Rank(Listed, row) \in 0..(Cardinality(Listed) - 1)
      BY <2>1, <3>3 DEF Ranked
    <3> HIDE DEF next
    <3>5. QED
      BY <1>6, <1>7, <3>1, <3>2, <3>4
  <2>4. QED
    BY <1>3, <2>2, <2>3 DEF CountsAfter
<1> HIDE DEF more
<1>11. ~more => Cardinality(reader.was \ reader.seen) <= reader.late
  BY <1>2, <1>4, <1>10, NoneLeft
<1>12. QED
  BY <1>1, <1>5, <1>8, <1>9, <1>11, Shows

\* Stuttering.
LEMMA SameListing == ListingInv /\ UNCHANGED listingVars => ListingInv'
<1> SUFFICES ASSUME ListingInv, UNCHANGED listingVars PROVE ListingInv'
  OBVIOUS
<1>1. UNCHANGED <<lo, hi, role, counted, listing, reader>>
  BY DEF listingVars
<1>2. Listed' = Listed /\ OfContract' = OfContract
  BY <1>1 DEF Listed, OfAddress, OfContract
<1>3. ListingTypes /\ hi \in Nat
  BY DEF ListingInv, ListingTypes
<1>4. ListingTypes'
  BY <1>1, <1>2, <1>3 DEF ListingTypes
<1>5. QED
  BY <1>1, <1>2, <1>3, <1>4, Grows

\* ListingInv holds throughout: whatever the indexer writes, at either end,
\* between the requests of a reader and between the reads of one request.
THEOREM ListingInvariant == ListingSpec => []ListingInv
<1>1. ListingInv /\ [ListingNext]_listingVars => ListingInv'
  BY NewerStep, OlderStep, RecountStep, OpenStep, CountStep, LowestStep, ReadStep, CountAfterStep, SameListing
     DEF ListingNext
<1>2. QED
  BY <1>1, InitListing, PTL DEF ListingSpec

\* What is left is below what is read, so none of it was passed.
LEMMA NotPassedOver == ListingInv => NothingPassedOver
<1> SUFFICES ASSUME ListingInv, reader.pc # "idle", NEW row \in reader.was, NEW read \in reader.seen, read < row
             PROVE  row \in reader.seen
  BY DEF NothingPassedOver
<1>1. reader.was \in SUBSET Nat /\ reader.seen \in SUBSET Nat
  BY DEF ListingInv, ReaderTypes, Reading
<1>2. CASE row \in Left
  <2>1. row < read
    BY <1>2 DEF ListingInv, LeftOK
  <2>2. QED
    BY <1>1, <2>1
<1>3. QED
  BY <1>2 DEF Left

\* A reader going from page to page never gets past a row that was on record
\* when it began (db.rs get_transactions, get_address_transactions,
\* get_blocks_in_range; web/api.rs next_of; anchoring.rs newest_first): rows
\* coming in push what is left further back, never forward past the reader.
THEOREM NoRowPassedOver == ListingSpec => []NothingPassedOver
BY ListingInvariant, NotPassedOver, PTL

\* A reader that goes on until no page is offered misses only as many of those
\* rows as came in late, between the count and the read of one request.
THEOREM OnlyTheLateMissed == ListingSpec => []MissesOnlyTheLate
<1>1. ListingInv => MissesOnlyTheLate
  BY DEF ListingInv
<1>2. QED
  BY <1>1, ListingInvariant, PTL

\* A page of an address's rows comes of a read alone.
LEMMA AddressPage ==
  ASSUME ListingInv, [ListingNext]_listingVars, reader.pc = "read", reader' # reader, OfAddress
  PROVE  reader'.items = Page(Listed, reader.page)
<1>1. Read
  BY DEF ListingNext, listingVars, IndexNewer, IndexOlder, Recount, Open, Count, Lowest, CountAfter
<1>2. ListingTypes /\ reader \in Reading /\ reader.page \in Nat \ {0}
  BY ReadyFacts DEF ListingInv
<1> DEFINE items == ItemsOf(reader.page, reader.held)
<1>3. items = Page(Listed, reader.page)
  <2>1. MergedWalks(reader.page) = Page(Listed, reader.page)
    BY <1>2, MergedIsPage
  <2>2. QED
    BY <2>1 DEF ItemsOf, AddressTransfers, OfAddress
<1>4. PICK late : reader' = Shown(With(items, late), OffersMore(items))
  BY <1>1 DEF Read, With, OfAddress, CountsAfter
<1>5. With(items, late).items = items /\ listing \notin ByCursor
  BY <1>2 DEF With, Reading, ByCursor, OfAddress
<1> HIDE DEF items
<1>6. reader'.items = items
  BY <1>2, <1>4, <1>5 DEF Shown, With, Reading
<1>7. QED
  BY <1>3, <1>6

\* A page merged of two walks, each cut at the page's end, is the page of all
\* the rows of the address (db.rs get_address_transactions,
\* get_address_transfers): no row of either walk belongs on it and was cut.
THEOREM AddressPagesAreSlices == ListingSpec => PagesAreSlices
<1>1. ListingInv /\ [ListingNext]_listingVars =>
         [(reader.pc = "read" /\ reader' # reader /\ OfAddress) =>
            reader'.items = Page(Listed, reader.page)]_listingVars
  BY AddressPage
<1>2. QED
  BY <1>1, ListingInvariant, PTL DEF ListingSpec, PagesAreSlices

-----------------------------------------------------------------------------
(* Lists.                                                                  *)

\* A sequence, whatever of.
IsList(s) == s \in Seq(ToSet(s))

\* A function of 1..n is a list of n.
LEMMA ListOf ==
  ASSUME NEW n \in Nat, NEW s, s = [k \in 1..n |-> s[k]]
  PROVE  IsList(s) /\ Len(s) = n
<1>1. DOMAIN s = 1..n
  OBVIOUS
<1>2. s \in [1..n -> ToSet(s)]
  BY <1>1 DEF ToSet
<1>3. QED
  BY <1>2, SequenceOf DEF IsList

\* A list's places and what stands there.
LEMMA ListFacts ==
  ASSUME NEW s, IsList(s)
  PROVE  Len(s) \in Nat /\ DOMAIN s = 1..Len(s) /\ \A k \in 1..Len(s) : s[k] \in ToSet(s)
BY DEF IsList, ToSet

\* A sequence over any set is a list.
LEMMA ListIn ==
  ASSUME NEW T, NEW s \in Seq(T)
  PROVE  IsList(s)
<1>1. Len(s) \in Nat /\ s = [k \in 1..Len(s) |-> s[k]]
  OBVIOUS
<1>2. QED
  BY <1>1, ListOf

\* A joined list has the first's entries, then the second's.
LEMMA Joined ==
  ASSUME NEW s, NEW t, IsList(s), IsList(t)
  PROVE  /\ IsList(s \o t) /\ Len(s \o t) = Len(s) + Len(t)
         /\ \A k \in 1..Len(s) : (s \o t)[k] = s[k]
         /\ \A k \in (Len(s) + 1)..(Len(s) + Len(t)) : (s \o t)[k] = t[k - Len(s)]
<1> DEFINE T == ToSet(s) \cup ToSet(t)
<1>1. Len(s) \in Nat /\ Len(t) \in Nat /\ DOMAIN s = 1..Len(s) /\ DOMAIN t = 1..Len(t)
  BY ListFacts
<1>2. s \in Seq(T)
  <2>1. s \in [1..Len(s) -> T]
    BY ListFacts DEF IsList
  <2>2. QED
    BY <1>1, <2>1, SequenceOf
<1>3. t \in Seq(T)
  <2>1. t \in [1..Len(t) -> T]
    BY ListFacts DEF IsList
  <2>2. QED
    BY <1>1, <2>1, SequenceOf
<1> HIDE DEF T
<1>4. /\ s \o t \in Seq(T) /\ Len(s \o t) = Len(s) + Len(t)
      /\ \A k \in 1..(Len(s) + Len(t)) : (s \o t)[k] = IF k <= Len(s) THEN s[k] ELSE t[k - Len(s)]
  BY <1>2, <1>3
<1>5. IsList(s \o t)
  BY <1>4, ListIn
<1>6. \A k \in 1..Len(s) : (s \o t)[k] = s[k]
  BY <1>1, <1>4
<1>7. \A k \in (Len(s) + 1)..(Len(s) + Len(t)) : (s \o t)[k] = t[k - Len(s)]
  BY <1>1, <1>4
<1>8. QED
  BY <1>4, <1>5, <1>6, <1>7

\* A cut list has the entries it had.
LEMMA Cut ==
  ASSUME NEW s, IsList(s), NEW n \in Nat
  PROVE  /\ IsList(FirstOf(s, n)) /\ Len(FirstOf(s, n)) <= Len(s)
         /\ \A k \in 1..Len(FirstOf(s, n)) : k \in 1..Len(s) /\ FirstOf(s, n)[k] = s[k]
<1> DEFINE m == IF Len(s) < n THEN Len(s) ELSE n
<1>1. Len(s) \in Nat /\ m \in Nat /\ m <= Len(s) /\ s \in Seq(ToSet(s))
  BY ListFacts DEF IsList
<1>2. FirstOf(s, n) = SubSeq(s, 1, m)
  BY DEF FirstOf
<1> HIDE DEF m
<1>3. SubSeq(s, 1, m) = [k \in 1..m |-> s[k]]
  BY <1>1
<1>4. IsList(FirstOf(s, n)) /\ Len(FirstOf(s, n)) = m /\ \A k \in 1..m : FirstOf(s, n)[k] = s[k]
  <2>1. FirstOf(s, n) = [k \in 1..m |-> FirstOf(s, n)[k]]
    BY <1>2, <1>3
  <2>2. QED
    BY <1>1, <1>2, <1>3, <2>1, ListOf
<1>5. QED
  BY <1>1, <1>4

\* What is sorted stands in the order.
LEMMA InTheOrder ==
  ASSUME NEW S, IsFiniteSet(S), NEW before, IsOrder(S, before)
  PROVE  /\ IsList(InOrder(S, before)) /\ ToSet(InOrder(S, before)) = S
         /\ \A k \in 1..Len(InOrder(S, before)) : InOrder(S, before)[k] \in S
         /\ \A j, k \in 1..Len(InOrder(S, before)) : j < k =>
               /\ InOrder(S, before)[j] # InOrder(S, before)[k]
               /\ <<InOrder(S, before)[j], InOrder(S, before)[k]>> \in before
<1> DEFINE s == InOrder(S, before)
           n == Cardinality(S)
           place(x) == PlaceOf(S, before, x)
<1>1. n \in Nat /\ Placed(S, before)
  BY Places
<1>2. /\ s \in Seq(S) /\ Len(s) = n
      /\ \A k \in 1..n : s[k] \in S /\ place(s[k]) = k - 1
      /\ \A x \in S : s[place(x) + 1] = x
  BY Sorted
<1>3. /\ \A x \in S : place(x) \in 0..(n - 1)
      /\ \A x, y \in S : <<x, y>> \in before => place(x) < place(y)
  BY <1>1 DEF Placed
<1> HIDE DEF s, n, place
<1>4. IsList(s) /\ DOMAIN s = 1..n
  BY <1>2, ListIn
<1>5. ToSet(s) = S
  <2>1. ASSUME NEW x \in S PROVE x \in ToSet(s)
    <3>1. place(x) + 1 \in 1..n /\ s[place(x) + 1] = x
      BY <1>1, <1>2, <1>3
    <3>2. QED
      BY <1>4, <3>1 DEF ToSet
  <2>2. ASSUME NEW x \in ToSet(s) PROVE x \in S
    <3>1. PICK k \in 1..n : x = s[k]
      BY <1>4, <2>2 DEF ToSet
    <3>2. QED
      BY <1>2, <3>1
  <2>3. QED
    BY <2>1, <2>2
<1>6. ASSUME NEW j \in 1..n, NEW k \in 1..n, j < k
      PROVE  s[j] # s[k] /\ <<s[j], s[k]>> \in before
  <2>1. s[j] \in S /\ s[k] \in S /\ place(s[j]) = j - 1 /\ place(s[k]) = k - 1
    BY <1>2
  <2>2. s[j] # s[k]
    BY <1>1, <1>6, <2>1
  <2>3. <<s[j], s[k]>> \in before \/ <<s[k], s[j]>> \in before
    BY <2>1, <2>2 DEF IsOrder
  <2>4. ~(<<s[k], s[j]>> \in before)
    <3>1. ~(place(s[k]) < place(s[j]))
      BY <1>1, <1>6, <2>1
    <3>2. QED
      BY <1>3, <2>1, <3>1
  <2>5. QED
    BY <2>2, <2>3, <2>4
<1>7. QED
  BY <1>2, <1>4, <1>5, <1>6 DEF s

-----------------------------------------------------------------------------
(* What is found by name.                                                  *)

Registry(hit) == hit[1] = "registry"

\* A list of which no registry stands twice, or before one that answers better,
\* and all that stand in it there are.
Good(list) ==
    /\ IsList(list)
    /\ \A i \in 1..Len(list) : Registry(list[i]) => list[i][2] \in Registries
    /\ \A i, j \in 1..Len(list) :
          i < j /\ Registry(list[i]) /\ Registry(list[j]) =>
             list[i] # list[j] /\ RegistryTier(list[i][2]) <= RegistryTier(list[j][2])

\* One without registries.
Other(list) == IsList(list) /\ \A i \in 1..Len(list) : ~Registry(list[i])

\* Without registries there is nothing to say of them.
LEMMA OtherIsGood == ASSUME NEW list, Other(list) PROVE Good(list)
BY DEF Other, Good

\* A list without registries may follow a good one.
LEMMA GoodBefore ==
  ASSUME NEW s, NEW t, Good(s), Other(t)
  PROVE  Good(s \o t)
<1> DEFINE u == s \o t
<1>1. IsList(s) /\ IsList(t)
  BY DEF Good, Other
<1>2. Len(s) \in Nat /\ Len(t) \in Nat
  BY <1>1, ListFacts
<1>3. /\ IsList(u) /\ Len(u) = Len(s) + Len(t)
      /\ \A k \in 1..Len(s) : u[k] = s[k]
      /\ \A k \in (Len(s) + 1)..(Len(s) + Len(t)) : u[k] = t[k - Len(s)]
  BY <1>1, Joined
<1> HIDE DEF u
<1>4. ASSUME NEW i \in 1..Len(u), Registry(u[i])
      PROVE  i \in 1..Len(s) /\ u[i] = s[i]
  <2>1. i \in 1..Len(s) \/ (i \in (Len(s) + 1)..(Len(s) + Len(t)) /\ i - Len(s) \in 1..Len(t))
    BY <1>2, <1>3
  <2>2. QED
    BY <1>3, <1>4, <2>1 DEF Other
<1>5. QED
  BY <1>3, <1>4 DEF Good, u

\* A list without registries may precede a good one.
LEMMA GoodAfter ==
  ASSUME NEW s, NEW t, Other(s), Good(t)
  PROVE  Good(s \o t)
<1> DEFINE u == s \o t
<1>1. IsList(s) /\ IsList(t)
  BY DEF Good, Other
<1>2. Len(s) \in Nat /\ Len(t) \in Nat
  BY <1>1, ListFacts
<1>3. /\ IsList(u) /\ Len(u) = Len(s) + Len(t)
      /\ \A k \in 1..Len(s) : u[k] = s[k]
      /\ \A k \in (Len(s) + 1)..(Len(s) + Len(t)) : u[k] = t[k - Len(s)]
  BY <1>1, Joined
<1> HIDE DEF u
<1>4. ASSUME NEW i \in 1..Len(u), Registry(u[i])
      PROVE  i - Len(s) \in 1..Len(t) /\ u[i] = t[i - Len(s)] /\ i \in Nat
  <2>1. i \in 1..Len(s) \/ (i \in (Len(s) + 1)..(Len(s) + Len(t)) /\ i - Len(s) \in 1..Len(t))
    BY <1>2, <1>3
  <2>2. QED
    BY <1>3, <1>4, <2>1 DEF Other
<1>5. \A i \in 1..Len(u) : Registry(u[i]) => u[i][2] \in Registries
  BY <1>4 DEF Good
<1>6. ASSUME NEW i \in 1..Len(u), NEW j \in 1..Len(u), i < j, Registry(u[i]), Registry(u[j])
      PROVE  u[i] # u[j] /\ RegistryTier(u[i][2]) <= RegistryTier(u[j][2])
  <2>1. i - Len(s) \in 1..Len(t) /\ u[i] = t[i - Len(s)] /\ j - Len(s) \in 1..Len(t) /\ u[j] = t[j - Len(s)]
    BY <1>4, <1>6
  <2>2. i - Len(s) < j - Len(s)
    BY <1>2, <1>6
  <2>3. QED
    BY <1>6, <2>1, <2>2 DEF Good
<1>7. QED
  BY <1>3, <1>5, <1>6 DEF Good, u

\* A good list cut short is good.
LEMMA GoodCut ==
  ASSUME NEW s, Good(s), NEW n \in Nat
  PROVE  Good(FirstOf(s, n))
<1> DEFINE u == FirstOf(s, n)
<1>1. IsList(s)
  BY DEF Good
<1>2. IsList(u) /\ \A k \in 1..Len(u) : k \in 1..Len(s) /\ u[k] = s[k]
  BY <1>1, Cut
<1> HIDE DEF u
<1>3. QED
  BY <1>2 DEF Good, u

\* Lists without registries join to one.
LEMMA OtherJoined ==
  ASSUME NEW s, NEW t, Other(s), Other(t)
  PROVE  Other(s \o t)
<1> DEFINE u == s \o t
<1>1. IsList(s) /\ IsList(t)
  BY DEF Other
<1>2. Len(s) \in Nat /\ Len(t) \in Nat
  BY <1>1, ListFacts
<1>3. /\ IsList(u) /\ Len(u) = Len(s) + Len(t)
      /\ \A k \in 1..Len(s) : u[k] = s[k]
      /\ \A k \in (Len(s) + 1)..(Len(s) + Len(t)) : u[k] = t[k - Len(s)]
  BY <1>1, Joined
<1> HIDE DEF u
<1>4. ASSUME NEW i \in 1..Len(u)
      PROVE  ~Registry(u[i])
  <2>1. i \in 1..Len(s) \/ (i \in (Len(s) + 1)..(Len(s) + Len(t)) /\ i - Len(s) \in 1..Len(t))
    BY <1>2, <1>3
  <2>2. QED
    BY <1>3, <2>1 DEF Other
<1>5. QED
  BY <1>3, <1>4 DEF Other, u

CatalogOK ==
    catalog \in [tokens : [Tokens -> TokenRows], registries : Seq(Matches),
                 records : Nat, names : Seq(Matches)]

\* Registries are numbered from 1, and have a tier.
LEMMA CatalogFacts ==
  ASSUME CatalogOK
  PROVE  /\ catalog.registries \in Seq(Matches) /\ Len(catalog.registries) \in Nat
         /\ Registries = 1..Len(catalog.registries) /\ IsFiniteSet(Registries)
         /\ catalog.records \in Nat
         /\ catalog.names \in Seq(Matches) /\ IsFiniteSet(DOMAIN catalog.names)
         /\ \A id \in Registries : id \in Nat /\ RegistryTier(id) \in 0..2
<1>1. /\ catalog.registries \in Seq(Matches) /\ catalog.records \in Nat /\ catalog.names \in Seq(Matches)
  BY DEF CatalogOK
<1>2. /\ Registries = 1..Len(catalog.registries) /\ Len(catalog.registries) \in Nat
      /\ DOMAIN catalog.names = 1..Len(catalog.names) /\ Len(catalog.names) \in Nat
  BY <1>1 DEF Registries
<1>3. IsFiniteSet(Registries) /\ IsFiniteSet(DOMAIN catalog.names)
  BY <1>2, Counted
<1>4. ASSUME NEW id \in Registries PROVE id \in Nat /\ RegistryTier(id) \in 0..2
  BY <1>2 DEF RegistryTier
<1>5. QED
  BY <1>1, <1>2, <1>3, <1>4

\* What is sorted is a list, whatever the order.
LEMMA SortedList == ASSUME NEW S, IsFiniteSet(S), NEW before PROVE IsList(InOrder(S, before))
<1>1. Cardinality(S) \in Nat
  BY FS_CardinalityType
<1>2. InOrder(S, before) = [k \in 1..Cardinality(S) |-> InOrder(S, before)[k]]
  BY <1>1 DEF InOrder
<1>3. QED
  BY <1>1, <1>2, ListOf

\* Each id as a hit of its kind.
LEMMA EachFacts ==
  ASSUME NEW kind, NEW ids, IsList(ids)
  PROVE  /\ IsList(Each(kind, ids)) /\ Len(Each(kind, ids)) = Len(ids)
         /\ \A k \in 1..Len(ids) : Each(kind, ids)[k] = <<kind, ids[k]>>
<1>1. Len(ids) \in Nat /\ DOMAIN ids = 1..Len(ids)
  BY ListFacts
<1>2. Each(kind, ids) = [k \in 1..Len(ids) |-> <<kind, ids[k]>>]
  BY <1>1 DEF Each
<1>3. Each(kind, ids) = [k \in 1..Len(ids) |-> Each(kind, ids)[k]]
  BY <1>2
<1>4. IsList(Each(kind, ids)) /\ Len(Each(kind, ids)) = Len(ids)
  BY <1>1, <1>3, ListOf
<1>5. QED
  BY <1>2, <1>4

\* Hits of another kind are no registries.
LEMMA EachOther ==
  ASSUME NEW kind, kind # "registry", NEW ids, IsList(ids)
  PROVE  Other(Each(kind, ids))
BY EachFacts DEF Other, Registry

\* The empty list.
LEMMA Nothing == Other(<<>>) /\ IsList(<<>>)
<1>1. <<>> \in Seq(Nat) /\ Len(<<>>) = 0
  OBVIOUS
<1>2. IsList(<<>>)
  BY <1>1, ListIn
<1>3. \A i \in 1..Len(<<>>) : FALSE
  BY <1>1
<1>4. QED
  BY <1>2, <1>3 DEF Other

\* A hit of another kind, or none.
LEMMA IfOther ==
  ASSUME NEW holds, NEW kind, kind # "registry"
  PROVE  Other(If(holds, kind))
<1>1. Other(<<<<kind, 0>>>>)
  <2> DEFINE s == <<<<kind, 0>>>>
  <2>1. s \in Seq({<<kind, 0>>}) /\ Len(s) = 1 /\ s[1] = <<kind, 0>>
    OBVIOUS
  <2>2. IsList(s)
    BY <2>1, ListIn
  <2> HIDE DEF s
  <2>3. Other(s)
    BY <2>1, <2>2 DEF Other, Registry
  <2>4. QED
    BY <2>3 DEF s
<1>2. QED
  BY <1>1, Nothing DEF If

\* What asks the index alone finds no registries.
LEMMA FoundByName ==
  ASSUME CatalogOK, NEW limit \in Nat
  PROVE  /\ IsList(SearchTokens(limit)) /\ IsList(TokenBySymbolOrName) /\ IsList(SearchNamed(limit))
<1>1. IsFiniteSet(Tokens) /\ IsFiniteSet(DOMAIN catalog.names)
  BY CatalogFacts, SearchAssumption
<1>2. ASSUME NEW S, IsFiniteSet(S), NEW before, NEW n \in Nat PROVE IsList(FirstOf(InOrder(S, before), n))
  BY <1>2, SortedList, Cut
<1>3. IsList(SearchTokens(limit))
  <2> DEFINE S == {t \in Tokens : {Row(t).symbol, Row(t).name} # {"none"}}
             R == {p \in S \X S : BetterToken(p[1], p[2])}
  <2>1. IsFiniteSet(S)
    BY <1>1, FS_Subset
  <2>2. SearchTokens(limit) = IF query.short THEN <<>> ELSE FirstOf(InOrder(S, R), limit)
    BY DEF SearchTokens
  <2> HIDE DEF S, R
  <2>3. QED
    BY <1>2, <2>1, <2>2, Nothing
<1>4. IsList(TokenBySymbolOrName)
  <2> DEFINE S == {t \in Tokens : "exact" \in {Row(t).symbol, Row(t).name}}
             better(s, t) == \/ Row(s).holders > Row(t).holders
                             \/ Row(s).holders = Row(t).holders /\ s < t
             R == {p \in S \X S : better(p[1], p[2])}
  <2>1. IsFiniteSet(S)
    BY <1>1, FS_Subset
  <2>2. TokenBySymbolOrName = FirstOf(InOrder(S, R), 1)
    BY DEF TokenBySymbolOrName
  <2> HIDE DEF S, R
  <2>3. QED
    BY <1>2, <2>1, <2>2
<1>5. IsList(SearchNamed(limit))
  <2> DEFINE S == {n \in DOMAIN catalog.names : catalog.names[n] # "none"}
             tier(n) == CASE catalog.names[n] \in Whole -> 0
                          [] catalog.names[n] = "prefix" -> 1
                          [] OTHER -> 2
             better(m, n) == tier(m) < tier(n) \/ (tier(m) = tier(n) /\ m < n)
             R == {p \in S \X S : better(p[1], p[2])}
  <2>1. IsFiniteSet(S)
    BY <1>1, FS_Subset
  <2>2. SearchNamed(limit) = IF query.short THEN <<>> ELSE FirstOf(InOrder(S, R), limit)
    BY DEF SearchNamed
  <2> HIDE DEF S, R
  <2>3. QED
    BY <1>2, <2>1, <2>2, Nothing
<1>6. QED
  BY <1>3, <1>4, <1>5

Beside(ids) == {p \in ids \X ids : BetterRegistry(p[1], p[2])}

\* rank orders registries: by tier, equals by id.
LEMMA RanksOrder ==
  ASSUME CatalogOK, NEW ids \in SUBSET Registries
  PROVE  IsFiniteSet(ids) /\ IsOrder(ids, Beside(ids)) /\ Ranking(ids) = InOrder(ids, Beside(ids))
<1>1. IsFiniteSet(Registries) /\ \A id \in ids : id \in Nat /\ RegistryTier(id) \in 0..2
  BY CatalogFacts
<1>2. IsFiniteSet(ids)
  BY <1>1, FS_Subset
<1>3. \A a, b \in ids : <<a, b>> \in Beside(ids) <=>
         RegistryTier(a) < RegistryTier(b) \/ (RegistryTier(a) = RegistryTier(b) /\ a < b)
  BY DEF Beside, BetterRegistry
<1>4. IsOrder(ids, Beside(ids))
  <2>1. \A a, b \in ids : a # b => <<a, b>> \in Beside(ids) \/ <<b, a>> \in Beside(ids)
    BY <1>1, <1>3
  <2>2. \A a \in ids : <<a, a>> \notin Beside(ids)
    BY <1>1, <1>3
  <2>3. ASSUME NEW a \in ids, NEW b \in ids, NEW c \in ids,
               <<a, b>> \in Beside(ids), <<b, c>> \in Beside(ids)
        PROVE  <<a, c>> \in Beside(ids)
    BY <1>1, <1>3, <2>3
  <2>4. QED
    BY <2>1, <2>2, <2>3 DEF IsOrder
<1>5. QED
  BY <1>2, <1>4 DEF Ranking, Beside

\* Ids sorted by id.
LEMMA Rises ==
  ASSUME NEW S \in SUBSET Nat, IsFiniteSet(S)
  PROVE  /\ IsList(Ascending(S)) /\ ToSet(Ascending(S)) = S
         /\ \A k \in 1..Len(Ascending(S)) : Ascending(S)[k] \in S
         /\ \A j, k \in 1..Len(Ascending(S)) : j < k => Ascending(S)[j] # Ascending(S)[k]
<1> DEFINE below == {p \in S \X S : p[1] < p[2]}
           s == InOrder(S, below)
<1>1. \A x, y \in S : <<x, y>> \in below <=> x < y
  OBVIOUS
<1>2. Ascending(S) = s
  BY DEF Ascending
<1> HIDE DEF below
<1>3. IsOrder(S, below)
  <2>1. \A x, y \in S : x \in Nat /\ y \in Nat
    OBVIOUS
  <2>2. QED
    BY <1>1, <2>1 DEF IsOrder
<1>4. /\ IsList(s) /\ ToSet(s) = S
      /\ \A k \in 1..Len(s) : s[k] \in S
      /\ \A j, k \in 1..Len(s) : j < k => s[j] # s[k] /\ <<s[j], s[k]>> \in below
  BY <1>3, InTheOrder
<1> HIDE DEF s
<1>5. QED
  BY <1>2, <1>4

\* What is cut off a list was in it.
LEMMA CutFrom ==
  ASSUME NEW s, IsList(s), NEW n \in Nat
  PROVE  ToSet(FirstOf(s, n)) \in SUBSET ToSet(s)
<1> DEFINE u == FirstOf(s, n)
<1>1. IsList(u) /\ \A k \in 1..Len(u) : k \in 1..Len(s) /\ u[k] = s[k]
  BY Cut
<1> HIDE DEF u
<1>2. DOMAIN u = 1..Len(u) /\ \A k \in 1..Len(s) : s[k] \in ToSet(s)
  BY <1>1, ListFacts
<1>3. \A x \in ToSet(u) : x \in ToSet(s)
  BY <1>1, <1>2 DEF ToSet
<1>4. QED
  BY <1>3 DEF u

\* The name index answers registries there are.
LEMMA MatchingFacts ==
  ASSUME CatalogOK, NEW node, NEW limit \in Nat
  PROVE  ToSet(Matching(node, limit)) \in SUBSET Registries
<1> DEFINE containing == {id \in Registries : catalog.registries[id] # "none"}
           answer == FirstOf(Ascending(containing), limit * Overfetch)
           ids == ToSet(answer)
<1>1. Overfetch \in Nat /\ limit * Overfetch \in Nat
  BY SearchAssumption
<1>2. IsFiniteSet(Registries) /\ Registries \in SUBSET Nat
  BY CatalogFacts
<1>3. containing \in SUBSET Nat /\ IsFiniteSet(containing) /\ containing \in SUBSET Registries
  BY <1>2, FS_Subset
<1>4. Matching(node, limit) = IF "names" \in node THEN FirstOf(Ranking(ids), limit) ELSE <<>>
  BY DEF Matching
<1> HIDE DEF containing
<1>5. IsList(Ascending(containing)) /\ ToSet(Ascending(containing)) = containing
  BY <1>3, Rises
<1>6. ids \in SUBSET Registries
  BY <1>1, <1>3, <1>5, CutFrom
<1> HIDE DEF ids
<1>7. IsList(Ranking(ids)) /\ ToSet(Ranking(ids)) = ids
  BY <1>6, RanksOrder, InTheOrder
<1>8. ToSet(FirstOf(Ranking(ids), limit)) \in SUBSET Registries
  BY <1>6, <1>7, CutFrom
<1>9. ToSet(<<>>) = {}
  BY DEF ToSet
<1>10. QED
  BY <1>4, <1>8, <1>9

\* The registries a search finds: the whole names, then the rest.
LEMMA RegistriesFound ==
  ASSUME CatalogOK, NEW node, NEW limit \in Nat
  PROVE  LET ids == AnchoringSearch(node, limit).registries
         IN /\ IsList(ids)
            /\ \A k \in 1..Len(ids) : ids[k] \in Registries
            /\ \A j, k \in 1..Len(ids) : j < k =>
                  ids[j] # ids[k] /\ RegistryTier(ids[j]) <= RegistryTier(ids[k])
<1> DEFINE E == {id \in Registries : catalog.registries[id] = "exact"}
           F == ToSet(Matching(node, limit)) \ ToSet(Lookup)
           s == Lookup
           t == Ranking(F)
           ids == s \o t
<1>1. AnchoringSearch(node, limit).registries = ids
  BY DEF AnchoringSearch
<1>2. IsFiniteSet(Registries) /\ Registries \in SUBSET Nat
  BY CatalogFacts
<1>3. E \in SUBSET Nat /\ IsFiniteSet(E) /\ E \in SUBSET Registries
  BY <1>2, FS_Subset
<1>4. Lookup = Ascending(E)
  BY DEF Lookup
<1>5. \A id \in E : RegistryTier(id) = 0
  BY DEF RegistryTier, Whole
<1> HIDE DEF E
<1>6. /\ IsList(s) /\ ToSet(s) = E
      /\ \A k \in 1..Len(s) : s[k] \in E
      /\ \A j, k \in 1..Len(s) : j < k => s[j] # s[k]
  BY <1>3, <1>4, Rises
<1>7. F \in SUBSET Registries /\ F \cap E = {}
  BY <1>6, MatchingFacts
<1> HIDE DEF F
<1>8. IsFiniteSet(F) /\ IsOrder(F, Beside(F)) /\ t = InOrder(F, Beside(F))
  BY <1>7, RanksOrder
<1>9. /\ IsList(t)
      /\ \A k \in 1..Len(t) : t[k] \in F
      /\ \A j, k \in 1..Len(t) : j < k => t[j] # t[k] /\ <<t[j], t[k]>> \in Beside(F)
  BY <1>8, InTheOrder
<1> HIDE DEF s, t
<1>10. Len(s) \in Nat /\ Len(t) \in Nat
  BY <1>6, <1>9, ListFacts
<1>11. /\ IsList(ids) /\ Len(ids) = Len(s) + Len(t)
       /\ \A k \in 1..Len(s) : ids[k] = s[k]
       /\ \A k \in (Len(s) + 1)..(Len(s) + Len(t)) : ids[k] = t[k - Len(s)]
  BY <1>6, <1>9, Joined
<1> HIDE DEF ids
<1>12. ASSUME NEW k \in 1..Len(ids)
       PROVE  \/ k \in 1..Len(s) /\ ids[k] = s[k] /\ ids[k] \in E
              \/ k - Len(s) \in 1..Len(t) /\ ids[k] = t[k - Len(s)] /\ ids[k] \in F /\ ~(k <= Len(s))
  <2>1. k \in 1..Len(s) \/ (k \in (Len(s) + 1)..(Len(s) + Len(t)) /\ k - Len(s) \in 1..Len(t) /\ ~(k <= Len(s)))
    BY <1>10, <1>11
  <2>2. QED
    BY <1>6, <1>9, <1>11, <2>1
<1>13. \A k \in 1..Len(ids) : ids[k] \in Registries
  BY <1>3, <1>7, <1>12
<1>14. \A id \in Registries : RegistryTier(id) \in 0..2
  BY CatalogFacts
<1>15. \A a, b \in F : <<a, b>> \in Beside(F) => RegistryTier(a) <= RegistryTier(b)
  BY <1>7, <1>14 DEF Beside, BetterRegistry
<1>16. ASSUME NEW j \in 1..Len(ids), NEW k \in 1..Len(ids), j < k
       PROVE  ids[j] # ids[k] /\ RegistryTier(ids[j]) <= RegistryTier(ids[k])
  <2>1. CASE j \in 1..Len(s) /\ ids[j] = s[j] /\ ids[j] \in E
    <3>1. RegistryTier(ids[j]) = 0 /\ RegistryTier(ids[k]) \in 0..2
      BY <1>5, <1>13, <1>14, <2>1
    <3>2. CASE k \in 1..Len(s) /\ ids[k] = s[k] /\ ids[k] \in E
      BY <1>6, <1>16, <2>1, <3>1, <3>2
    <3>3. CASE ids[k] \in F
      BY <1>7, <2>1, <3>1, <3>3
    <3>4. QED
      BY <1>12, <3>2, <3>3
  <2>2. CASE j - Len(s) \in 1..Len(t) /\ ids[j] = t[j - Len(s)] /\ ids[j] \in F /\ ~(j <= Len(s))
    <3>1. ~(k <= Len(s))
      BY <1>10, <1>16, <2>2
    <3>2. k - Len(s) \in 1..Len(t) /\ ids[k] = t[k - Len(s)] /\ ids[k] \in F
      BY <1>10, <1>12, <3>1
    <3>3. j - Len(s) < k - Len(s)
      BY <1>10, <1>16
    <3>4. ids[j] # ids[k] /\ <<ids[j], ids[k]>> \in Beside(F)
      BY <1>9, <2>2, <3>2, <3>3
    <3>5. QED
      BY <1>15, <2>2, <3>2, <3>4
  <2>3. QED
    BY <1>12, <2>1, <2>2
<1>17. QED
  BY <1>1, <1>11, <1>13, <1>16 DEF ids

-----------------------------------------------------------------------------
(* The lists shown.                                                        *)

\* A list without registries cut short has none.
LEMMA OtherCut ==
  ASSUME NEW s, Other(s), NEW n \in Nat
  PROVE  Other(FirstOf(s, n))
<1> DEFINE u == FirstOf(s, n)
<1>1. IsList(s)
  BY DEF Other
<1>2. IsList(u) /\ \A k \in 1..Len(u) : k \in 1..Len(s) /\ u[k] = s[k]
  BY <1>1, Cut
<1> HIDE DEF u
<1>3. QED
  BY <1>2 DEF Other, u

\* A single hit.
LEMMA Single ==
  ASSUME NEW kind, NEW x
  PROVE  /\ IsList(<<<<kind, x>>>>) /\ Len(<<<<kind, x>>>>) = 1
         /\ <<<<kind, x>>>>[1] = <<kind, x>>
         /\ <<kind, x>> \in ToSet(<<<<kind, x>>>>)
<1> DEFINE s == <<<<kind, x>>>>
<1>1. s \in Seq({<<kind, x>>}) /\ Len(s) = 1 /\ s[1] = <<kind, x>>
  OBVIOUS
<1>2. IsList(s)
  BY <1>1, ListIn
<1> HIDE DEF s
<1>3. s[1] \in ToSet(s)
  <2>1. 1 \in 1..Len(s)
    BY <1>1
  <2>2. QED
    BY <1>2, <2>1, ListFacts
<1>4. <<kind, x>> \in ToSet(s)
  BY <1>1, <1>3
<1>5. QED
  BY <1>1, <1>2, <1>4 DEF s

\* What contract and name index find together is good.
LEMMA HitsGood ==
  ASSUME CatalogOK, NEW node, NEW limit \in Nat
  PROVE  Good(Hits(AnchoringSearch(node, limit)))
<1> DEFINE ids == AnchoringSearch(node, limit).registries
           s == Each("registry", ids)
           t == [n \in 1..catalog.records |-> <<"record", n>>]
<1>1. Hits(AnchoringSearch(node, limit)) = s \o t
  BY DEF Hits, AnchoringSearch
<1>2. /\ IsList(ids)
      /\ \A k \in 1..Len(ids) : ids[k] \in Registries
      /\ \A j, k \in 1..Len(ids) : j < k =>
            ids[j] # ids[k] /\ RegistryTier(ids[j]) <= RegistryTier(ids[k])
  BY RegistriesFound
<1>3. Other(t)
  <2>1. catalog.records \in Nat
    BY CatalogFacts
  <2>2. t = [n \in 1..catalog.records |-> t[n]]
    OBVIOUS
  <2>3. IsList(t) /\ Len(t) = catalog.records
    BY <2>1, <2>2, ListOf
  <2>4. QED
    BY <2>3 DEF Other, Registry
<1> HIDE DEF ids, t
<1>4. IsList(s) /\ Len(s) = Len(ids) /\ \A k \in 1..Len(ids) : s[k] = <<"registry", ids[k]>>
  BY <1>2, EachFacts
<1> HIDE DEF s
<1>5. Good(s)
  <2>1. \A k \in 1..Len(s) : s[k][2] = ids[k] /\ s[k] = <<"registry", ids[k]>>
    BY <1>4
  <2>2. \A k \in 1..Len(s) : s[k][2] \in Registries
    BY <1>2, <1>4, <2>1
  <2>3. ASSUME NEW j \in 1..Len(s), NEW k \in 1..Len(s), j < k
        PROVE  s[j] # s[k] /\ RegistryTier(s[j][2]) <= RegistryTier(s[k][2])
    <3>1. ids[j] # ids[k] /\ RegistryTier(ids[j]) <= RegistryTier(ids[k])
      BY <1>2, <1>4, <2>3
    <3>2. QED
      BY <2>1, <3>1
  <2>4. QED
    BY <1>4, <2>2, <2>3 DEF Good
<1>6. QED
  BY <1>1, <1>3, <1>5, GoodBefore

\* So is what is shown of it.
LEMMA AnchoringHitsGood ==
  ASSUME CatalogOK, NEW node, NEW limit \in Nat
  PROVE  Good(AnchoringHits(node, limit))
<1>1. Good(FirstOf(Hits(AnchoringSearch(node, limit)), limit))
  BY HitsGood, GoodCut
<1>2. Good(<<>>)
  BY Nothing, OtherIsGood
<1>3. QED
  BY <1>1, <1>2 DEF AnchoringHits

\* So is the registry of the number typed.
LEMMA TypedGood ==
  ASSUME TypedId \in Registries
  PROVE  Good(<<<<"registry", TypedId>>>>)
<1> DEFINE s == <<<<"registry", TypedId>>>>
<1>1. IsList(s) /\ Len(s) = 1 /\ s[1] = <<"registry", TypedId>>
  BY Single
<1>2. s[1][2] = TypedId
  BY <1>1
<1> HIDE DEF s
<1>3. \A i \in 1..Len(s) : i = 1
  BY <1>1
<1>4. QED
  <2>1. \A i, j \in 1..Len(s) : ~(i < j)
    BY <1>3
  <2>2. QED
    BY <1>1, <1>2, <1>3, <2>1 DEF Good, s

\* So is what is suggested by name: tokens, then registries, then contracts.
LEMMA NamesGood ==
  ASSUME CatalogOK, NEW node
  PROVE  Good(SuggestName(node))
<1>1. Limit \in Nat
  BY SearchAssumption
<1>2. Other(Each("token", SearchTokens(Limit))) /\ Other(Each("precompile", SearchNamed(Limit)))
  BY <1>1, FoundByName, EachOther
<1>3. Good(AnchoringHits(node, Limit))
  BY <1>1, AnchoringHitsGood
<1>4. Good(Each("token", SearchTokens(Limit)) \o AnchoringHits(node, Limit))
  BY <1>2, <1>3, GoodAfter
<1>5. QED
  BY <1>2, <1>4, GoodBefore DEF SuggestName

\* So is all that is suggested.
LEMMA SuggestedGood ==
  ASSUME CatalogOK, NEW node
  PROVE  Good(SearchSuggest(node)) /\ Good(AnchoringSuggest(node))
<1>1. Limit \in Nat
  BY SearchAssumption
<1>2. Other(<<<<"address", 0>>>>) /\ Other(<<<<"transaction", 0>>>>) /\ Other(<<<<"block", 0>>>>)
  BY Single DEF Other, Registry
<1>3. Good(SearchSuggest(node))
  <2> DEFINE first == If("block" \in indexed /\ query.shape \in {"number", "#number"}, "block")
             rest == CASE query.shape = "address" -> If("token" \in indexed, "token") \o <<<<"address", 0>>>>
                       [] query.shape = "hash" -> SuggestHash
                       [] OTHER -> SuggestName(node)
  <2>1. Other(first)
    BY IfOther
  <2>2. Good(rest)
    <3>1. CASE query.shape = "address"
      <4>1. Other(If("token" \in indexed, "token"))
        BY IfOther
      <4>2. Good(If("token" \in indexed, "token") \o <<<<"address", 0>>>>)
        BY <1>2, <4>1, OtherJoined, OtherIsGood
      <4>3. rest = If("token" \in indexed, "token") \o <<<<"address", 0>>>>
        BY <3>1
      <4>4. QED
        BY <4>2, <4>3
    <3>2. CASE query.shape = "hash"
      <4>1. Good(SuggestHash)
        BY <1>2, OtherIsGood DEF SuggestHash
      <4>2. rest = SuggestHash
        BY <3>2
      <4>3. QED
        BY <4>1, <4>2
    <3>3. CASE query.shape \notin {"address", "hash"}
      <4>1. rest = SuggestName(node)
        BY <3>3
      <4>2. QED
        BY <4>1, NamesGood
    <3>4. QED
      BY <3>1, <3>2, <3>3
  <2>3. SearchSuggest(node) = FirstOf(first \o rest, Limit)
    BY DEF SearchSuggest
  <2> HIDE DEF first, rest
  <2>4. QED
    BY <1>1, <2>1, <2>2, <2>3, GoodAfter, GoodCut
<1>4. Good(AnchoringSuggest(node))
  <2>1. Good(AnchoringHits(node, Limit)) /\ Good(<<>>)
    BY <1>1, AnchoringHitsGood, Nothing, OtherIsGood
  <2>2. QED
    BY <2>1, TypedGood DEF AnchoringSuggest
<1>5. QED
  BY <1>3, <1>4

\* So is all that Enter finds.
LEMMA AnsweredGood ==
  ASSUME CatalogOK, NEW node
  PROVE  Good(SearchPage(node)) /\ Good(AnchoringPage(node))
<1>1. 1 \in Nat /\ PageLimit \in Nat
  BY SearchAssumption
<1>2. Other(ResolveSearch)
  <2> DEFINE a == If("block" \in indexed /\ query.shape = "number", "block")
             b == If("transaction" \in indexed, "transaction")
             c == If("block" \in indexed /\ query.shape \in Hashes, "block")
             d == If(query.shape = "address", "address")
             e == Each("token", TokenBySymbolOrName)
             f == Each("token", SearchTokens(1))
  <2>1. Other(a) /\ Other(b) /\ Other(c) /\ Other(d)
    BY IfOther
  <2>2. Other(e) /\ Other(f)
    BY <1>1, FoundByName, EachOther
  <2>3. ResolveSearch = FirstOf(a \o b \o c \o d \o e \o f, 1)
    BY DEF ResolveSearch
  <2> HIDE DEF a, b, c, d, e, f
  <2>4. Other(a \o b)
    BY <2>1, OtherJoined
  <2>5. Other(a \o b \o c)
    BY <2>1, <2>4, OtherJoined
  <2>6. Other(a \o b \o c \o d)
    BY <2>1, <2>5, OtherJoined
  <2>7. Other(a \o b \o c \o d \o e)
    BY <2>2, <2>6, OtherJoined
  <2>8. Other(a \o b \o c \o d \o e \o f)
    BY <2>2, <2>7, OtherJoined
  <2>9. QED
    BY <1>1, <2>3, <2>8, OtherCut
<1>3. Good(SearchPage(node))
  <2>1. Good(ResolveSearch) /\ Good(AnchoringHits(node, 1))
    BY <1>1, <1>2, OtherIsGood, AnchoringHitsGood
  <2>2. QED
    BY <2>1 DEF SearchPage
<1>4. Good(AnchoringPage(node))
  <2>1. Good(Hits(AnchoringSearch(node, PageLimit))) /\ Good(<<>>)
    BY <1>1, HitsGood, Nothing, OtherIsGood
  <2>2. QED
    BY <2>1, TypedGood DEF AnchoringPage
<1>5. QED
  BY <1>3, <1>4

-----------------------------------------------------------------------------
(* The boxes.                                                              *)

BoxFields == {"pc", "list", "answer", "asked", "stale", "node", "then"}

\* The box is a record, whatever it shows.
BoxOK == box = [f \in BoxFields |-> box[f]]

\* What was shown stays good while the contract grows: a registry keeps its
\* number and its name.
SearchInv == CatalogOK /\ BoxOK /\ Good(box.list) /\ Good(box.answer)

\* A good list stays good when a registry is added.
LEMMA GoodStays ==
  ASSUME CatalogOK, NEW list, Good(list),
         UNCHANGED catalog.registries
           \/ \E match \in Matches : catalog.registries' = Append(catalog.registries, match)
  PROVE  Good(list)'
<1>1. catalog.registries \in Seq(Matches) /\ Registries = 1..Len(catalog.registries)
      /\ Len(catalog.registries) \in Nat
  BY CatalogFacts
<1>2. \A id \in Registries : id \in Registries' /\ catalog.registries'[id] = catalog.registries[id]
  <2>1. CASE UNCHANGED catalog.registries
    BY <2>1 DEF Registries
  <2>2. CASE \E match \in Matches : catalog.registries' = Append(catalog.registries, match)
    BY <1>1, <2>2 DEF Registries
  <2>3. QED
    BY <2>1, <2>2
<1>3. \A id \in Registries : RegistryTier(id)' = RegistryTier(id)
  BY <1>2 DEF RegistryTier
<1>4. QED
  BY <1>2, <1>3 DEF Good, IsList, ToSet, Registry

\* At first nothing is shown.
LEMMA SearchStarts == SearchInit => SearchInv
<1>1. SUFFICES ASSUME SearchInit PROVE SearchInv
  OBVIOUS
<1>2. CatalogOK
  BY <1>1, SearchAssumption DEF SearchInit, CatalogOK
<1>3. BoxOK /\ box.list = <<>> /\ box.answer = <<>>
  BY <1>1 DEF SearchInit, Empty, BoxOK, BoxFields
<1>4. Good(<<>>)
  BY Nothing, OtherIsGood
<1>5. QED
  BY <1>2, <1>3, <1>4 DEF SearchInv

\* Every step keeps what is shown good.
LEMMA SearchKept == SearchInv /\ [SearchNext]_searchVars => SearchInv'
<1>1. SUFFICES ASSUME SearchInv, [SearchNext]_searchVars PROVE SearchInv'
  OBVIOUS
<1>2. CatalogOK /\ BoxOK /\ Good(box.list) /\ Good(box.answer)
  BY <1>1 DEF SearchInv
\* What the box shows stays, and the catalog has the registries it had.
<1>3. ASSUME CatalogOK', BoxOK', UNCHANGED <<box.list, box.answer>>,
             UNCHANGED catalog.registries
               \/ \E match \in Matches : catalog.registries' = Append(catalog.registries, match)
      PROVE  SearchInv'
  <2>1. Good(box.list)' /\ Good(box.answer)'
    <3>1. ASSUME NEW list, Good(list) PROVE Good(list)'
      BY <1>2, <1>3, <3>1, GoodStays
    <3>2. QED
      BY <1>2, <1>3, <3>1
  <2>2. QED
    BY <1>3, <2>1 DEF SearchInv
<1>4. Changes => BoxOK' /\ UNCHANGED <<box.list, box.answer>>
  BY <1>2 DEF Changes, BoxOK, BoxFields
<1>5. CASE IndexNamed
  <2>1. Changes /\ UNCHANGED catalog
    BY <1>5 DEF IndexNamed
  <2>2. CatalogOK'
    BY <1>2, <2>1 DEF CatalogOK
  <2>3. QED
    BY <1>3, <1>4, <2>1, <2>2
<1>6. CASE IndexToken
  <2>1. PICK t \in Tokens, row \in NewRows : catalog' = [catalog EXCEPT !.tokens[t] = row]
    BY <1>6 DEF IndexToken
  <2>2. row \in TokenRows
    BY SearchAssumption
  <2>3. CatalogOK' /\ UNCHANGED catalog.registries
    BY <1>2, <2>1, <2>2 DEF CatalogOK
  <2>4. QED
    BY <1>3, <1>4, <1>6, <2>3 DEF IndexToken
<1>7. CASE AddRegistry
  <2>1. PICK match \in Matches : catalog' = [catalog EXCEPT !.registries = Append(@, match)]
    BY <1>7 DEF AddRegistry
  <2>2. /\ catalog'.registries = Append(catalog.registries, match)
        /\ catalog' = [tokens |-> catalog.tokens, registries |-> Append(catalog.registries, match),
                       records |-> catalog.records, names |-> catalog.names]
    BY <1>2, <2>1 DEF CatalogOK
  <2>3. Append(catalog.registries, match) \in Seq(Matches)
    BY <1>2, CatalogFacts
  <2>4. CatalogOK'
    BY <1>2, <2>2, <2>3 DEF CatalogOK
  <2>5. QED
    BY <1>3, <1>4, <1>7, <2>2, <2>4 DEF AddRegistry
<1>8. CASE Suggest
  <2>1. PICK node \in Nodes :
          box' = [box EXCEPT !.asked = TRUE, !.node = node,
                    !.list = IF query.field = "search" THEN SearchSuggest(node)
                             ELSE AnchoringSuggest(node)]
    BY <1>8 DEF Suggest
  <2>2. UNCHANGED catalog
    BY <1>8 DEF Suggest
  <2>3. Good(SearchSuggest(node)) /\ Good(AnchoringSuggest(node))
    BY <1>2, SuggestedGood
  <2>4. BoxOK' /\ box'.answer = box.answer
        /\ (box'.list = SearchSuggest(node) \/ box'.list = AnchoringSuggest(node))
    BY <1>2, <2>1 DEF BoxOK, BoxFields
  <2>5. ASSUME NEW list, Good(list) PROVE Good(list)'
    BY <1>2, <2>2, <2>5, GoodStays
  <2>6. Good(box.answer)' /\ Good(box.list)'
    BY <1>2, <2>3, <2>4, <2>5
  <2>7. CatalogOK'
    BY <1>2, <2>2 DEF CatalogOK
  <2>8. QED
    BY <2>4, <2>6, <2>7 DEF SearchInv
<1>9. CASE Enter
  <2>1. PICK node \in Nodes :
          box' = [box EXCEPT !.pc = "entered", !.then = node,
                    !.answer = IF query.field = "search" THEN SearchPage(node) ELSE AnchoringPage(node)]
    BY <1>9 DEF Enter
  <2>2. UNCHANGED catalog
    BY <1>9 DEF Enter
  <2>3. Good(SearchPage(node)) /\ Good(AnchoringPage(node))
    BY <1>2, AnsweredGood
  <2>4. BoxOK' /\ box'.list = box.list
        /\ (box'.answer = SearchPage(node) \/ box'.answer = AnchoringPage(node))
    BY <1>2, <2>1 DEF BoxOK, BoxFields
  <2>5. ASSUME NEW list, Good(list) PROVE Good(list)'
    BY <1>2, <2>2, <2>5, GoodStays
  <2>6. Good(box.answer)' /\ Good(box.list)'
    BY <1>2, <2>3, <2>4, <2>5
  <2>7. CatalogOK'
    BY <1>2, <2>2 DEF CatalogOK
  <2>8. QED
    BY <2>4, <2>6, <2>7 DEF SearchInv
<1>10. CASE UNCHANGED searchVars
  <2>1. UNCHANGED <<box, catalog>>
    BY <1>10 DEF searchVars
  <2>2. CatalogOK' /\ BoxOK'
    BY <1>2, <2>1 DEF CatalogOK, BoxOK
  <2>3. QED
    BY <1>3, <2>1, <2>2
<1>11. QED
  BY <1>1, <1>5, <1>6, <1>7, <1>8, <1>9, <1>10 DEF SearchNext

\* In a good list no registry stands twice, nor before a better one.
LEMMA GoodIsBest == SearchInv => BestOnceFirst
<1>1. SUFFICES ASSUME SearchInv PROVE BestOnceFirst
  OBVIOUS
<1>2. Good(box.list) /\ Good(box.answer)
  BY <1>1 DEF SearchInv
<1>3. ASSUME NEW list, Good(list), NEW i \in DOMAIN list, NEW j \in DOMAIN list,
             i < j, list[i][1] = "registry", list[j][1] = "registry"
      PROVE  list[i] # list[j] /\ RegistryTier(list[i][2]) <= RegistryTier(list[j][2])
  <2>1. DOMAIN list = 1..Len(list)
    BY <1>3, ListFacts DEF Good
  <2>2. QED
    BY <1>3, <2>1 DEF Good, Registry
<1>4. QED
  BY <1>2, <1>3 DEF BestOnceFirst

\* Whatever the index, the contract and the node answer, and however contract
\* and index grow while the reader types, no registry is suggested or listed
\* twice, and none before one that answers the query better (name_search.rs
\* rank, anchoring_search).
THEOREM BestAndOnce == SearchSpec => []BestOnceFirst
<1>1. SearchSpec => []SearchInv
  BY SearchStarts, SearchKept, PTL DEF SearchSpec
<1>2. QED
  BY <1>1, GoodIsBest, PTL

-----------------------------------------------------------------------------
(* From what is shown to where Enter leads.                                *)

\* A joined list has what the two have.
LEMMA JoinedSet ==
  ASSUME NEW s, NEW t, IsList(s), IsList(t)
  PROVE  ToSet(s \o t) = ToSet(s) \cup ToSet(t)
<1> DEFINE u == s \o t
<1>1. /\ Len(s) \in Nat /\ Len(t) \in Nat /\ DOMAIN s = 1..Len(s) /\ DOMAIN t = 1..Len(t)
      /\ \A k \in 1..Len(s) : s[k] \in ToSet(s)
      /\ \A k \in 1..Len(t) : t[k] \in ToSet(t)
  BY ListFacts
<1>2. /\ IsList(u) /\ Len(u) = Len(s) + Len(t)
      /\ \A k \in 1..Len(s) : u[k] = s[k]
      /\ \A k \in (Len(s) + 1)..(Len(s) + Len(t)) : u[k] = t[k - Len(s)]
  BY Joined
<1> HIDE DEF u
<1>3. DOMAIN u = 1..Len(u) /\ \A k \in 1..Len(u) : u[k] \in ToSet(u)
  BY <1>2, ListFacts
<1>4. ASSUME NEW x \in ToSet(u) PROVE x \in ToSet(s) \cup ToSet(t)
  <2>1. PICK k \in 1..Len(u) : x = u[k]
    BY <1>3, <1>4 DEF ToSet
  <2>2. k \in 1..Len(s) \/ (k \in (Len(s) + 1)..(Len(s) + Len(t)) /\ k - Len(s) \in 1..Len(t))
    BY <1>1, <1>2
  <2>3. QED
    BY <1>1, <1>2, <2>1, <2>2
<1>5. ASSUME NEW x \in ToSet(s) PROVE x \in ToSet(u)
  <2>1. PICK k \in 1..Len(s) : x = s[k]
    BY <1>1, <1>5 DEF ToSet
  <2>2. k \in 1..Len(u) /\ u[k] = x
    BY <1>1, <1>2, <2>1
  <2>3. QED
    BY <1>3, <2>2
<1>6. ASSUME NEW x \in ToSet(t) PROVE x \in ToSet(u)
  <2>1. PICK k \in 1..Len(t) : x = t[k]
    BY <1>1, <1>6 DEF ToSet
  <2>2. k + Len(s) \in 1..Len(u) /\ k + Len(s) \in (Len(s) + 1)..(Len(s) + Len(t)) /\ (k + Len(s)) - Len(s) = k
    BY <1>1, <1>2
  <2>3. u[k + Len(s)] = x
    BY <1>2, <2>1, <2>2
  <2>4. QED
    BY <1>3, <2>2, <2>3
<1>7. QED
  BY <1>4, <1>5, <1>6 DEF u

\* A cut list is full or has all there was.
LEMMA AllOrFull ==
  ASSUME NEW s, IsList(s), NEW n \in Nat
  PROVE  /\ Len(FirstOf(s, n)) = IF Len(s) < n THEN Len(s) ELSE n
         /\ Len(FirstOf(s, n)) = n \/ ToSet(FirstOf(s, n)) = ToSet(s)
<1> DEFINE m == IF Len(s) < n THEN Len(s) ELSE n
<1>1. Len(s) \in Nat /\ m \in Nat /\ m <= Len(s) /\ s \in Seq(ToSet(s)) /\ DOMAIN s = 1..Len(s)
  BY ListFacts DEF IsList
<1>2. FirstOf(s, n) = SubSeq(s, 1, m)
  BY DEF FirstOf
<1>3. m = n \/ m = Len(s)
  OBVIOUS
<1>4. m = IF Len(s) < n THEN Len(s) ELSE n
  OBVIOUS
<1> HIDE DEF m
<1>5. SubSeq(s, 1, m) = [k \in 1..m |-> s[k]] /\ Len(SubSeq(s, 1, m)) = m
  BY <1>1
<1>6. CASE m = Len(s)
  <2>1. SubSeq(s, 1, m) = s
    BY <1>1, <1>5, <1>6
  <2>2. QED
    BY <1>2, <1>4, <1>5, <2>1
<1>7. CASE m = n
  BY <1>2, <1>4, <1>5, <1>7
<1>8. QED
  BY <1>3, <1>6, <1>7

\* The tokens one click away are on offer, or the offer is full.
LEMMA TokensOffered ==
  ASSUME CatalogOK, ~query.short, NEW n \in Nat, NEW limit \in Nat,
         NEW t \in ToSet(TokenBySymbolOrName) \cup ToSet(SearchTokens(n))
  PROVE  t \in ToSet(SearchTokens(limit)) \/ Len(SearchTokens(limit)) = limit
<1> DEFINE S == {u \in Tokens : {Row(u).symbol, Row(u).name} # {"none"}}
           R == {p \in S \X S : BetterToken(p[1], p[2])}
           N == {u \in Tokens : "exact" \in {Row(u).symbol, Row(u).name}}
           better(s, u) == \/ Row(s).holders > Row(u).holders
                           \/ Row(s).holders = Row(u).holders /\ s < u
           Q == {p \in N \X N : better(p[1], p[2])}
<1>1. IsFiniteSet(Tokens) /\ \A u \in Tokens : u \in Nat
  BY SearchAssumption
<1>2. \A u \in Tokens : Row(u).holders \in Nat /\ TokenTier(u) \in 0..3
  BY DEF CatalogOK, Row, TokenTier, TokenRows
<1>3. IsFiniteSet(S) /\ IsFiniteSet(N) /\ N \in SUBSET S
  BY <1>1, FS_Subset
<1>4. IsOrder(S, R)
  <2>1. \A a, b \in S : <<a, b>> \in R <=> BetterToken(a, b)
    OBVIOUS
  <2>2. \A a \in S : a \in Nat /\ Row(a).holders \in Nat /\ TokenTier(a) \in 0..3
    BY <1>1, <1>2
  <2> HIDE DEF S, R
  <2>3. \A a, b \in S : a # b => <<a, b>> \in R \/ <<b, a>> \in R
    BY <2>1, <2>2 DEF BetterToken
  <2>4. \A a \in S : <<a, a>> \notin R
    BY <2>1, <2>2 DEF BetterToken
  <2>5. ASSUME NEW a \in S, NEW b \in S, NEW c \in S, <<a, b>> \in R, <<b, c>> \in R
        PROVE  <<a, c>> \in R
    BY <2>1, <2>2, <2>5 DEF BetterToken
  <2>6. QED
    BY <2>3, <2>4, <2>5 DEF IsOrder
<1>5. IsOrder(N, Q)
  <2>1. \A a, b \in N : <<a, b>> \in Q <=>
           Row(a).holders > Row(b).holders \/ (Row(a).holders = Row(b).holders /\ a < b)
    OBVIOUS
  <2>2. \A a \in N : a \in Nat /\ Row(a).holders \in Nat
    BY <1>1, <1>2
  <2> HIDE DEF N, Q
  <2>3. \A a, b \in N : a # b => <<a, b>> \in Q \/ <<b, a>> \in Q
    BY <2>1, <2>2
  <2>4. \A a \in N : <<a, a>> \notin Q
    BY <2>1, <2>2
  <2>5. ASSUME NEW a \in N, NEW b \in N, NEW c \in N, <<a, b>> \in Q, <<b, c>> \in Q
        PROVE  <<a, c>> \in Q
    BY <2>1, <2>2, <2>5
  <2>6. QED
    BY <2>3, <2>4, <2>5 DEF IsOrder
<1>6. \A m : SearchTokens(m) = FirstOf(InOrder(S, R), m)
  BY DEF SearchTokens
<1>7. TokenBySymbolOrName = FirstOf(InOrder(N, Q), 1)
  BY DEF TokenBySymbolOrName
<1> HIDE DEF S, R, N, Q
<1>8. /\ IsList(InOrder(S, R)) /\ ToSet(InOrder(S, R)) = S
      /\ IsList(InOrder(N, Q)) /\ ToSet(InOrder(N, Q)) = N
  BY <1>3, <1>4, <1>5, InTheOrder
<1>9. t \in S
  <2>1. ToSet(TokenBySymbolOrName) \in SUBSET N
    BY <1>7, <1>8, CutFrom
  <2>2. ToSet(SearchTokens(n)) \in SUBSET S
    BY <1>6, <1>8, CutFrom
  <2>3. QED
    BY <1>3, <2>1, <2>2
<1>10. QED
  BY <1>6, <1>8, <1>9, AllOrFull

\* A longer list of the same has what a shorter one has.
LEMMA CutLonger ==
  ASSUME NEW s, IsList(s), NEW m \in Nat, NEW n \in Nat, m <= n
  PROVE  ToSet(FirstOf(s, m)) \in SUBSET ToSet(FirstOf(s, n))
<1> DEFINE u == FirstOf(s, m)
           v == FirstOf(s, n)
<1>1. /\ IsList(u) /\ \A k \in 1..Len(u) : k \in 1..Len(s) /\ u[k] = s[k]
      /\ IsList(v) /\ \A k \in 1..Len(v) : k \in 1..Len(s) /\ v[k] = s[k]
  BY Cut
<1>2. Len(u) = (IF Len(s) < m THEN Len(s) ELSE m) /\ Len(v) = (IF Len(s) < n THEN Len(s) ELSE n)
  BY AllOrFull
<1> HIDE DEF u, v
<1>3. Len(s) \in Nat /\ DOMAIN u = 1..Len(u) /\ \A k \in 1..Len(v) : v[k] \in ToSet(v)
  BY <1>1, ListFacts
<1>4. ASSUME NEW x \in ToSet(u) PROVE x \in ToSet(v)
  <2>1. PICK k \in 1..Len(u) : x = u[k]
    BY <1>3, <1>4 DEF ToSet
  <2>2. k \in 1..Len(v)
    BY <1>2, <1>3
  <2>3. QED
    BY <1>1, <1>3, <2>1, <2>2
<1>5. QED
  BY <1>4 DEF u, v

\* Registries the name index answers, within a wider limit: found there, or as
\* many as the limit.
LEMMA MatchedMore ==
  ASSUME CatalogOK, NEW node, NEW n \in Nat, 1 <= n, NEW id \in ToSet(Matching(node, 1))
  PROVE  \/ id \in ToSet(Matching(node, n))
         \/ IsFiniteSet(ToSet(Matching(node, n))) /\ n <= Cardinality(ToSet(Matching(node, n)))
<1> DEFINE containing == {r \in Registries : catalog.registries[r] # "none"}
           all == Ascending(containing)
           near == ToSet(FirstOf(all, 1 * Overfetch))
           far == ToSet(FirstOf(all, n * Overfetch))
           s == Ranking(far)
           M == FirstOf(s, n)
<1>1. Overfetch \in Nat /\ 1 * Overfetch \in Nat /\ n * Overfetch \in Nat /\ 1 * Overfetch <= n * Overfetch
  <2>1. Overfetch \in Nat
    BY SearchAssumption
  <2>2. n * Overfetch = Overfetch + (n - 1) * Overfetch /\ (n - 1) * Overfetch \in Nat
    BY <2>1
  <2>3. QED
    BY <2>1, <2>2
<1>2. IsFiniteSet(Registries) /\ Registries \in SUBSET Nat
  BY CatalogFacts
<1>3. containing \in SUBSET Nat /\ IsFiniteSet(containing) /\ containing \in SUBSET Registries
  BY <1>2, FS_Subset
<1>4. /\ Matching(node, 1) = IF "names" \in node THEN FirstOf(Ranking(near), 1) ELSE <<>>
      /\ Matching(node, n) = IF "names" \in node THEN M ELSE <<>>
  BY DEF Matching
<1> HIDE DEF containing
<1>5. IsList(all) /\ ToSet(all) = containing
  BY <1>3, Rises
<1> HIDE DEF all
<1>6. near \in SUBSET far /\ far \in SUBSET Registries
  BY <1>1, <1>3, <1>5, CutLonger, CutFrom
<1> HIDE DEF near, far
<1>7. IsList(Ranking(near)) /\ ToSet(Ranking(near)) = near
  BY <1>6, RanksOrder, InTheOrder
<1>8. /\ IsList(s) /\ ToSet(s) = far
      /\ \A j, k \in 1..Len(s) : j < k => s[j] # s[k]
  <2> DEFINE o == InOrder(far, Beside(far))
  <2>1. IsFiniteSet(far) /\ IsOrder(far, Beside(far)) /\ s = o
    BY <1>6, RanksOrder
  <2>2. /\ IsList(o) /\ ToSet(o) = far
        /\ \A j, k \in 1..Len(o) : j < k => o[j] # o[k]
    BY <2>1, InTheOrder
  <2> HIDE DEF o, s
  <2>3. QED
    BY <2>1, <2>2
<1>9. "names" \in node
  BY <1>4 DEF ToSet
<1>10. id \in near
  BY <1>4, <1>7, <1>9, CutFrom
<1>11. /\ IsList(M) /\ \A k \in 1..Len(M) : k \in 1..Len(s) /\ M[k] = s[k]
       /\ Len(M) = n \/ ToSet(M) = ToSet(s)
       /\ ToSet(M) \in SUBSET ToSet(s)
  BY <1>8, Cut, AllOrFull, CutFrom
<1> HIDE DEF s, M
<1>12. CASE ToSet(M) = ToSet(s)
  BY <1>4, <1>6, <1>8, <1>9, <1>10, <1>12
<1>13. CASE Len(M) = n
  <2> DEFINE T == ToSet(M)
             f == [k \in 1..n |-> M[k]]
  <2>1. IsFiniteSet(T)
    <3>1. IsFiniteSet(far)
      BY <1>2, <1>6, FS_Subset
    <3>2. QED
      BY <1>8, <1>11, <3>1, FS_Subset
  <2>2. \A k \in 1..n : M[k] \in T
    BY <1>11, <1>13, ListFacts
  <2>3. \A j, k \in 1..n : f[j] = f[k] => j = k
    <3>1. \A j, k \in 1..n : j < k => f[j] # f[k]
      BY <1>8, <1>11, <1>13
    <3>2. QED
      BY <3>1
  <2> HIDE DEF T
  <2>4. f \in [1..n -> T]
    BY <2>2
  <2>5. f \in Injection(1..n, T)
    BY <2>3, <2>4, Fun_IsInj
  <2>6. n <= Cardinality(T)
    BY <2>1, <2>5, Counted, FS_Injection
  <2>7. QED
    BY <1>4, <1>9, <2>1, <2>6 DEF T
<1>14. QED
  BY <1>11, <1>12, <1>13

\* The best of what the contract answers is on offer, or the offer is full.
LEMMA HitsOffered ==
  ASSUME CatalogOK, NEW node, NEW n \in Nat, 1 <= n, NEW x \in ToSet(AnchoringHits(node, 1))
  PROVE  x \in ToSet(AnchoringHits(node, n)) \/ Len(AnchoringHits(node, n)) = n
<1> DEFINE E == {id \in Registries : catalog.registries[id] = "exact"}
           M(m) == ToSet(Matching(node, m))
           F(m) == M(m) \ ToSet(Lookup)
           t(m) == Ranking(F(m))
           ids(m) == Lookup \o t(m)
           regs(m) == Each("registry", ids(m))
           recs == [k \in 1..catalog.records |-> <<"record", k>>]
           H(m) == regs(m) \o recs
<1>1. "contract" \in node
  BY DEF AnchoringHits, ToSet
<1>2. \A m : AnchoringHits(node, m) = FirstOf(H(m), m)
  BY <1>1 DEF AnchoringHits, Hits, AnchoringSearch
<1>3. IsFiniteSet(Registries) /\ Registries \in SUBSET Nat /\ catalog.records \in Nat
  BY CatalogFacts
<1>4. /\ E \in SUBSET Nat /\ IsFiniteSet(E) /\ Lookup = Ascending(E)
  BY <1>3, FS_Subset DEF Lookup
<1> HIDE DEF E
<1>5. IsList(Lookup) /\ ToSet(Lookup) = E
  BY <1>4, Rises
<1>6. IsList(recs)
  BY <1>3, ListOf
<1> HIDE DEF recs
<1>7. ASSUME NEW m \in Nat
      PROVE  /\ IsFiniteSet(M(m)) /\ IsFiniteSet(F(m)) /\ IsList(t(m)) /\ ToSet(t(m)) = F(m)
             /\ Len(t(m)) = Cardinality(F(m))
  <2>1. M(m) \in SUBSET Registries
    BY <1>7, MatchingFacts
  <2>2. F(m) \in SUBSET Registries /\ IsFiniteSet(M(m))
    BY <1>3, <2>1, FS_Subset
  <2> HIDE DEF F
  <2>3. IsFiniteSet(F(m)) /\ IsOrder(F(m), Beside(F(m))) /\ t(m) = InOrder(F(m), Beside(F(m)))
    BY <2>2, RanksOrder
  <2> HIDE DEF t, M
  <2>4. IsList(t(m)) /\ ToSet(t(m)) = F(m) /\ Len(t(m)) = Cardinality(F(m))
    BY <2>3, InTheOrder, Sorted
  <2>5. QED
    BY <2>2, <2>3, <2>4
<1>8. ASSUME NEW m \in Nat
      PROVE  /\ IsList(ids(m)) /\ ToSet(ids(m)) = E \cup M(m)
             /\ IsFiniteSet(M(m)) /\ Cardinality(M(m)) <= Len(ids(m))
  <2>1. /\ IsFiniteSet(M(m)) /\ IsFiniteSet(F(m)) /\ IsList(t(m)) /\ ToSet(t(m)) = F(m)
        /\ Len(t(m)) = Cardinality(F(m))
    BY <1>7
  <2>2. F(m) = M(m) \ E
    BY <1>5
  <2> HIDE DEF M, F, t
  <2>3. IsList(ids(m)) /\ ToSet(ids(m)) = E \cup F(m) /\ Len(ids(m)) = Len(Lookup) + Len(t(m))
    BY <1>5, <2>1, Joined, JoinedSet
  <2>4. Len(Lookup) = Cardinality(E)
    <3> DEFINE below == {p \in E \X E : p[1] < p[2]}
    <3>1. \A a, b \in E : <<a, b>> \in below <=> a < b
      OBVIOUS
    <3>2. Lookup = InOrder(E, below)
      BY <1>4 DEF Ascending
    <3> HIDE DEF below
    <3>3. \A a \in E : a \in Nat
      BY <1>4
    <3>4. IsOrder(E, below)
      BY <3>1, <3>3 DEF IsOrder
    <3>5. QED
      BY <1>4, <3>2, <3>4, Sorted
  <2>5. Cardinality(M(m)) <= Cardinality(E) + Cardinality(F(m))
    <3>1. Cardinality(F(m)) = Cardinality(M(m)) - Cardinality(M(m) \cap E)
      BY <2>1, <2>2, FS_Difference
    <3>2. IsFiniteSet(M(m) \cap E) /\ Cardinality(M(m) \cap E) <= Cardinality(E)
      <4>1. (M(m) \cap E) \in SUBSET E
        OBVIOUS
      <4>2. QED
        BY <1>4, <4>1, FS_Subset
    <3>3. Cardinality(M(m)) \in Nat /\ Cardinality(M(m) \cap E) \in Nat /\ Cardinality(E) \in Nat
      BY <1>4, <2>1, <3>2, FS_CardinalityType
    <3>4. QED
      BY <3>1, <3>2, <3>3
  <2>6. (E \cup F(m)) = (E \cup M(m))
    BY <2>2
  <2>7. QED
    BY <2>1, <2>3, <2>4, <2>5, <2>6
<1> HIDE DEF M, F, t, ids
<1>9. ASSUME NEW m \in Nat
      PROVE  /\ IsList(regs(m)) /\ Len(regs(m)) = Len(ids(m))
             /\ ToSet(regs(m)) = {<<"registry", id>> : id \in ToSet(ids(m))}
  <2>1. IsList(ids(m))
    BY <1>8
  <2>2. /\ IsList(regs(m)) /\ Len(regs(m)) = Len(ids(m))
        /\ \A k \in 1..Len(ids(m)) : regs(m)[k] = <<"registry", ids(m)[k]>>
    BY <2>1, EachFacts
  <2> HIDE DEF regs
  <2>3. DOMAIN ids(m) = 1..Len(ids(m)) /\ DOMAIN regs(m) = 1..Len(ids(m))
    BY <2>1, <2>2, ListFacts
  <2>4. QED
    BY <2>2, <2>3 DEF ToSet
<1> HIDE DEF regs
<1>10. ASSUME NEW m \in Nat
       PROVE  /\ IsList(H(m)) /\ Len(H(m)) >= Len(ids(m))
              /\ ToSet(H(m)) = {<<"registry", id>> : id \in E \cup M(m)} \cup ToSet(recs)
  <2>1. IsList(regs(m)) /\ Len(regs(m)) \in Nat /\ Len(recs) \in Nat
    BY <1>6, <1>9, ListFacts
  <2>2. IsList(H(m)) /\ Len(H(m)) = Len(regs(m)) + Len(recs) /\ ToSet(H(m)) = ToSet(regs(m)) \cup ToSet(recs)
    BY <1>6, <2>1, Joined, JoinedSet
  <2> HIDE DEF H
  <2>3. Len(H(m)) >= Len(ids(m))
    BY <1>9, <2>1, <2>2
  <2>4. QED
    BY <1>8, <1>9, <2>2, <2>3
<1>11. \A m \in Nat : AnchoringHits(node, m) = FirstOf(H(m), m)
  BY <1>2
<1> HIDE DEF H
<1>12. x \in {<<"registry", id>> : id \in E \cup M(1)} \cup ToSet(recs)
  BY <1>10, <1>11, CutFrom
<1>13. x \in ToSet(H(n)) \/ (IsFiniteSet(M(n)) /\ n <= Cardinality(M(n)))
  <2>1. ASSUME NEW id \in M(1) PROVE id \in M(n) \/ (IsFiniteSet(M(n)) /\ n <= Cardinality(M(n)))
    BY <2>1, MatchedMore DEF M
  <2>2. QED
    BY <1>10, <1>12, <2>1
<1>14. CASE x \in ToSet(H(n))
  BY <1>10, <1>11, <1>14, AllOrFull
<1>15. CASE IsFiniteSet(M(n)) /\ n <= Cardinality(M(n))
  <2>1. Cardinality(M(n)) \in Nat /\ Len(H(n)) \in Nat /\ Len(ids(n)) \in Nat
    BY <1>8, <1>10, ListFacts, FS_CardinalityType
  <2>2. Len(H(n)) >= n
    BY <1>8, <1>10, <1>15, <2>1
  <2>3. QED
    BY <1>10, <1>11, <2>1, <2>2, AllOrFull
<1>16. QED
  BY <1>13, <1>14, <1>15

\* What is found on a condition.
LEMMA IfFacts ==
  ASSUME NEW holds \in BOOLEAN, NEW kind
  PROVE  /\ IsList(If(holds, kind))
         /\ holds => Len(If(holds, kind)) = 1 /\ <<kind, 0>> \in ToSet(If(holds, kind))
         /\ \A x \in ToSet(If(holds, kind)) : holds /\ x = <<kind, 0>>
<1> DEFINE s == <<<<kind, 0>>>>
<1>1. IsList(s) /\ Len(s) = 1 /\ s[1] = <<kind, 0>>
  BY Single
<1>2. If(holds, kind) = IF holds THEN s ELSE <<>>
  BY DEF If
<1> HIDE DEF s
<1>3. ToSet(s) = {<<kind, 0>>}
  <2>1. DOMAIN s = 1..1
    BY <1>1, ListFacts
  <2>2. QED
    BY <1>1, <2>1 DEF ToSet
<1>4. ToSet(<<>>) = {} /\ IsList(<<>>)
  BY Nothing DEF ToSet
<1>5. CASE holds
  BY <1>1, <1>2, <1>3, <1>5
<1>6. CASE ~holds
  BY <1>2, <1>4, <1>6
<1>7. QED
  BY <1>5, <1>6

\* Cut to one, a list is its first.
LEMMA FirstIs ==
  ASSUME NEW s, IsList(s), NEW x \in ToSet(FirstOf(s, 1))
  PROVE  Len(s) >= 1 /\ x = s[1]
<1> DEFINE u == FirstOf(s, 1)
<1>1. IsList(u) /\ \A k \in 1..Len(u) : k \in 1..Len(s) /\ u[k] = s[k]
  BY Cut
<1>2. Len(u) = (IF Len(s) < 1 THEN Len(s) ELSE 1) /\ Len(s) \in Nat
  BY AllOrFull, ListFacts
<1> HIDE DEF u
<1>3. DOMAIN u = 1..Len(u)
  BY <1>1, ListFacts
<1>4. PICK k \in 1..Len(u) : x = u[k]
  BY <1>3 DEF ToSet, u
<1>5. k = 1 /\ Len(s) >= 1
  BY <1>2
<1>6. QED
  BY <1>1, <1>4, <1>5

\* What the query names is of its shape.
QueryOK ==
    /\ query.shape \in Shapes /\ query.short \in BOOLEAN
    /\ indexed = {} \/ \E fact \in Named : indexed = {fact}

\* What the index has an answer of its own for is not left to names.
LEMMA Resolves ==
  ASSUME CatalogOK, QueryOK, ~HashUnknown, ~BareHashKnown
  PROVE  /\ ResolveSearch = <<>> => query.shape \notin {"hash", "address"}
         /\ \A x \in ToSet(ResolveSearch) :
               \/ x = <<"block", 0>> /\ "block" \in indexed /\ query.shape \in {"number", "hash"}
               \/ x = <<"transaction", 0>> /\ "block" \notin indexed /\ query.shape = "hash"
               \/ x = <<"address", 0>> /\ query.shape = "address"
               \/ /\ query.shape \notin {"hash", "address"}
                  /\ \E t \in ToSet(TokenBySymbolOrName) \cup ToSet(SearchTokens(1)) : x = <<"token", t>>
<1> DEFINE aIf == "block" \in indexed /\ query.shape = "number"
           bIf == "transaction" \in indexed
           cIf == "block" \in indexed /\ query.shape \in Hashes
           dIf == query.shape = "address"
           a == If(aIf, "block")
           b == If(bIf, "transaction")
           c == If(cIf, "block")
           d == If(dIf, "address")
           e == Each("token", TokenBySymbolOrName)
           f == Each("token", SearchTokens(1))
           named == a \o b \o c \o d
<1>1. /\ bIf => query.shape = "hash" /\ "block" \notin indexed
      /\ cIf => query.shape = "hash"
      /\ query.shape = "hash" => bIf \/ cIf
      /\ query.shape = "address" => dIf
  BY DEF QueryOK, Named, Hashes, HashUnknown, BareHashKnown, Shapes
<1>2. ResolveSearch = FirstOf(named \o e \o f, 1)
  BY DEF ResolveSearch
<1>3. /\ IsList(a) /\ IsList(b) /\ IsList(c) /\ IsList(d)
      /\ \A y \in ToSet(a) : aIf /\ y = <<"block", 0>>
      /\ \A y \in ToSet(b) : bIf /\ y = <<"transaction", 0>>
      /\ \A y \in ToSet(c) : cIf /\ y = <<"block", 0>>
      /\ \A y \in ToSet(d) : dIf /\ y = <<"address", 0>>
      /\ bIf => Len(b) = 1
      /\ cIf => Len(c) = 1
      /\ dIf => Len(d) = 1
  <2>1. aIf \in BOOLEAN /\ bIf \in BOOLEAN /\ cIf \in BOOLEAN /\ dIf \in BOOLEAN
    OBVIOUS
  <2> HIDE DEF aIf, bIf, cIf, dIf
  <2>2. QED
    BY <2>1, IfFacts
<1>4. IsList(TokenBySymbolOrName) /\ IsList(SearchTokens(1))
  BY FoundByName
<1>5. IsList(e) /\ IsList(f)
  BY <1>4, EachFacts
<1>6. \A y \in ToSet(e) \cup ToSet(f) :
         \E t \in ToSet(TokenBySymbolOrName) \cup ToSet(SearchTokens(1)) : y = <<"token", t>>
  <2>1. ASSUME NEW ids, IsList(ids), NEW y \in ToSet(Each("token", ids))
        PROVE  \E t \in ToSet(ids) : y = <<"token", t>>
    <3>1. /\ IsList(Each("token", ids)) /\ Len(Each("token", ids)) = Len(ids)
          /\ \A k \in 1..Len(ids) : Each("token", ids)[k] = <<"token", ids[k]>>
      BY <2>1, EachFacts
    <3>2. DOMAIN Each("token", ids) = 1..Len(ids) /\ \A k \in 1..Len(ids) : ids[k] \in ToSet(ids)
      BY <2>1, <3>1, ListFacts
    <3>3. PICK k \in 1..Len(ids) : y = Each("token", ids)[k]
      BY <2>1, <3>2 DEF ToSet
    <3>4. QED
      BY <3>1, <3>2, <3>3
  <2>2. QED
    BY <1>4, <2>1
<1> HIDE DEF a, b, c, d, e, f
<1>7. /\ IsList(named)
      /\ ToSet(named) = ((ToSet(a) \cup ToSet(b)) \cup ToSet(c)) \cup ToSet(d)
      /\ Len(named) = ((Len(a) + Len(b)) + Len(c)) + Len(d)
  <2>1. IsList(a \o b) /\ ToSet(a \o b) = ToSet(a) \cup ToSet(b) /\ Len(a \o b) = Len(a) + Len(b)
    BY <1>3, Joined, JoinedSet
  <2>2. /\ IsList((a \o b) \o c) /\ ToSet((a \o b) \o c) = ToSet(a \o b) \cup ToSet(c)
        /\ Len((a \o b) \o c) = Len(a \o b) + Len(c)
    BY <1>3, <2>1, Joined, JoinedSet
  <2>3. /\ IsList(((a \o b) \o c) \o d) /\ ToSet(((a \o b) \o c) \o d) = ToSet((a \o b) \o c) \cup ToSet(d)
        /\ Len(((a \o b) \o c) \o d) = Len((a \o b) \o c) + Len(d)
    BY <1>3, <2>2, Joined, JoinedSet
  <2>4. QED
    BY <2>1, <2>2, <2>3
<1>8. Len(a) \in Nat /\ Len(b) \in Nat /\ Len(c) \in Nat /\ Len(d) \in Nat
  BY <1>3, ListFacts
<1> DEFINE p == named \o e
           q == p \o f
<1>9. /\ IsList(p) /\ ToSet(p) = ToSet(named) \cup ToSet(e) /\ Len(p) = Len(named) + Len(e)
      /\ \A k \in 1..Len(named) : p[k] = named[k]
  <2> HIDE DEF named
  <2>1. QED
    BY <1>5, <1>7, Joined, JoinedSet
<1>10. ResolveSearch = FirstOf(q, 1)
  BY <1>2
<1> HIDE DEF p
<1>11. /\ IsList(q) /\ ToSet(q) = ToSet(p) \cup ToSet(f) /\ Len(q) = Len(p) + Len(f)
       /\ \A k \in 1..Len(p) : q[k] = p[k]
  BY <1>5, <1>9, Joined, JoinedSet
<1> HIDE DEF q, named
<1>12. /\ Len(named) \in Nat /\ DOMAIN named = 1..Len(named)
       /\ Len(e) \in Nat /\ Len(f) \in Nat
  BY <1>5, <1>7, ListFacts
<1>13. query.shape \in {"hash", "address"} => Len(named) >= 1
  <2>1. query.shape \in {"hash", "address"} => bIf \/ cIf \/ dIf
    BY <1>1
  <2> HIDE DEF bIf, cIf, dIf
  <2>2. QED
    BY <1>3, <1>7, <1>8, <2>1
<1>14. query.shape \in {"hash", "address"} => ResolveSearch # <<>>
  <2>1. Len(FirstOf(q, 1)) = IF Len(q) < 1 THEN Len(q) ELSE 1
    BY <1>11, AllOrFull
  <2>2. Len(named) >= 1 => Len(FirstOf(q, 1)) = 1
    BY <1>9, <1>11, <1>12, <2>1
  <2>3. Len(<<>>) = 0
    OBVIOUS
  <2>4. QED
    BY <1>10, <1>13, <2>2, <2>3
<1>15. ASSUME NEW x \in ToSet(ResolveSearch)
       PROVE  \/ x = <<"block", 0>> /\ "block" \in indexed /\ query.shape \in {"number", "hash"}
              \/ x = <<"transaction", 0>> /\ "block" \notin indexed /\ query.shape = "hash"
              \/ x = <<"address", 0>> /\ query.shape = "address"
              \/ /\ query.shape \notin {"hash", "address"}
                 /\ \E t \in ToSet(TokenBySymbolOrName) \cup ToSet(SearchTokens(1)) : x = <<"token", t>>
  <2>1. x \in ToSet(q) /\ x = q[1]
    BY <1>10, <1>11, <1>15, CutFrom, FirstIs
  <2>2. CASE Len(named) >= 1
    <3>1. 1 \in 1..Len(named) /\ 1 \in 1..Len(p)
      BY <1>9, <1>12, <2>2
    <3>2. x = named[1] /\ named[1] \in ToSet(named)
      BY <1>7, <1>9, <1>11, <2>1, <3>1, ListFacts
    <3>3. \/ aIf /\ x = <<"block", 0>>
          \/ bIf /\ x = <<"transaction", 0>>
          \/ cIf /\ x = <<"block", 0>>
          \/ dIf /\ x = <<"address", 0>>
      BY <1>3, <1>7, <3>2
    <3>4. QED
      BY <1>1, <3>3
  <2>3. CASE Len(named) = 0
    <3>1. ToSet(named) = {}
      BY <1>12, <2>3 DEF ToSet
    <3>2. x \in ToSet(e) \cup ToSet(f)
      BY <1>9, <1>11, <2>1, <3>1
    <3>3. query.shape \notin {"hash", "address"}
      BY <1>13, <2>3
    <3>4. QED
      BY <1>6, <3>2, <3>3
  <2>4. QED
    BY <1>12, <2>2, <2>3
<1>16. QED
  BY <1>14, <1>15

\* What is offered to a query that is looked for by name.
LEMMA OfferedByName ==
  ASSUME CatalogOK, NEW node, query.shape \notin {"hash", "address"}
  PROVE  /\ IsList(SuggestName(node))
         /\ \A t \in ToSet(SearchTokens(Limit)) : <<"token", t>> \in ToSet(SuggestName(node))
         /\ ToSet(AnchoringHits(node, Limit)) \in SUBSET ToSet(SuggestName(node))
         /\ Len(SearchTokens(Limit)) <= Len(SuggestName(node))
         /\ Len(AnchoringHits(node, Limit)) <= Len(SuggestName(node))
<1> DEFINE tokens == SearchTokens(Limit)
           T == Each("token", tokens)
           A == AnchoringHits(node, Limit)
           P == Each("precompile", SearchNamed(Limit))
<1>1. Limit \in Nat
  BY SearchAssumption
<1>2. IsList(tokens) /\ IsList(T) /\ IsList(P)
  BY <1>1, FoundByName, EachFacts
<1>3. IsList(A)
  BY <1>1, AnchoringHitsGood DEF Good
<1>4. Len(T) = Len(tokens) /\ \A t \in ToSet(tokens) : <<"token", t>> \in ToSet(T)
  <2>1. Len(T) = Len(tokens) /\ \A k \in 1..Len(tokens) : T[k] = <<"token", tokens[k]>>
    BY <1>2, EachFacts
  <2> HIDE DEF T, tokens
  <2>2. DOMAIN tokens = 1..Len(tokens) /\ \A k \in 1..Len(T) : T[k] \in ToSet(T)
    BY <1>2, ListFacts
  <2>3. QED
    BY <2>1, <2>2 DEF ToSet
<1>5. SuggestName(node) = T \o A \o P
  BY DEF SuggestName
<1> HIDE DEF tokens, T, A, P
<1>6. IsList(T \o A) /\ ToSet(T \o A) = ToSet(T) \cup ToSet(A) /\ Len(T \o A) = Len(T) + Len(A)
  BY <1>2, <1>3, Joined, JoinedSet
<1>7. /\ IsList((T \o A) \o P) /\ ToSet((T \o A) \o P) = ToSet(T \o A) \cup ToSet(P)
      /\ Len((T \o A) \o P) = Len(T \o A) + Len(P)
  BY <1>2, <1>6, Joined, JoinedSet
<1>8. Len(T) \in Nat /\ Len(A) \in Nat /\ Len(P) \in Nat
  BY <1>2, <1>3, ListFacts
<1>9. QED
  BY <1>4, <1>5, <1>6, <1>7, <1>8 DEF tokens, A

\* What Enter finds is among what is suggested, or that is full.
LEMMA EnterFinds ==
  ASSUME CatalogOK, QueryOK, ~query.short, ~HashUnknown, ~BareHashKnown,
         NEW node, NEW x \in ToSet(SearchPage(node))
  PROVE  x \in ToSet(SearchSuggest(node)) \/ Len(SearchSuggest(node)) = Limit
<1> DEFINE isBlock == "block" \in indexed /\ query.shape \in {"number", "#number"}
           first == If(isBlock, "block")
           rest == CASE query.shape = "address" -> If("token" \in indexed, "token") \o <<<<"address", 0>>>>
                     [] query.shape = "hash" -> SuggestHash
                     [] OTHER -> SuggestName(node)
           whole == first \o rest
           byName == query.shape \notin {"hash", "address"}
<1>1. Limit \in Nat /\ 1 <= Limit /\ 1 \in Nat
  BY SearchAssumption
<1>2. SearchSuggest(node) = FirstOf(whole, Limit)
  BY DEF SearchSuggest
<1>3. isBlock \in BOOLEAN /\ IsList(first) /\ (isBlock => <<"block", 0>> \in ToSet(first))
  <2>1. isBlock \in BOOLEAN
    OBVIOUS
  <2> HIDE DEF isBlock
  <2>2. QED
    BY <2>1, IfFacts
<1>4. byName => rest = SuggestName(node)
  OBVIOUS
<1>5. query.shape = "hash" => rest = SuggestHash
  OBVIOUS
<1>6. query.shape = "address" => IsList(rest) /\ <<"address", 0>> \in ToSet(rest)
  <2> DEFINE s == <<<<"address", 0>>>>
             known == "token" \in indexed
             o == If(known, "token")
  <2>1. query.shape = "address" => rest = o \o s
    OBVIOUS
  <2>2. IsList(s) /\ <<"address", 0>> \in ToSet(s)
    BY Single
  <2>3. IsList(o)
    <3>1. known \in BOOLEAN
      OBVIOUS
    <3> HIDE DEF known
    <3>2. QED
      BY <3>1, IfFacts
  <2> HIDE DEF o, s, rest
  <2>4. IsList(o \o s) /\ ToSet(o \o s) = ToSet(o) \cup ToSet(s)
    BY <2>2, <2>3, Joined, JoinedSet
  <2>5. QED
    BY <2>1, <2>2, <2>4
<1>7. IsList(SuggestHash) /\ (IF "block" \in indexed THEN <<"block", 0>> ELSE <<"transaction", 0>>) \in ToSet(SuggestHash)
  <2>1. ASSUME NEW kind PROVE IsList(<<<<kind, 0>>>>) /\ <<kind, 0>> \in ToSet(<<<<kind, 0>>>>)
    BY Single
  <2>2. QED
    BY <2>1 DEF SuggestHash
<1>8. byName => IsList(SuggestName(node))
  BY OfferedByName
<1> HIDE DEF first, rest
<1>9. IsList(rest)
  BY <1>4, <1>5, <1>6, <1>7, <1>8
<1>10. IsList(whole) /\ ToSet(whole) = ToSet(first) \cup ToSet(rest) /\ Len(whole) = Len(first) + Len(rest)
  BY <1>3, <1>9, Joined, JoinedSet
<1>11. Len(first) \in Nat /\ Len(rest) \in Nat
  BY <1>3, <1>9, ListFacts
<1> HIDE DEF whole
\* It is enough that x is among what is to be offered, or that there is enough of it.
<1>12. (x \in ToSet(first) \cup ToSet(rest) \/ Limit <= Len(rest)) =>
          x \in ToSet(SearchSuggest(node)) \/ Len(SearchSuggest(node)) = Limit
  <2>1. /\ Len(SearchSuggest(node)) = IF Len(whole) < Limit THEN Len(whole) ELSE Limit
        /\ Len(SearchSuggest(node)) = Limit \/ ToSet(SearchSuggest(node)) = ToSet(whole)
    BY <1>1, <1>2, <1>10, AllOrFull
  <2>2. Limit <= Len(rest) => Len(SearchSuggest(node)) = Limit
    BY <1>1, <1>10, <1>11, <2>1
  <2>3. QED
    BY <1>10, <2>1, <2>2
<1>13. CASE ResolveSearch # <<>>
  <2>1. x \in ToSet(ResolveSearch)
    BY <1>13 DEF SearchPage
  <2>2. \/ x = <<"block", 0>> /\ "block" \in indexed /\ query.shape \in {"number", "hash"}
        \/ x = <<"transaction", 0>> /\ "block" \notin indexed /\ query.shape = "hash"
        \/ x = <<"address", 0>> /\ query.shape = "address"
        \/ byName /\ \E t \in ToSet(TokenBySymbolOrName) \cup ToSet(SearchTokens(1)) : x = <<"token", t>>
    BY <2>1, Resolves
  <2>3. CASE x = <<"block", 0>> /\ "block" \in indexed /\ query.shape \in {"number", "hash"}
    BY <1>3, <1>5, <1>7, <1>12, <2>3
  <2>4. CASE x = <<"transaction", 0>> /\ "block" \notin indexed /\ query.shape = "hash"
    BY <1>5, <1>7, <1>12, <2>4
  <2>5. CASE x = <<"address", 0>> /\ query.shape = "address"
    BY <1>6, <1>12, <2>5
  <2>6. CASE byName /\ \E t \in ToSet(TokenBySymbolOrName) \cup ToSet(SearchTokens(1)) : x = <<"token", t>>
    <3>1. PICK t \in ToSet(TokenBySymbolOrName) \cup ToSet(SearchTokens(1)) : x = <<"token", t>>
      BY <2>6
    <3>2. t \in ToSet(SearchTokens(Limit)) \/ Len(SearchTokens(Limit)) = Limit
      BY <1>1, <3>1, TokensOffered
    <3>3. x \in ToSet(rest) \/ Limit <= Len(rest)
      BY <1>4, <2>6, <3>1, <3>2, OfferedByName
    <3>4. QED
      BY <1>12, <3>3
  <2>7. QED
    BY <2>2, <2>3, <2>4, <2>5, <2>6
<1>14. CASE ResolveSearch = <<>>
  <2>1. x \in ToSet(AnchoringHits(node, 1))
    BY <1>14 DEF SearchPage
  <2>2. byName
    BY <1>14, Resolves
  <2>3. x \in ToSet(AnchoringHits(node, Limit)) \/ Len(AnchoringHits(node, Limit)) = Limit
    BY <1>1, <2>1, HitsOffered
  <2>4. x \in ToSet(rest) \/ Limit <= Len(rest)
    BY <1>4, <2>2, <2>3, OfferedByName
  <2>5. QED
    BY <1>12, <2>4
<1>15. QED
  BY <1>13, <1>14

\* What was shown and found, of an index and a contract that stayed.
EnterInv ==
    /\ QueryOK
    /\ box.pc \in {"typed", "entered"} /\ box.asked \in BOOLEAN /\ box.stale \in BOOLEAN
    /\ (box.asked /\ ~box.stale /\ query.field = "search") => box.list = SearchSuggest(box.node)
    /\ (box.pc = "entered" /\ ~box.stale /\ query.field = "search") => box.answer = SearchPage(box.then)

\* The same query to the same index, contract and node has the same answer.
LEMMA SameAnswer ==
  ASSUME UNCHANGED <<query, indexed, catalog>>
  PROVE  \A node : SearchSuggest(node)' = SearchSuggest(node) /\ SearchPage(node)' = SearchPage(node)
<1>1. ASSUME NEW node PROVE SearchSuggest(node)' = SearchSuggest(node)
  BY DEF SearchSuggest, If, SuggestHash, SuggestName, Each, SearchTokens, BetterToken, TokenTier, Row,
         AnchoringHits, Hits, AnchoringSearch, Matching, Lookup, Ranking, Registries, RegistryTier,
         BetterRegistry, SearchNamed
<1>2. ASSUME NEW node PROVE SearchPage(node)' = SearchPage(node)
  BY DEF SearchPage, ResolveSearch, TokenBySymbolOrName, If, Each, SearchTokens, BetterToken, TokenTier,
         Row, AnchoringHits, Hits, AnchoringSearch, Matching, Lookup, Ranking, Registries, RegistryTier,
         BetterRegistry
<1>3. QED
  BY <1>1, <1>2

\* At first nothing is shown or found.
LEMMA EnterStarts == SearchInit => EnterInv
<1>1. SUFFICES ASSUME SearchInit PROVE EnterInv
  OBVIOUS
<1>2. QueryOK
  BY <1>1 DEF SearchInit, QueryOK
<1>3. box.pc = "typed" /\ box.asked = FALSE /\ box.stale = FALSE
  BY <1>1 DEF SearchInit, Empty
<1>4. QED
  BY <1>2, <1>3 DEF EnterInv

\* Until something changes, shown and found are the searches of now.
LEMMA EnterKept == SearchInv /\ EnterInv /\ [SearchNext]_searchVars => EnterInv'
<1>1. SUFFICES ASSUME SearchInv, EnterInv, [SearchNext]_searchVars PROVE EnterInv'
  OBVIOUS
<1>2. BoxOK /\ QueryOK
  BY <1>1 DEF SearchInv, EnterInv
<1>3. ASSUME Changes, QueryOK' PROVE EnterInv'
  <2>1. box'.pc = "typed" /\ box'.asked \in BOOLEAN /\ box'.stale = TRUE
    BY <1>1, <1>2, <1>3 DEF Changes, BoxOK, BoxFields, EnterInv
  <2>2. QED
    BY <1>3, <2>1 DEF EnterInv
<1>4. CASE IndexNamed
  <2>1. UNCHANGED query /\ \E fact \in Named : indexed' = {fact}
    BY <1>4 DEF IndexNamed
  <2>2. QueryOK'
    BY <1>2, <2>1 DEF QueryOK, Named, Hashes
  <2>3. QED
    BY <1>3, <1>4, <2>2 DEF IndexNamed
<1>5. CASE IndexToken
  <2>1. QueryOK'
    BY <1>2, <1>5 DEF IndexToken, QueryOK, Named, Hashes
  <2>2. QED
    BY <1>3, <1>5, <2>1 DEF IndexToken
<1>6. CASE AddRegistry
  <2>1. QueryOK'
    BY <1>2, <1>6 DEF AddRegistry, QueryOK, Named, Hashes
  <2>2. QED
    BY <1>3, <1>6, <2>1 DEF AddRegistry
<1>7. CASE Suggest
  <2>1. PICK node \in Nodes :
          box' = [box EXCEPT !.asked = TRUE, !.node = node,
                    !.list = IF query.field = "search" THEN SearchSuggest(node)
                             ELSE AnchoringSuggest(node)]
    BY <1>7 DEF Suggest
  <2>2. UNCHANGED <<query, indexed, catalog>> /\ box.pc = "typed"
    BY <1>7 DEF Suggest
  <2>3. QueryOK'
    BY <1>2, <2>2 DEF QueryOK, Named, Hashes
  <2>4. /\ box'.pc = "typed" /\ box'.asked = TRUE /\ box'.stale \in BOOLEAN /\ box'.node = node
        /\ query.field = "search" => box'.list = SearchSuggest(node)
    BY <1>1, <1>2, <2>1, <2>2 DEF BoxOK, BoxFields, EnterInv
  <2>5. SearchSuggest(node)' = SearchSuggest(node)
    BY <2>2, SameAnswer
  <2>6. query'.field = "search" => box'.list = SearchSuggest(box.node)'
    <3>1. SearchSuggest(box.node)' = SearchSuggest(node)'
      BY <2>4
    <3>2. QED
      BY <2>2, <2>4, <2>5, <3>1
  <2>7. QED
    BY <2>3, <2>4, <2>6 DEF EnterInv
<1>8. CASE Enter
  <2>1. PICK node \in Nodes :
          box' = [box EXCEPT !.pc = "entered", !.then = node,
                    !.answer = IF query.field = "search" THEN SearchPage(node) ELSE AnchoringPage(node)]
    BY <1>8 DEF Enter
  <2>2. UNCHANGED <<query, indexed, catalog>>
    BY <1>8 DEF Enter
  <2>3. QueryOK'
    BY <1>2, <2>2 DEF QueryOK, Named, Hashes
  <2>4. /\ box'.pc = "entered" /\ box'.asked = box.asked /\ box'.stale = box.stale /\ box'.node = box.node
        /\ box'.then = node /\ box'.list = box.list
        /\ query.field = "search" => box'.answer = SearchPage(node)
    BY <1>2, <2>1 DEF BoxOK, BoxFields
  <2>5. SearchSuggest(box.node)' = SearchSuggest(box.node) /\ SearchPage(box.then)' = SearchPage(node)
    <3>1. SearchSuggest(box.node)' = SearchSuggest(box.node)
      BY <2>2, <2>4, SameAnswer
    <3>2. SearchPage(box.then)' = SearchPage(node)
      BY <2>2, <2>4, SameAnswer
    <3>3. QED
      BY <3>1, <3>2
  <2>6. box.asked \in BOOLEAN /\ box.stale \in BOOLEAN
        /\ ((box.asked /\ ~box.stale /\ query.field = "search") => box.list = SearchSuggest(box.node))
    BY <1>1 DEF EnterInv
  <2>7. QED
    BY <2>2, <2>3, <2>4, <2>5, <2>6 DEF EnterInv
<1>9. CASE UNCHANGED searchVars
  <2>1. UNCHANGED <<query, indexed, catalog, box>>
    BY <1>9 DEF searchVars
  <2>2. QueryOK'
    BY <1>2, <2>1 DEF QueryOK, Named, Hashes
  <2>3. SearchSuggest(box.node)' = SearchSuggest(box.node) /\ SearchPage(box.then)' = SearchPage(box.then)
    <3>1. SearchSuggest(box.node)' = SearchSuggest(box.node)
      BY <2>1, SameAnswer
    <3>2. SearchPage(box.then)' = SearchPage(box.then)
      BY <2>1, SameAnswer
    <3>3. QED
      BY <3>1, <3>2
  <2>4. QED
    BY <1>1, <2>1, <2>2, <2>3 DEF EnterInv
<1>10. QED
  BY <1>1, <1>4, <1>5, <1>6, <1>7, <1>8, <1>9 DEF SearchNext

\* So what was found is on offer.
LEMMA EnterIsOffered == SearchInv /\ EnterInv => EnterLeadsToASuggestion
<1>1. SUFFICES ASSUME SearchInv, EnterInv, Entered, ~box.stale, query.field = "search",
                      ~query.short, ~HashUnknown, ~BareHashKnown, Len(box.list) # Limit
               PROVE  ToSet(box.answer) \subseteq ToSet(box.list)
  BY DEF EnterLeadsToASuggestion
<1>2. CatalogOK /\ QueryOK
  BY <1>1 DEF SearchInv, EnterInv
<1>3. box.list = SearchSuggest(box.node) /\ box.answer = SearchPage(box.node)
  BY <1>1 DEF EnterInv, Entered
<1>4. ASSUME NEW x \in ToSet(SearchPage(box.node))
      PROVE  x \in ToSet(SearchSuggest(box.node)) \/ Len(SearchSuggest(box.node)) = Limit
  BY <1>1, <1>2, <1>4, EnterFinds
<1>5. QED
  BY <1>1, <1>3, <1>4

\* While index, contract and node stay, pressing Enter leads to one of the
\* suggestions, though suggestions and answer are searched for in different
\* orders and with different limits: but for a single character, a box with no
\* room left, a hash nothing is known by and a known hash typed without its 0x
\* (web.rs search_suggest, resolve_search; db.rs hex_blob).
THEOREM EnterIsSuggested == SearchSpec => []EnterLeadsToASuggestion
<1>1. SearchSpec => []SearchInv
  BY SearchStarts, SearchKept, PTL DEF SearchSpec
<1>2. SearchSpec => [](SearchInv /\ EnterInv)
  BY <1>1, EnterStarts, EnterKept, PTL DEF SearchSpec
<1>3. QED
  BY <1>2, EnterIsOffered, PTL
=============================================================================
