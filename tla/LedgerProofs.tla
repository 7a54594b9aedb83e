---------------------------- MODULE LedgerProofs ----------------------------
(***************************************************************************)
(* Theorems about the ledger, for every chain, page size, batch size and   *)
(* number of restarts.                                                     *)
(***************************************************************************)
EXTENDS Ledger, FiniteSetTheorems, TLAPS

-----------------------------------------------------------------------------
(***************************************************************************)
(* Sums of transfers.                                                      *)
(***************************************************************************)

LEMMA UnitsFinite ==
  ASSUME NEW S \in SUBSET Transfers, NEW k
  PROVE  /\ IsFiniteSet(Received(S, k)) /\ Cardinality(Received(S, k)) \in Nat
         /\ IsFiniteSet(Sent(S, k)) /\ Cardinality(Sent(S, k)) \in Nat
<1>1. IsFiniteSet(S)
  BY FS_Subset, ChainAssumption
<1>2. IsFiniteSet(1..MaxAmount)
  BY FS_Interval, ChainAssumption
<1>3. IsFiniteSet(S \X (1..MaxAmount))
  BY <1>1, <1>2, FS_Product
<1>4. Received(S, k) \in SUBSET (S \X (1..MaxAmount)) /\ Sent(S, k) \in SUBSET (S \X (1..MaxAmount))
  BY DEF Received, Sent
<1>5. QED
  BY <1>3, <1>4, FS_Subset, FS_CardinalityType

LEMMA NetType ==
  ASSUME NEW S \in SUBSET Transfers, NEW k
  PROVE  Net(S, k) \in Int
BY UnitsFinite DEF Net

LEMMA NetEmpty ==
  ASSUME NEW k
  PROVE  Net({}, k) = 0
<1>1. Received({}, k) = {} /\ Sent({}, k) = {}
  BY DEF Received, Sent
<1>2. QED
  BY <1>1, FS_EmptySet DEF Net

\* Disjoint sets of transfers add up.
LEMMA NetUnion ==
  ASSUME NEW S \in SUBSET Transfers, NEW T \in SUBSET Transfers, S \cap T = {}, NEW k
  PROVE  Net(S \cup T, k) = Net(S, k) + Net(T, k)
<1>1. /\ Received(S \cup T, k) = Received(S, k) \cup Received(T, k)
      /\ Received(S, k) \cap Received(T, k) = {}
  BY DEF Received
<1>2. /\ Sent(S \cup T, k) = Sent(S, k) \cup Sent(T, k)
      /\ Sent(S, k) \cap Sent(T, k) = {}
  BY DEF Sent
<1>3. /\ Cardinality(Received(S, k) \cup Received(T, k))
           = Cardinality(Received(S, k)) + Cardinality(Received(T, k))
             - Cardinality(Received(S, k) \cap Received(T, k))
      /\ Cardinality(Sent(S, k) \cup Sent(T, k))
           = Cardinality(Sent(S, k)) + Cardinality(Sent(T, k))
             - Cardinality(Sent(S, k) \cap Sent(T, k))
  BY UnitsFinite, FS_Union
<1>4. Cardinality({}) = 0
  BY FS_EmptySet
<1>5. /\ Cardinality(Received(S, k)) \in Nat /\ Cardinality(Received(T, k)) \in Nat
      /\ Cardinality(Sent(S, k)) \in Nat /\ Cardinality(Sent(T, k)) \in Nat
  BY UnitsFinite
<1>6. /\ Cardinality(Received(S \cup T, k))
           = Cardinality(Received(S, k)) + Cardinality(Received(T, k))
      /\ Cardinality(Sent(S \cup T, k)) = Cardinality(Sent(S, k)) + Cardinality(Sent(T, k))
  <2>1. /\ Cardinality(Received(S, k) \cap Received(T, k)) = 0
        /\ Cardinality(Sent(S, k) \cap Sent(T, k)) = 0
    BY <1>1, <1>2, <1>4, Zenon
  <2>2. /\ Cardinality(Received(S \cup T, k)) = Cardinality(Received(S, k) \cup Received(T, k))
        /\ Cardinality(Sent(S \cup T, k)) = Cardinality(Sent(S, k) \cup Sent(T, k))
    BY <1>1, <1>2, Zenon
  <2>3. QED
    BY <1>3, <1>5, <2>1, <2>2
<1>7. QED
  BY <1>5, <1>6 DEF Net

-----------------------------------------------------------------------------
(***************************************************************************)
(* Holder counts.                                                          *)
(***************************************************************************)

LEMMA HoldersFinite ==
  ASSUME NEW bal, NEW t
  PROVE  /\ IsFiniteSet(HoldersOf(bal, t))
         /\ Cardinality(HoldersOf(bal, t)) \in Nat
<1>1. HoldersOf(bal, t) \in SUBSET Address
  BY DEF HoldersOf
<1>2. QED
  BY <1>1, FS_Subset, FS_CardinalityType, ChainAssumption

\* A finite set that gains some members and loses others.
LEMMA GainAndLoss ==
  ASSUME NEW A, NEW B, IsFiniteSet(A), IsFiniteSet(B)
  PROVE  /\ Cardinality(B \ A) \in Nat /\ Cardinality(A \ B) \in Nat
         /\ Cardinality(B) = Cardinality(A) + Cardinality(B \ A) - Cardinality(A \ B)
<1>1. /\ IsFiniteSet(B \ A) /\ Cardinality(B \ A) = Cardinality(B) - Cardinality(B \cap A)
      /\ IsFiniteSet(A \ B) /\ Cardinality(A \ B) = Cardinality(A) - Cardinality(A \cap B)
  BY FS_Difference
<1>2. /\ Cardinality(A \cap B) \in Nat
      /\ Cardinality(B \cap A) = Cardinality(A \cap B)
  <2>1. A \cap B = B \cap A
    OBVIOUS
  <2>2. Cardinality(A \cap B) \in Nat
    BY FS_Intersection, FS_CardinalityType
  <2>3. QED
    BY <2>1, <2>2, Zenon
<1>3. Cardinality(A) \in Nat /\ Cardinality(B) \in Nat
  BY FS_CardinalityType
<1>4. Cardinality(B \ A) \in Nat /\ Cardinality(A \ B) \in Nat
  BY <1>1, FS_CardinalityType
<1>5. QED
  BY <1>1, <1>2, <1>3, <1>4

\* Moving the balances moves the counts with them, and nothing else.
LEMMA AdjustKeepsCounts ==
  ASSUME NEW d \in Database, NEW delta \in [Holding -> Int], HolderCountsOf(d)
  PROVE  LET e == AdjustBalances(d, delta)
         IN  /\ e \in Database
             /\ HolderCountsOf(e)
             /\ e.bal = [k \in Holding |-> d.bal[k] + delta[k]]
             /\ \A k \in Holding : e.bal[k] = d.bal[k] + delta[k]
             /\ e.blocks = d.blocks /\ e.txs = d.txs /\ e.id = d.id
             /\ e.lastId = d.lastId /\ e.meta = d.meta /\ e.genesis = d.genesis
             /\ e.cursor = d.cursor /\ e.nBlocks = d.nBlocks /\ e.nTxs = d.nTxs
<1> DEFINE bal == [k \in Holding |-> d.bal[k] + delta[k]]
           count == [t \in Token |->
                      IF t \in d.meta
                      THEN d.count[t] + Cardinality(HoldersOf(bal, t) \ HoldersOf(d.bal, t))
                           - Cardinality(HoldersOf(d.bal, t) \ HoldersOf(bal, t))
                      ELSE d.count[t]]
           e == AdjustBalances(d, delta)
<1>1. e = [d EXCEPT !.bal = bal, !.count = count]
  BY DEF AdjustBalances
<1>2. bal \in [Holding -> Int]
  BY DEF Database
<1>3. \A t \in Token :
        /\ Cardinality(HoldersOf(bal, t) \ HoldersOf(d.bal, t)) \in Nat
        /\ Cardinality(HoldersOf(d.bal, t) \ HoldersOf(bal, t)) \in Nat
        /\ Cardinality(HoldersOf(bal, t)) =
             Cardinality(HoldersOf(d.bal, t))
             + Cardinality(HoldersOf(bal, t) \ HoldersOf(d.bal, t))
             - Cardinality(HoldersOf(d.bal, t) \ HoldersOf(bal, t))
  <2> HIDE DEF bal
  <2> QED BY HoldersFinite, GainAndLoss
<1>4. count \in [Token -> Int]
  <2> HIDE DEF bal
  <2> QED BY <1>3 DEF Database
<1> HIDE DEF bal, count, e
<1>5. /\ e \in Database /\ e.bal = bal /\ e.count = count
      /\ e.blocks = d.blocks /\ e.txs = d.txs /\ e.id = d.id
      /\ e.lastId = d.lastId /\ e.meta = d.meta /\ e.genesis = d.genesis
      /\ e.cursor = d.cursor /\ e.nBlocks = d.nBlocks /\ e.nTxs = d.nTxs
  BY <1>1, <1>2, <1>4 DEF Database
<1>6. HolderCountsOf(e)
  BY <1>3, <1>5 DEF HolderCountsOf, count, Database
<1>7. QED
  BY <1>5, <1>6 DEF bal, e

-----------------------------------------------------------------------------
(***************************************************************************)
(* What the writers keep true of a database, and what one transaction may  *)
(* do to it.                                                               *)
(***************************************************************************)

\* Row ids run up to lastId, and the genesis cursor stays among them.
IdsOf(d) == d.cursor <= d.lastId /\ \A x \in Transfers : d.id[x] <= d.lastId

\* Rows the cursor has passed have both sides' genesis balances.
SettledOf(d) ==
  \A x \in Stored(d) : d.id[x] <= d.cursor => SeenHolders({x}) \subseteq d.genesis

Sound(d) == HolderCountsOf(d) /\ BalancesOf(d) /\ IdsOf(d) /\ SettledOf(d)

\* e is d with blocks written on top.
Extends(d, e) ==
  /\ d.blocks \subseteq e.blocks
  /\ d.meta \subseteq e.meta
  /\ e.genesis = d.genesis
  /\ e.cursor = d.cursor
  /\ d.lastId <= e.lastId
  /\ e.nBlocks = d.nBlocks
  /\ e.nTxs = d.nTxs
  /\ \A x \in Transfers : IF d.id[x] > 0 THEN e.id[x] = d.id[x]
                          ELSE e.id[x] = 0 \/ e.id[x] > d.lastId

LEMMA EmptyIsSound ==
  EmptyDatabase \in Database /\ Sound(EmptyDatabase)
<1>1. EmptyDatabase \in Database
  BY DEF EmptyDatabase, Database
<1>2. Stored(EmptyDatabase) = {}
  BY DEF Stored, EmptyDatabase
<1>3. HolderCountsOf(EmptyDatabase)
  BY DEF HolderCountsOf, EmptyDatabase
<1>4. BalancesOf(EmptyDatabase)
  BY <1>2, NetEmpty DEF BalancesOf, SumOf, EmptyDatabase
<1>5. IdsOf(EmptyDatabase) /\ SettledOf(EmptyDatabase)
  BY <1>2 DEF IdsOf, SettledOf, EmptyDatabase
<1>6. QED
  BY <1>1, <1>3, <1>4, <1>5 DEF Sound

\* The ids of the fresh rows follow the last one.
LEMMA InsertRows ==
  ASSUME NEW d \in Database, IdsOf(d), NEW fresh \in SUBSET (Transfers \ Stored(d))
  PROVE  LET e == InsertTransfers(d, fresh)
         IN  /\ e \in Database
             /\ IdsOf(e)
             /\ d.lastId <= e.lastId
             /\ \A x \in Transfers : IF x \in fresh THEN e.id[x] > d.lastId
                                     ELSE e.id[x] = d.id[x]
             /\ Stored(e) = Stored(d) \cup fresh
             /\ e.blocks = d.blocks /\ e.txs = d.txs /\ e.meta = d.meta
             /\ e.count = d.count /\ e.bal = d.bal /\ e.genesis = d.genesis
             /\ e.cursor = d.cursor /\ e.nBlocks = d.nBlocks /\ e.nTxs = d.nTxs
<1> DEFINE rank(x) == Cardinality({y \in fresh : y.log <= x.log})
           id == [x \in Transfers |-> IF x \in fresh THEN d.lastId + rank(x) ELSE d.id[x]]
           e == InsertTransfers(d, fresh)
<1>1. IsFiniteSet(fresh) /\ Cardinality(fresh) \in Nat
  BY FS_Subset, FS_CardinalityType, ChainAssumption
<1>2. \A x \in fresh : rank(x) \in Nat /\ rank(x) >= 1 /\ rank(x) <= Cardinality(fresh)
  <2>1. TAKE x \in fresh
  <2> DEFINE below == {y \in fresh : y.log <= x.log}
  <2>2. below \in SUBSET fresh /\ x \in below
    BY ChainAssumption DEF TransferLog
  <2>3. IsFiniteSet(below) /\ Cardinality(below) <= Cardinality(fresh)
    BY <1>1, <2>2, FS_Subset
  <2>4. Cardinality(below) \in Nat /\ Cardinality(below) # 0
    BY <2>2, <2>3, FS_CardinalityType, FS_EmptySet
  <2>5. QED
    BY <2>3, <2>4
<1>3. e = [d EXCEPT !.id = id, !.lastId = d.lastId + Cardinality(fresh)]
  BY DEF InsertTransfers
<1> HIDE DEF rank
<1>4. id \in [Transfers -> Nat]
  BY <1>2 DEF Database
<1>5. /\ e \in Database /\ e.id = id /\ e.lastId = d.lastId + Cardinality(fresh)
      /\ e.blocks = d.blocks /\ e.txs = d.txs /\ e.meta = d.meta
      /\ e.count = d.count /\ e.bal = d.bal /\ e.genesis = d.genesis
      /\ e.cursor = d.cursor /\ e.nBlocks = d.nBlocks /\ e.nTxs = d.nTxs
  <2> HIDE DEF id, e
  <2>1. d.lastId + Cardinality(fresh) \in Nat
    BY <1>1 DEF Database
  <2>2. QED
    BY <1>3, <1>4, <2>1 DEF Database
<1> HIDE DEF e
<1>6. \A x \in Transfers : IF x \in fresh THEN e.id[x] > d.lastId ELSE e.id[x] = d.id[x]
  BY <1>2, <1>5 DEF Database
<1>7. IdsOf(e) /\ d.lastId <= e.lastId
  BY <1>1, <1>2, <1>5 DEF IdsOf, Database
<1>8. Stored(e) = Stored(d) \cup fresh
  <2>1. \A x \in Transfers : e.id[x] > 0 <=> (d.id[x] > 0 \/ x \in fresh)
    <3> TAKE x \in Transfers
    <3>1. d.lastId \in Nat /\ d.id[x] \in Nat /\ e.id[x] \in Nat
      BY <1>5 DEF Database
    <3>2. QED
      BY <1>6, <3>1
  <2>2. QED
    BY <2>1 DEF Stored
<1>9. QED
  BY <1>5, <1>6, <1>7, <1>8 DEF e

\* A token's new row is born with the count its balances give it.
LEMMA UpsertKeepsCounts ==
  ASSUME NEW d \in Database, HolderCountsOf(d), NEW tokens \in SUBSET Token
  PROVE  LET e == UpsertMeta(d, tokens)
         IN  /\ e \in Database
             /\ HolderCountsOf(e)
             /\ e.meta = d.meta \cup tokens
             /\ e.blocks = d.blocks /\ e.txs = d.txs /\ e.id = d.id
             /\ e.lastId = d.lastId /\ e.bal = d.bal /\ e.genesis = d.genesis
             /\ e.cursor = d.cursor /\ e.nBlocks = d.nBlocks /\ e.nTxs = d.nTxs
<1> DEFINE count == [t \in Token |-> IF t \in tokens \ d.meta
                                     THEN Cardinality(HoldersOf(d.bal, t)) ELSE d.count[t]]
           e == UpsertMeta(d, tokens)
<1>1. e = [d EXCEPT !.meta = d.meta \cup tokens, !.count = count]
  BY DEF UpsertMeta
<1>2. count \in [Token -> Int]
  BY HoldersFinite DEF Database
<1> HIDE DEF count
<1>3. /\ e \in Database /\ e.meta = d.meta \cup tokens /\ e.count = count
      /\ e.blocks = d.blocks /\ e.txs = d.txs /\ e.id = d.id
      /\ e.lastId = d.lastId /\ e.bal = d.bal /\ e.genesis = d.genesis
      /\ e.cursor = d.cursor /\ e.nBlocks = d.nBlocks /\ e.nTxs = d.nTxs
  <2>1. d.meta \cup tokens \in SUBSET Token
    BY DEF Database
  <2>2. e \in Database /\ e.meta = d.meta \cup tokens /\ e.count = count
    BY <1>1, <1>2, <2>1 DEF Database
  <2>3. /\ e.blocks = d.blocks /\ e.txs = d.txs /\ e.id = d.id
        /\ e.lastId = d.lastId /\ e.bal = d.bal /\ e.genesis = d.genesis
    BY <1>1 DEF Database
  <2>4. e.cursor = d.cursor /\ e.nBlocks = d.nBlocks /\ e.nTxs = d.nTxs
    BY <1>1 DEF Database
  <2>5. QED
    BY <2>2, <2>3, <2>4
<1> HIDE DEF e
<1>4. HolderCountsOf(e)
  BY <1>3 DEF HolderCountsOf, count, Database
<1>5. QED
  BY <1>3, <1>4 DEF e

\* One block: counts, balances, ids and the settled rows stay sound, nothing
\* on record is lost, and the row counters are told what was added.
LEMMA WriteBlockSound ==
  ASSUME NEW d \in Database, Sound(d), NEW bundle \in Bundle
  PROVE  LET e == WriteBlock(d, bundle)
         IN  /\ e \in Database
             /\ Sound(e)
             /\ Extends(d, e)
             /\ e.blocks = d.blocks \cup {bundle.block}
             /\ e.txs = d.txs \cup TxsOf[bundle.block]
<1> DEFINE b == bundle.block
           fresh == bundle.transfers \ Stored(d)
           c == [d EXCEPT !.blocks = @ \cup {b}, !.txs = @ \cup TxsOf[b]]
           r == InsertTransfers(c, fresh)
           m == UpsertMeta(r, bundle.tokens)
           delta == [k \in Holding |-> Net(fresh, k)]
           e == WriteBlock(d, bundle)
<1>1. /\ b \in Block /\ bundle.transfers \in SUBSET Transfers
      /\ bundle.tokens \in SUBSET Token
  BY ChainAssumption DEF Bundle, LogsOf, TransferLog
<1>2. /\ c \in Database /\ c.blocks = d.blocks \cup {b} /\ c.txs = d.txs \cup TxsOf[b]
      /\ c.id = d.id /\ c.lastId = d.lastId /\ c.meta = d.meta /\ c.count = d.count
      /\ c.bal = d.bal /\ c.genesis = d.genesis /\ c.cursor = d.cursor
      /\ c.nBlocks = d.nBlocks /\ c.nTxs = d.nTxs
  BY <1>1, ChainAssumption DEF Database
<1> HIDE DEF b, c
<1>3. Stored(c) = Stored(d) /\ IdsOf(c)
  BY <1>2 DEF Stored, IdsOf, Sound
<1>4. fresh \in SUBSET (Transfers \ Stored(c))
  BY <1>1, <1>3
<1> HIDE DEF fresh
<1>5. /\ r \in Database /\ IdsOf(r) /\ c.lastId <= r.lastId
      /\ \A x \in Transfers : IF x \in fresh THEN r.id[x] > c.lastId ELSE r.id[x] = c.id[x]
      /\ Stored(r) = Stored(c) \cup fresh
      /\ r.blocks = c.blocks /\ r.txs = c.txs /\ r.meta = c.meta
      /\ r.count = c.count /\ r.bal = c.bal /\ r.genesis = c.genesis
      /\ r.cursor = c.cursor /\ r.nBlocks = c.nBlocks /\ r.nTxs = c.nTxs
  BY <1>2, <1>3, <1>4, InsertRows
<1> HIDE DEF r
<1>6. HolderCountsOf(r)
  BY <1>2, <1>5 DEF HolderCountsOf, Sound
<1>7. /\ m \in Database /\ HolderCountsOf(m) /\ m.meta = r.meta \cup bundle.tokens
      /\ m.blocks = r.blocks /\ m.txs = r.txs /\ m.id = r.id
      /\ m.lastId = r.lastId /\ m.bal = r.bal /\ m.genesis = r.genesis
      /\ m.cursor = r.cursor /\ m.nBlocks = r.nBlocks /\ m.nTxs = r.nTxs
  BY <1>1, <1>5, <1>6, UpsertKeepsCounts
<1> HIDE DEF m
<1>8. delta \in [Holding -> Int]
  BY <1>4, NetType
<1> HIDE DEF delta
<1>9. e = AdjustBalances(m, delta)
  BY DEF WriteBlock, m, r, c, b, fresh, delta
<1> HIDE DEF e
<1>10. /\ e \in Database /\ HolderCountsOf(e)
       /\ \A k \in Holding : e.bal[k] = m.bal[k] + delta[k]
       /\ e.blocks = m.blocks /\ e.txs = m.txs /\ e.id = m.id
       /\ e.lastId = m.lastId /\ e.meta = m.meta /\ e.genesis = m.genesis
       /\ e.cursor = m.cursor /\ e.nBlocks = m.nBlocks /\ e.nTxs = m.nTxs
  BY <1>7, <1>8, <1>9, AdjustKeepsCounts
<1>11. Stored(e) = Stored(d) \cup fresh /\ Stored(d) \cap fresh = {}
  BY <1>3, <1>4, <1>5, <1>7, <1>10 DEF Stored
<1>12. BalancesOf(e)
  <2> SUFFICES ASSUME NEW k \in Holding
               PROVE  e.bal[k] = SumOf(e, k)
    BY DEF BalancesOf
  <2>1. e.bal[k] = d.bal[k] + Net(fresh, k)
    BY <1>2, <1>5, <1>7, <1>10 DEF delta
  <2>2. d.bal[k] = SumOf(d, k) /\ e.genesis = d.genesis
    BY <1>2, <1>5, <1>7, <1>10 DEF Sound, BalancesOf
  <2>3. Stored(d) \in SUBSET Transfers /\ fresh \in SUBSET Transfers
    BY <1>4 DEF Stored
  <2>4. Net(Stored(e), k) = Net(Stored(d), k) + Net(fresh, k)
    BY <1>11, <2>3, NetUnion
  <2>5. Net(Stored(d), k) \in Int /\ Net(fresh, k) \in Int /\ GenesisBalance[k] \in Nat
    BY <2>3, NetType, ChainAssumption
  <2>6. QED
    BY <2>1, <2>2, <2>4, <2>5 DEF SumOf
<1>13. IdsOf(e)
  BY <1>5, <1>7, <1>10 DEF IdsOf
<1>14. Extends(d, e)
  <2>1. \A x \in Transfers : IF d.id[x] > 0 THEN e.id[x] = d.id[x]
                            ELSE e.id[x] = 0 \/ e.id[x] > d.lastId
    <3> TAKE x \in Transfers
    <3>1. IF x \in fresh THEN e.id[x] > d.lastId ELSE e.id[x] = d.id[x]
      BY <1>2, <1>5, <1>7, <1>10
    <3>2. x \in fresh => ~(d.id[x] > 0)
      BY <1>11 DEF Stored
    <3>3. d.id[x] \in Nat
      BY DEF Database
    <3>4. QED
      BY <3>1, <3>2, <3>3
  <2>2. QED
    BY <1>2, <1>5, <1>7, <1>10, <2>1 DEF Extends
<1>15. SettledOf(e)
  <2> SUFFICES ASSUME NEW x \in Stored(e), e.id[x] <= e.cursor
               PROVE  SeenHolders({x}) \subseteq e.genesis
    BY DEF SettledOf
  <2>1. /\ e.cursor = d.cursor /\ e.genesis = d.genesis /\ x \in Transfers
        /\ d.cursor <= d.lastId /\ d.cursor \in Nat /\ d.lastId \in Nat
        /\ d.id[x] \in Nat /\ e.id[x] \in Nat /\ e.id[x] > 0
    BY <1>10, <1>14 DEF Extends, Sound, IdsOf, Database, Stored
  <2>2. IF d.id[x] > 0 THEN e.id[x] = d.id[x] ELSE e.id[x] = 0 \/ e.id[x] > d.lastId
    BY <1>14, <2>1 DEF Extends
  <2>3. d.id[x] > 0 /\ e.id[x] = d.id[x]
    BY <2>1, <2>2
  <2>4. QED
    BY <2>1, <2>3 DEF Sound, SettledOf, Stored
<1>16. QED
  BY <1>2, <1>5, <1>7, <1>10, <1>12, <1>13, <1>14, <1>15 DEF Sound, b, e

\* A page of genesis balances: added once each, and the cursor moves over
\* rows the page or an earlier one settled.
LEMMA SaveGenesisSound ==
  ASSUME NEW d \in Database, Sound(d), NEW holders \in SUBSET Holding, NEW cursor \in Nat,
         cursor <= d.lastId,
         \A x \in Stored(d) :
           d.id[x] <= cursor => SeenHolders({x}) \subseteq d.genesis \cup holders
  PROVE  LET e == SaveGenesis(d, holders, cursor)
         IN  /\ e \in Database
             /\ Sound(e)
             /\ e.genesis = d.genesis \cup holders /\ e.cursor = cursor
             /\ e.id = d.id /\ e.lastId = d.lastId /\ e.blocks = d.blocks /\ e.txs = d.txs
             /\ e.meta = d.meta /\ e.nBlocks = d.nBlocks /\ e.nTxs = d.nTxs
<1> DEFINE added == holders \ d.genesis
           delta == [k \in Holding |-> IF k \in added THEN GenesisBalance[k] ELSE 0]
           m == AdjustBalances(d, delta)
           e == SaveGenesis(d, holders, cursor)
<1>1. delta \in [Holding -> Int]
  BY ChainAssumption
<1>2. e = [m EXCEPT !.genesis = @ \cup added, !.cursor = cursor]
  BY DEF SaveGenesis
<1> HIDE DEF delta, e
<1>3. /\ m \in Database /\ HolderCountsOf(m)
      /\ \A k \in Holding : m.bal[k] = d.bal[k] + delta[k]
      /\ m.blocks = d.blocks /\ m.txs = d.txs /\ m.id = d.id
      /\ m.lastId = d.lastId /\ m.meta = d.meta /\ m.genesis = d.genesis
      /\ m.cursor = d.cursor /\ m.nBlocks = d.nBlocks /\ m.nTxs = d.nTxs
  BY <1>1, AdjustKeepsCounts DEF Sound
<1> HIDE DEF m
<1>4. /\ e \in Database /\ e.genesis = d.genesis \cup holders /\ e.cursor = cursor
      /\ e.bal = m.bal /\ e.count = m.count
      /\ e.id = d.id /\ e.lastId = d.lastId /\ e.blocks = d.blocks /\ e.txs = d.txs
      /\ e.meta = d.meta /\ e.nBlocks = d.nBlocks /\ e.nTxs = d.nTxs
  BY <1>2, <1>3 DEF Database
<1>5. HolderCountsOf(e)
  BY <1>3, <1>4 DEF HolderCountsOf
<1>6. Stored(e) = Stored(d)
  BY <1>4 DEF Stored
<1>7. BalancesOf(e)
  <2> SUFFICES ASSUME NEW k \in Holding
               PROVE  e.bal[k] = SumOf(e, k)
    BY DEF BalancesOf
  <2>1. e.bal[k] = SumOf(d, k) + delta[k]
    BY <1>3, <1>4 DEF Sound, BalancesOf
  <2>2. Net(Stored(d), k) \in Int /\ GenesisBalance[k] \in Nat
    BY NetType, ChainAssumption DEF Stored
  <2>3. CASE k \in added
    BY <1>4, <1>6, <2>1, <2>2, <2>3 DEF SumOf, delta
  <2>4. CASE k \notin added
    BY <1>4, <1>6, <2>1, <2>2, <2>4 DEF SumOf, delta
  <2>5. QED
    BY <2>3, <2>4
<1>8. IdsOf(e) /\ SettledOf(e)
  BY <1>4, <1>6 DEF IdsOf, SettledOf, Sound
<1>9. QED
  BY <1>4, <1>5, <1>7, <1>8 DEF Sound, e

LEMMA RecountSound ==
  ASSUME NEW d \in Database, NEW tokens
  PROVE  LET e == Recount(d, tokens)
         IN  /\ e \in Database
             /\ \A t \in Token : e.count[t] = IF t \in tokens \cap d.meta
                                             THEN Cardinality(HoldersOf(d.bal, t))
                                             ELSE d.count[t]
             /\ e.bal = d.bal /\ e.genesis = d.genesis /\ e.cursor = d.cursor
             /\ e.id = d.id /\ e.lastId = d.lastId /\ e.blocks = d.blocks /\ e.txs = d.txs
             /\ e.meta = d.meta /\ e.nBlocks = d.nBlocks /\ e.nTxs = d.nTxs
<1> DEFINE count == [t \in Token |-> IF t \in tokens \cap d.meta
                                     THEN Cardinality(HoldersOf(d.bal, t)) ELSE d.count[t]]
<1>1. count \in [Token -> Int]
  BY HoldersFinite DEF Database
<1> HIDE DEF count
<1>2. Recount(d, tokens) = [d EXCEPT !.count = count]
  BY DEF Recount, count
<1>3. QED
  BY <1>1, <1>2 DEF Database, count

\* Both repairs leave a sound database as it is, balance for balance.
LEMMA RepairSound ==
  ASSUME NEW d \in Database, Sound(d), NEW e, e \in {RebuildBalances(d), SyncHolderCounts(d)}
  PROVE  /\ e \in Database
         /\ Sound(e)
         /\ e.bal = d.bal /\ e.genesis = d.genesis /\ e.cursor = d.cursor
         /\ e.id = d.id /\ e.lastId = d.lastId /\ e.blocks = d.blocks /\ e.txs = d.txs
         /\ e.meta = d.meta /\ e.nBlocks = d.nBlocks /\ e.nTxs = d.nTxs
<1>1. [k \in Holding |-> SumOf(d, k)] = d.bal
  BY DEF Sound, BalancesOf, Database
<1>2. [d EXCEPT !.bal = [k \in Holding |-> SumOf(d, k)]] = d
  BY <1>1 DEF Database
<1>3. PICK tokens : e = Recount(d, tokens)
  BY <1>2 DEF RebuildBalances, SyncHolderCounts
<1>4. /\ e \in Database
      /\ \A t \in Token : e.count[t] = IF t \in tokens \cap d.meta
                                      THEN Cardinality(HoldersOf(d.bal, t))
                                      ELSE d.count[t]
      /\ e.bal = d.bal /\ e.genesis = d.genesis /\ e.cursor = d.cursor
      /\ e.id = d.id /\ e.lastId = d.lastId /\ e.blocks = d.blocks /\ e.txs = d.txs
      /\ e.meta = d.meta /\ e.nBlocks = d.nBlocks /\ e.nTxs = d.nTxs
  BY <1>3, RecountSound
<1>5. HolderCountsOf(e)
  BY <1>4 DEF HolderCountsOf, Sound, Database
<1>6. Stored(e) = Stored(d)
  BY <1>4 DEF Stored
<1>7. BalancesOf(e) /\ IdsOf(e) /\ SettledOf(e)
  BY <1>4, <1>6 DEF BalancesOf, SumOf, IdsOf, SettledOf, Sound
<1>8. QED
  BY <1>4, <1>5, <1>7 DEF Sound

-----------------------------------------------------------------------------
(***************************************************************************)
(* The inductive invariant.                                                *)
(***************************************************************************)

CountersOf ==
  /\ db.nBlocks = Cardinality(db.blocks) /\ db.nTxs = Cardinality(db.txs)
  /\ txn.view.nBlocks + txn.blocks = Cardinality(txn.view.blocks)
  /\ txn.view.nTxs + txn.txs = Cardinality(txn.view.txs)

\* A page in flight reaches no further than the rows on record, and with what
\* it carries every row below its cursor would be settled.
PageOK ==
  page # NoPage =>
    /\ db.cursor <= page.cursor /\ page.cursor <= db.lastId
    /\ \A x \in Stored(db) :
         db.id[x] <= page.cursor => SeenHolders({x}) \subseteq db.genesis \cup page.holders

IInv ==
  /\ TypeOK
  /\ Sound(db)
  /\ Sound(txn.view)
  /\ txn.open => Extends(db, txn.view)
  /\ CountersOf
  /\ PageOK

LEMMA FiniteRows ==
  ASSUME NEW d \in Database
  PROVE  /\ IsFiniteSet(d.blocks) /\ IsFiniteSet(d.txs)
         /\ \A b \in Block : IsFiniteSet(TxsOf[b])
BY FS_Subset, ChainAssumption DEF Database

\* What write_block adds to the counters is what it adds to the tables.
LEMMA AddedRows ==
  ASSUME NEW d \in Database, NEW bundle \in Bundle
  PROVE  /\ AddedBlocks(d, bundle) \in Int /\ AddedTxs(d, bundle) \in Int
         /\ Cardinality(d.blocks) \in Int /\ Cardinality(d.txs) \in Int
         /\ Cardinality(d.blocks \cup {bundle.block})
              = Cardinality(d.blocks) + AddedBlocks(d, bundle)
         /\ Cardinality(d.txs \cup TxsOf[bundle.block])
              = Cardinality(d.txs) + AddedTxs(d, bundle)
<1> DEFINE b == bundle.block
           T == TxsOf[b]
           held == {h \in d.txs : h \in T}
<1>1. b \in Block
  BY DEF Bundle
<1>2. IsFiniteSet(d.blocks) /\ IsFiniteSet(d.txs) /\ IsFiniteSet(T)
  BY <1>1, FiniteRows
<1>3. /\ Cardinality(d.blocks) \in Nat /\ Cardinality(d.txs) \in Nat /\ Cardinality(T) \in Nat
  BY <1>2, FS_CardinalityType
<1>4. Cardinality(d.blocks \cup {b}) = Cardinality(d.blocks) + AddedBlocks(d, bundle)
  <2>1. Cardinality(d.blocks \cup {b}) = IF b \in d.blocks THEN Cardinality(d.blocks)
                                         ELSE Cardinality(d.blocks) + 1
    BY <1>2, FS_AddElement
  <2>2. AddedBlocks(d, bundle) = IF b \in d.blocks THEN 0 ELSE 1
    BY DEF AddedBlocks
  <2> HIDE DEF b
  <2>3. QED
    BY <1>3, <2>1, <2>2
<1>5. AddedBlocks(d, bundle) \in Int
  BY DEF AddedBlocks
<1> HIDE DEF T
<1>6. held = d.txs \cap T /\ held \in SUBSET T
  OBVIOUS
<1>7. Cardinality(held) \in Nat /\ Cardinality(held) <= Cardinality(T)
  BY <1>2, <1>6, FS_Subset, FS_CardinalityType
<1>8. Cardinality(d.txs \cup T) = Cardinality(d.txs) + Cardinality(T) - Cardinality(held)
  BY <1>2, <1>6, FS_Union
<1> HIDE DEF held
<1>9. AddedTxs(d, bundle) = Cardinality(T) - Cardinality(held)
  <2>1. AddedTxs(d, bundle) = IF Cardinality(T) - Cardinality(held) > 0
                              THEN Cardinality(T) - Cardinality(held) ELSE 0
    BY DEF AddedTxs, T, held
  <2>2. QED
    BY <1>3, <1>7, <2>1
<1>10. QED
  BY <1>3, <1>4, <1>5, <1>7, <1>8, <1>9 DEF T

LEMMA InitInv == Init => IInv
<1> SUFFICES ASSUME Init PROVE IInv
  OBVIOUS
<1> USE DEF Init
<1>1. TypeOK
  BY EmptyIsSound DEF TypeOK, NoTxn, NoPage, Page
<1>2. Sound(db) /\ Sound(txn.view) /\ ~txn.open
  BY EmptyIsSound DEF NoTxn
<1>3. CountersOf
  BY FS_EmptySet DEF CountersOf, NoTxn, EmptyDatabase
<1>4. PageOK
  BY DEF PageOK
<1>5. QED
  BY <1>1, <1>2, <1>3, <1>4 DEF IInv

\* One case per action; a case names the parts of the invariant its action can
\* disturb.
LEMMA StepInv == IInv /\ [Next]_vars => IInv'
<1> SUFFICES ASSUME IInv, [Next]_vars PROVE IInv'
  OBVIOUS
<1>0. /\ db \in Database /\ Sound(db) /\ Sound(txn.view) /\ txn.view \in Database
      /\ TypeOK /\ CountersOf /\ PageOK /\ (txn.open => Extends(db, txn.view))
  BY DEF IInv, TypeOK
<1>n. /\ NoTxn \in [open : BOOLEAN, view : Database, size : Nat, blocks : Int, txs : Int]
      /\ Sound(NoTxn.view) /\ ~NoTxn.open
      /\ NoTxn.view.nBlocks + NoTxn.blocks = Cardinality(NoTxn.view.blocks)
      /\ NoTxn.view.nTxs + NoTxn.txs = Cardinality(NoTxn.view.txs)
  BY EmptyIsSound, FS_EmptySet DEF NoTxn, EmptyDatabase
<1>p. NoPage \in Page
  BY DEF NoPage, Page
<1>1. CASE BeginBatch
  <2>1. /\ UNCHANGED <<db, page, repair, restarts>>
        /\ txn' = [open |-> TRUE, view |-> db, size |-> 0, blocks |-> 0, txs |-> 0]
    BY <1>1 DEF BeginBatch
  <2>2. TypeOK'
    BY <1>0, <2>1 DEF TypeOK
  <2>3. Extends(db, db)
    BY <1>0 DEF Extends, Database
  <2>4. CountersOf' /\ PageOK' /\ Sound(db)' /\ Sound(txn.view)'
    BY <1>0, <2>1 DEF CountersOf, PageOK, Database
  <2>5. (txn.open => Extends(db, txn.view))'
    BY <2>1, <2>3
  <2>6. QED
    BY <2>2, <2>4, <2>5 DEF IInv
<1>2. CASE \E bundle \in Bundle : WriteBundle(bundle)
  <2> PICK bundle \in Bundle : WriteBundle(bundle)
    BY <1>2
  <2> DEFINE d == txn.view
             e == WriteBlock(d, bundle)
  <2>1. /\ UNCHANGED <<db, page, repair, restarts>> /\ txn.open
        /\ txn' = [txn EXCEPT !.view = e, !.size = @ + 1,
                              !.blocks = @ + AddedBlocks(d, bundle),
                              !.txs = @ + AddedTxs(d, bundle)]
    BY DEF WriteBundle
  <2>2. /\ e \in Database /\ Sound(e) /\ Extends(d, e)
        /\ e.blocks = d.blocks \cup {bundle.block} /\ e.txs = d.txs \cup TxsOf[bundle.block]
    BY <1>0, WriteBlockSound
  <2>3. /\ AddedBlocks(d, bundle) \in Int /\ AddedTxs(d, bundle) \in Int
        /\ Cardinality(d.blocks) \in Int /\ Cardinality(d.txs) \in Int
        /\ Cardinality(e.blocks) = Cardinality(d.blocks) + AddedBlocks(d, bundle)
        /\ Cardinality(e.txs) = Cardinality(d.txs) + AddedTxs(d, bundle)
    BY <1>0, <2>2, AddedRows
  <2> HIDE DEF e
  <2>4. /\ txn'.view = e /\ txn'.open = txn.open
        /\ txn'.blocks = txn.blocks + AddedBlocks(d, bundle)
        /\ txn'.txs = txn.txs + AddedTxs(d, bundle)
    BY <1>0, <2>1 DEF TypeOK
  <2>5. TypeOK'
    <3> DEFINE nb == txn.blocks + AddedBlocks(d, bundle)
               nt == txn.txs + AddedTxs(d, bundle)
               n  == txn.size + 1
    <3>1. nb \in Int /\ nt \in Int /\ n \in Nat
      BY <1>0, <2>3 DEF TypeOK
    <3>2. txn' = [txn EXCEPT !.view = e, !.size = n, !.blocks = nb, !.txs = nt]
      BY <2>1
    <3> HIDE DEF nb, nt, n, d
    <3>3. txn' \in [open : BOOLEAN, view : Database, size : Nat, blocks : Int, txs : Int]
      BY <1>0, <2>2, <3>1, <3>2 DEF TypeOK
    <3>4. QED
      BY <1>0, <2>1, <3>3 DEF TypeOK
  <2>6. CountersOf'
    <3>1. e.nBlocks = d.nBlocks /\ e.nTxs = d.nTxs
      BY <2>2 DEF Extends
    <3>2. d.nBlocks \in Int /\ d.nTxs \in Int /\ txn.blocks \in Int /\ txn.txs \in Int
      BY <1>0 DEF TypeOK, Database
    <3>3. QED
      BY <1>0, <2>1, <2>3, <2>4, <3>1, <3>2 DEF CountersOf
  <2>7. Extends(db, e)
    <3>1. Extends(db, d)
      BY <1>0, <2>1
    <3>2. \A x \in Transfers : db.id[x] \in Nat /\ d.id[x] \in Nat /\ e.id[x] \in Nat
      BY <1>0, <2>2 DEF Database
    <3>3. db.lastId \in Nat /\ d.lastId \in Nat /\ e.lastId \in Nat
      BY <1>0, <2>2 DEF Database
    <3> HIDE DEF d
    <3>4. \A x \in Transfers : IF db.id[x] > 0 THEN e.id[x] = db.id[x]
                              ELSE e.id[x] = 0 \/ e.id[x] > db.lastId
      <4> TAKE x \in Transfers
      <4>1. IF db.id[x] > 0 THEN d.id[x] = db.id[x] ELSE d.id[x] = 0 \/ d.id[x] > db.lastId
        BY <3>1 DEF Extends
      <4>2. IF d.id[x] > 0 THEN e.id[x] = d.id[x] ELSE e.id[x] = 0 \/ e.id[x] > d.lastId
        BY <2>2 DEF Extends
      <4>3. db.lastId <= d.lastId
        BY <3>1 DEF Extends
      <4>4. QED
        BY <3>2, <3>3, <4>1, <4>2, <4>3
    <3>5. db.lastId <= e.lastId
      BY <2>2, <3>1, <3>3 DEF Extends
    <3>6. QED
      BY <2>2, <3>1, <3>4, <3>5 DEF Extends
  <2>8. PageOK' /\ Sound(db)' /\ Sound(txn.view)'
    BY <1>0, <2>1, <2>2, <2>4 DEF PageOK
  <2>9. (txn.open => Extends(db, txn.view))'
    BY <2>1, <2>4, <2>7
  <2>10. QED
    BY <2>5, <2>6, <2>8, <2>9 DEF IInv
<1>3. CASE CommitBatch
  <2> DEFINE d == txn.view
  <2>1. /\ db' = [d EXCEPT !.nBlocks = @ + txn.blocks, !.nTxs = @ + txn.txs]
        /\ txn' = NoTxn /\ UNCHANGED <<page, repair, restarts>> /\ txn.open
    BY <1>3 DEF CommitBatch
  <2>2. /\ db' \in Database /\ db'.nBlocks = d.nBlocks + txn.blocks
        /\ db'.nTxs = d.nTxs + txn.txs /\ db'.id = d.id /\ db'.lastId = d.lastId
        /\ db'.meta = d.meta /\ db'.count = d.count /\ db'.bal = d.bal
        /\ db'.genesis = d.genesis /\ db'.cursor = d.cursor
        /\ db'.blocks = d.blocks /\ db'.txs = d.txs
    <3> DEFINE nb == d.nBlocks + txn.blocks
               nt == d.nTxs + txn.txs
    <3>1. d \in Database /\ d.nBlocks \in Int /\ d.nTxs \in Int
          /\ txn.blocks \in Int /\ txn.txs \in Int
      BY <1>0 DEF TypeOK, Database
    <3>2. nb \in Int /\ nt \in Int
      BY <3>1
    <3>3. db' = [d EXCEPT !.nBlocks = nb, !.nTxs = nt]
      BY <2>1
    <3> HIDE DEF nb, nt, d
    <3>4. db' \in Database /\ db'.nBlocks = nb /\ db'.nTxs = nt
          /\ db'.id = d.id /\ db'.lastId = d.lastId
          /\ db'.meta = d.meta /\ db'.count = d.count /\ db'.bal = d.bal
          /\ db'.genesis = d.genesis /\ db'.cursor = d.cursor
          /\ db'.blocks = d.blocks /\ db'.txs = d.txs
      BY <3>1, <3>2, <3>3 DEF Database
    <3>5. QED
      BY <3>4 DEF nb, nt
  <2>3. TypeOK'
    BY <1>0, <1>n, <2>1, <2>2 DEF TypeOK
  <2>4. Stored(db') = Stored(d)
    BY <2>2 DEF Stored
  <2>5. Sound(db')
    BY <1>0, <2>2, <2>4 DEF Sound, HolderCountsOf, BalancesOf, SumOf, IdsOf, SettledOf
  <2>6. CountersOf'
    BY <1>0, <1>n, <2>1, <2>2 DEF CountersOf
  <2>7. PageOK'
    <3>1. Extends(db, d)
      BY <1>0, <2>1
    <3>2. SUFFICES ASSUME page # NoPage
                   PROVE  /\ db'.cursor <= page.cursor /\ page.cursor <= db'.lastId
                          /\ \A x \in Stored(db') :
                               db'.id[x] <= page.cursor =>
                                 SeenHolders({x}) \subseteq db'.genesis \cup page.holders
      BY <2>1 DEF PageOK
    <3>3. /\ db.lastId \in Nat /\ d.lastId \in Nat /\ page.cursor \in Nat
          /\ db.cursor <= page.cursor /\ page.cursor <= db.lastId
      BY <1>0, <3>2 DEF TypeOK, PageOK, Page, Database
    <3>4. ASSUME NEW x \in Stored(db'), db'.id[x] <= page.cursor
          PROVE  SeenHolders({x}) \subseteq db'.genesis \cup page.holders
      <4>1. x \in Transfers /\ d.id[x] > 0 /\ d.id[x] <= page.cursor
        BY <2>2, <2>4, <3>4 DEF Stored
      <4>2. d.id[x] \in Nat /\ db.id[x] \in Nat
        BY <1>0, <4>1 DEF Database
      <4>3. IF db.id[x] > 0 THEN d.id[x] = db.id[x] ELSE d.id[x] = 0 \/ d.id[x] > db.lastId
        BY <3>1, <4>1 DEF Extends
      <4>4. db.id[x] > 0 /\ db.id[x] <= page.cursor
        BY <3>3, <4>1, <4>2, <4>3
      <4>5. SeenHolders({x}) \subseteq db.genesis \cup page.holders
        BY <1>0, <3>2, <4>1, <4>4 DEF PageOK, Stored
      <4>6. QED
        BY <2>2, <3>1, <4>5 DEF Extends
    <3>5. db'.cursor = db.cursor /\ db.lastId <= db'.lastId /\ db'.lastId \in Nat
      BY <2>2, <3>1 DEF Extends, Database
    <3>6. QED
      BY <3>3, <3>4, <3>5
  <2>8. Sound(txn.view)' /\ (txn.open => Extends(db, txn.view))'
    BY <1>n, <2>1
  <2>9. QED
    BY <2>3, <2>5, <2>6, <2>7, <2>8 DEF IInv
<1>4. CASE AbortBatch
  BY <1>0, <1>n, <1>4 DEF AbortBatch, IInv, TypeOK, CountersOf, PageOK
<1>5. CASE ReadGenesisPage
  <2> PICK last \in PageOf(db) :
        /\ \A x \in PageOf(db) : db.id[x] <= db.id[last]
        /\ page' = [holders |-> SeenHolders(PageOf(db)) \ db.genesis, cursor |-> db.id[last]]
    BY <1>5 DEF ReadGenesisPage
  <2>1. UNCHANGED <<db, txn, repair, restarts>>
    BY <1>5 DEF ReadGenesisPage
  <2>2. /\ last \in Transfers /\ db.id[last] \in Nat /\ db.id[last] > db.cursor
        /\ db.id[last] <= db.lastId /\ db.cursor \in Nat
    BY <1>0 DEF PageOf, Stored, Database, Sound, IdsOf
  <2>3. page' \in Page
    BY <2>2 DEF Page, SeenHolders
  <2>4. ASSUME NEW x \in Stored(db), db.id[x] <= db.id[last]
        PROVE  SeenHolders({x}) \subseteq db.genesis \cup page'.holders
    <3>1. x \in Transfers /\ db.id[x] \in Nat
      BY <1>0 DEF Stored, Database
    <3>2. CASE db.id[x] <= db.cursor
      BY <1>0, <3>2 DEF Sound, SettledOf
    <3>3. CASE db.id[x] > db.cursor
      <4> DEFINE upTo(z) == {y \in Stored(db) : db.cursor < db.id[y] /\ db.id[y] <= db.id[z]}
      <4>1. upTo(x) \in SUBSET upTo(last)
        <5>1. \A y \in Stored(db) : db.id[y] \in Nat
          BY <1>0 DEF Stored, Database
        <5>2. QED
          BY <2>2, <2>4, <3>1, <5>1
      <4>2. IsFiniteSet(upTo(last))
        BY FS_Subset, ChainAssumption DEF Stored
      <4>3. IsFiniteSet(upTo(x)) /\ Cardinality(upTo(x)) <= Cardinality(upTo(last))
        BY <4>1, <4>2, FS_Subset
      <4>4. Cardinality(upTo(x)) \in Nat /\ Cardinality(upTo(last)) \in Nat
        BY <4>2, <4>3, FS_CardinalityType
      <4>5. Cardinality(upTo(last)) <= PageLimit
        BY DEF PageOf
      <4>6. Cardinality(upTo(x)) <= PageLimit
        BY <4>3, <4>4, <4>5, ChainAssumption
      <4>7. x \in PageOf(db)
        BY <3>3, <4>6 DEF PageOf
      <4>8. SeenHolders({x}) \subseteq SeenHolders(PageOf(db))
        BY <4>7 DEF SeenHolders
      <4>9. QED
        BY <4>8
    <3>4. QED
      BY <2>2, <3>1, <3>2, <3>3
  <2>5. PageOK'
    BY <2>1, <2>2, <2>4 DEF PageOK
  <2>6. TypeOK' /\ CountersOf'
    BY <1>0, <2>1, <2>3 DEF TypeOK, CountersOf
  <2>7. QED
    BY <1>0, <2>1, <2>5, <2>6 DEF IInv
<1>6. CASE SaveGenesisPage
  <2>1. /\ page # NoPage /\ ~txn.open /\ db' = SaveGenesis(db, page.holders, page.cursor)
        /\ page' = NoPage /\ UNCHANGED <<txn, repair, restarts>>
    BY <1>6 DEF SaveGenesisPage, Unlocked
  <2>2. page.holders \in SUBSET Holding /\ page.cursor \in Nat
    BY <1>0 DEF TypeOK, Page
  <2>3. /\ page.cursor <= db.lastId
        /\ \A x \in Stored(db) :
             db.id[x] <= page.cursor => SeenHolders({x}) \subseteq db.genesis \cup page.holders
    BY <1>0, <2>1 DEF PageOK
  <2>4. /\ db' \in Database /\ Sound(db') /\ db'.blocks = db.blocks /\ db'.txs = db.txs
        /\ db'.nBlocks = db.nBlocks /\ db'.nTxs = db.nTxs
    <3>1. db \in Database /\ Sound(db)
      BY <1>0 DEF TypeOK
    <3> DEFINE e == SaveGenesis(db, page.holders, page.cursor)
    <3>2. /\ e \in Database /\ Sound(e) /\ e.blocks = db.blocks /\ e.txs = db.txs
          /\ e.nBlocks = db.nBlocks /\ e.nTxs = db.nTxs
      BY <2>2, <2>3, <3>1, SaveGenesisSound
    <3> HIDE DEF e
    <3>3. db' = e
      BY <2>1 DEF e
    <3>4. QED
      BY <3>2, <3>3
  <2>5. TypeOK' /\ CountersOf' /\ PageOK'
    BY <1>0, <1>p, <2>1, <2>4 DEF TypeOK, CountersOf, PageOK
  <2>6. QED
    BY <1>0, <2>1, <2>4, <2>5 DEF IInv
<1>7. CASE LoseGenesisPage
  <2>1. page' = NoPage /\ UNCHANGED <<db, txn, repair, restarts>>
    BY <1>7 DEF LoseGenesisPage
  <2>2. TypeOK'
    BY <1>0, <1>p, <2>1 DEF TypeOK
  <2>3. CountersOf' /\ PageOK'
    BY <1>0, <2>1 DEF CountersOf, PageOK
  <2>4. QED
    BY <1>0, <2>1, <2>2, <2>3 DEF IInv
<1>8. CASE ReadTables
  <2>1. UNCHANGED <<db, txn, page, restarts>>
    BY <1>8 DEF ReadTables
  <2>2. repair' \in {"start", "rebuild", "sync", "done", "failed"}
    BY <1>8 DEF ReadTables
  <2>3. QED
    BY <1>0, <2>1, <2>2 DEF IInv, TypeOK, CountersOf, PageOK
<1>9. CASE Repair
  <2>1. /\ db' \in {RebuildBalances(db), SyncHolderCounts(db)} /\ repair' = "done" /\ ~txn.open
        /\ UNCHANGED <<txn, page, restarts>>
    BY <1>9 DEF Repair, Unlocked
  <2>2. /\ db' \in Database /\ Sound(db') /\ db'.genesis = db.genesis /\ db'.cursor = db.cursor
        /\ db'.id = db.id /\ db'.lastId = db.lastId /\ db'.blocks = db.blocks /\ db'.txs = db.txs
        /\ db'.nBlocks = db.nBlocks /\ db'.nTxs = db.nTxs
    BY <1>0, <2>1, RepairSound
  <2>3. Stored(db') = Stored(db)
    BY <2>2 DEF Stored
  <2>4. TypeOK' /\ CountersOf' /\ PageOK'
    BY <1>0, <2>1, <2>2, <2>3 DEF TypeOK, CountersOf, PageOK
  <2>5. QED
    BY <1>0, <2>1, <2>2, <2>4 DEF IInv
<1>10. CASE RepairFails
  BY <1>0, <1>10 DEF RepairFails, IInv, TypeOK, CountersOf, PageOK
<1>11. CASE Restart
  <2>1. restarts' \in Nat
    BY <1>0, <1>11 DEF Restart, TypeOK
  <2>2. QED
    BY <1>0, <1>n, <1>p, <1>11, <2>1 DEF Restart, IInv, TypeOK, CountersOf, PageOK
<1>12. CASE UNCHANGED vars
  BY <1>0, <1>12 DEF vars, IInv, TypeOK, CountersOf, PageOK
<1>13. QED
  BY <1>1, <1>2, <1>3, <1>4, <1>5, <1>6, <1>7, <1>8, <1>9, <1>10, <1>11, <1>12 DEF Next

LEMMA Invariance == Spec => []IInv
BY InitInv, StepInv, PTL DEF Spec

-----------------------------------------------------------------------------
(***************************************************************************)
(* What the ledger keeps true.                                             *)
(***************************************************************************)

\* The committed database, an open transaction's view of it and a genesis page
\* in flight keep their types.
THEOREM TypeCorrect == Spec => []TypeOK
<1>1. IInv => TypeOK
  BY DEF IInv
<1>2. QED
  BY <1>1, Invariance, PTL

\* Counts moved a transfer or a genesis balance at a time
\* (add_to_holder_counts) are the counts a recount (update_holder_count) gives,
\* for every chain and every order of arrival.
THEOREM CountsAreExact == Spec => []HolderCountsExact
<1>1. IInv => HolderCountsExact
  BY DEF IInv, Sound, HolderCountsExact
<1>2. QED
  BY <1>1, Invariance, PTL

\* No transfer and no genesis balance is applied twice or left out, whatever
\* the rewrites, rollbacks, restarts and repairs.
THEOREM BalancesAreExact == Spec => []BalancesExact
<1>1. IInv => BalancesExact
  BY DEF IInv, Sound, BalancesExact
<1>2. QED
  BY <1>1, Invariance, PTL

\* The counters save_block_bundles keeps are the row counts.
THEOREM CountersAreExact == Spec => []CountersExact
<1>1. IInv => CountersExact
  BY DEF IInv, CountersOf, CountersExact
<1>2. QED
  BY <1>1, Invariance, PTL

\* The holders the pass asks for on account of a transfer are its sides.
LEMMA SeenAreSides ==
  ASSUME NEW x \in Transfers
  PROVE  SeenHolders({x}) = Sides(x)
<1>1. x.token \in Token /\ x.from \in Address /\ x.to \in Address
  BY ChainAssumption DEF TransferLog
<1>2. Sides(x) \subseteq SeenHolders({x})
  BY <1>1 DEF Sides, SeenHolders, Holding
<1>3. ASSUME NEW k \in SeenHolders({x}) PROVE k \in Sides(x)
  <2>1. k \in Token \X Address /\ k[1] = x.token /\ k[2] \in {x.from, x.to} \ {ZeroAddress}
    BY DEF SeenHolders, Holding
  <2>2. k = <<x.token, k[2]>>
    BY <2>1
  <2>3. QED
    BY <2>1, <2>2 DEF Sides
<1>4. QED
  BY <1>2, <1>3

\* The genesis pass never leaves behind a holder it has not settled, though a
\* batch may commit between its read and its write.
THEOREM CursorIsSettled == Spec => []CursorSettled
<1>1. IInv => CursorSettled
  BY SeenAreSides DEF IInv, Sound, SettledOf, CursorSettled, Stored
<1>2. QED
  BY <1>1, Invariance, PTL

\* A caught-up database holds the chain's own balances.
THEOREM CaughtUpIsExact == Spec => []CaughtUpIsTheChain
<1>1. ASSUME IInv PROVE CaughtUpIsTheChain
  <2> SUFFICES ASSUME CaughtUp(db), NEW k \in Seen(db)
               PROVE  db.bal[k] = ChainBalance(k) /\ db.bal[k] >= 0
    BY DEF CaughtUpIsTheChain
  <2>1. db \in Database /\ Sound(db)
    BY <1>1 DEF IInv, TypeOK
  <2>2. PICK x \in Stored(db) : k \in SeenHolders({x})
    BY SeenAreSides DEF Seen, Stored
  <2>3. db.id[x] <= db.cursor
    BY <2>1 DEF CaughtUp, Sound, IdsOf, Stored
  <2>4. k \in db.genesis
    BY <2>1, <2>2, <2>3 DEF Sound, SettledOf
  <2>5. k \in Holding /\ k[2] # ZeroAddress
    BY <2>2 DEF SeenHolders
  <2>6. db.bal[k] = Net(Transfers, k) + GenesisBalance[k]
    BY <2>1, <2>4, <2>5 DEF Sound, BalancesOf, SumOf, CaughtUp
  <2>7. Net(Transfers, k) \in Int /\ GenesisBalance[k] \in Nat
    BY <2>5, NetType, ChainAssumption
  <2>8. GenesisBalance[k] + Net(Transfers, k) >= 0
    BY <2>5, SolventAssumption
  <2>9. QED
    BY <2>6, <2>7, <2>8 DEF ChainBalance
<1>2. QED
  BY <1>1, Invariance, PTL

\* Every transaction of every writer keeps what is settled.
THEOREM NothingIsForgotten == Spec => NothingForgotten
<1> DEFINE Kept ==
      /\ db.blocks \subseteq db'.blocks
      /\ \A x \in Stored(db) : db'.id[x] = db.id[x]
      /\ db.meta \subseteq db'.meta
      /\ db.genesis \subseteq db'.genesis
      /\ db.cursor <= db'.cursor /\ db'.cursor <= db'.lastId
<1>1. ASSUME IInv, [Next]_vars PROVE Kept
  <2>1. /\ db \in Database /\ Sound(db) /\ txn.view \in Database /\ Sound(txn.view)
        /\ (txn.open => Extends(db, txn.view)) /\ PageOK /\ page \in Page
        /\ txn.blocks \in Int /\ txn.txs \in Int
    BY <1>1 DEF IInv, TypeOK
  <2>2. CASE CommitBatch
    <3>1. Extends(db, txn.view)
      BY <2>1, <2>2 DEF CommitBatch
    <3>2. /\ db'.blocks = txn.view.blocks /\ db'.id = txn.view.id /\ db'.meta = txn.view.meta
          /\ db'.genesis = txn.view.genesis /\ db'.cursor = txn.view.cursor
          /\ db'.lastId = txn.view.lastId
      BY <2>1, <2>2 DEF CommitBatch, Database
    <3>3. txn.view.cursor <= txn.view.lastId
      BY <2>1 DEF Sound, IdsOf
    <3>4. db.cursor <= db'.cursor /\ db.cursor \in Nat
      BY <2>1, <3>1, <3>2 DEF Extends, Database
    <3>5. QED
      BY <3>1, <3>2, <3>3, <3>4 DEF Extends, Stored
  <2>3. CASE SaveGenesisPage
    <3>1. page # NoPage /\ db' = SaveGenesis(db, page.holders, page.cursor)
      BY <2>3 DEF SaveGenesisPage
    <3>2. /\ db.cursor <= page.cursor /\ page.cursor <= db.lastId
          /\ \A x \in Stored(db) :
               db.id[x] <= page.cursor => SeenHolders({x}) \subseteq db.genesis \cup page.holders
      BY <2>1, <3>1 DEF PageOK
    <3>3. page.holders \in SUBSET Holding /\ page.cursor \in Nat
      BY <2>1 DEF Page
    <3>4. /\ db'.genesis = db.genesis \cup page.holders /\ db'.cursor = page.cursor
          /\ db'.id = db.id /\ db'.lastId = db.lastId /\ db'.blocks = db.blocks
          /\ db'.meta = db.meta
      <4>1. page.cursor <= db.lastId
        BY <3>2
      <4>2. LET e == SaveGenesis(db, page.holders, page.cursor)
            IN  /\ e.genesis = db.genesis \cup page.holders /\ e.cursor = page.cursor
                /\ e.id = db.id /\ e.lastId = db.lastId /\ e.blocks = db.blocks
                /\ e.meta = db.meta
        BY <2>1, <3>2, <3>3, <4>1, SaveGenesisSound
      <4>3. QED
        BY <3>1, <4>2
    <3>5. db.cursor <= page.cursor /\ page.cursor <= db.lastId
      BY <3>2
    <3>6. QED
      BY <3>4, <3>5
  <2>4. CASE Repair
    <3>1. db' \in {RebuildBalances(db), SyncHolderCounts(db)}
      BY <2>4 DEF Repair
    <3>2. /\ db'.genesis = db.genesis /\ db'.cursor = db.cursor /\ db'.id = db.id
          /\ db'.lastId = db.lastId /\ db'.blocks = db.blocks /\ db'.meta = db.meta
      BY <2>1, <3>1, RepairSound
    <3>3. QED
      BY <2>1, <3>2 DEF Sound, IdsOf, Database
  <2>5. CASE UNCHANGED db
    BY <2>1, <2>5 DEF Sound, IdsOf, Database
  <2>6. QED
    BY <1>1, <2>2, <2>3, <2>4, <2>5
    DEF Next, vars, BeginBatch, WriteBundle, AbortBatch, ReadGenesisPage,
        LoseGenesisPage, ReadTables, RepairFails, Restart
<1> HIDE DEF Kept
<1>2. IInv /\ [Next]_vars => [Kept]_vars
  BY <1>1
<1> USE DEF Kept
<1>3. QED
  BY <1>2, Invariance, PTL DEF Spec, NothingForgotten

=============================================================================
