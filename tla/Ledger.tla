------------------------------- MODULE Ledger -------------------------------
(***************************************************************************)
(* The SQLite store of the explorer (src/db.rs) as its writers see it: the *)
(* block writer, the genesis pass and the start-up repair, each taking the *)
(* one connection's lock for a transaction.                                *)
(*                                                                         *)
(* A database is a record; what a transaction does to it is a pure         *)
(* operator on that record, so the same operator serves the committed      *)
(* database and the working copy of an open transaction.                   *)
(***************************************************************************)
EXTENDS Integers, FiniteSets

CONSTANTS
  Block,           \* block numbers of the chain
  Tx,              \* transaction hashes
  Token,           \* token contracts
  Address,         \* accounts, the zero address among them
  ZeroAddress,     \* models::ZERO_ADDRESS: the far side of a mint or a burn
  Transfers,       \* the chain's Transfer logs, as records (see TransferLog)
  TxsOf,           \* the transactions of each block
  FeeTokensOf,     \* the tokens each block's transactions pay their fees in
  MaxAmount,       \* the largest amount a log carries (2^256 - 1 on chain)
  GenesisBalance,  \* balanceOf at block 0, per token and holder
  PageLimit,       \* rows the genesis pass reads at a time (1000 in the code)
  BatchLimit,      \* blocks one commit may carry (MAX_BATCH, 64 in the code)
  RestartLimit     \* bound: how often the process may restart

Holding == Token \X Address

TransferLog == [block: Block, log: Nat, token: Token,
                from: Address, to: Address, amount: 0..MaxAmount]

ASSUME ChainAssumption ==
  /\ ZeroAddress \in Address
  /\ IsFiniteSet(Address)
  /\ IsFiniteSet(Transfers)
  /\ IsFiniteSet(Tx)
  /\ IsFiniteSet(Block)
  /\ Transfers \subseteq TransferLog
  /\ \A x, y \in Transfers : x.block = y.block /\ x.log = y.log => x = y
  /\ TxsOf \in [Block -> SUBSET Tx]
  /\ \A b, c \in Block : b # c => TxsOf[b] \cap TxsOf[c] = {}
  /\ FeeTokensOf \in [Block -> SUBSET Token]
  /\ GenesisBalance \in [Holding -> Nat]
  /\ MaxAmount \in Nat
  /\ PageLimit \in Nat \ {0}
  /\ BatchLimit \in Nat \ {0}
  /\ RestartLimit \in Nat

-----------------------------------------------------------------------------
(***************************************************************************)
(* Balances.                                                               *)
(***************************************************************************)

\* The units of its token a set of transfers brings to a holding, and takes
\* from it: unit i of transfer x is the pair <<x, i>>.
Received(S, k) ==
  {u \in S \X (1..MaxAmount) :
     u[1].token = k[1] /\ u[1].to = k[2] /\ u[2] <= u[1].amount}

Sent(S, k) ==
  {u \in S \X (1..MaxAmount) :
     u[1].token = k[1] /\ u[1].from = k[2] /\ u[2] <= u[1].amount}

\* What the transfers add to the holding, netted.
Net(S, k) == Cardinality(Received(S, k)) - Cardinality(Sent(S, k))

\* The chain is one: nobody but the zero address ends with less than nothing.
ASSUME SolventAssumption ==
  \A k \in Holding : k[2] # ZeroAddress => GenesisBalance[k] + Net(Transfers, k) >= 0

\* The holders a listing counts: a negative balance is not a holding, and a
\* balance of zero has no row.
HoldersOf(bal, t) == {h \in Address : bal[<<t, h>>] > 0}

\* Tokens with a row in token_balances.
TokensHeld(bal) == {t \in Token : \E h \in Address : bal[<<t, h>>] # 0}

-----------------------------------------------------------------------------
(***************************************************************************)
(* The database.  id[x] is the row id of transfer x, 0 while it has none;  *)
(* count[t] is token_metadata.holder_count, meaningful once t \in meta; a  *)
(* balance of 0 is an absent row.                                          *)
(***************************************************************************)
Database ==
  [blocks  : SUBSET Block,
   txs     : SUBSET Tx,
   id      : [Transfers -> Nat],
   lastId  : Nat,
   meta    : SUBSET Token,
   count   : [Token -> Int],
   bal     : [Holding -> Int],
   genesis : SUBSET Holding,
   cursor  : Nat,
   nBlocks : Int,
   nTxs    : Int]

\* The transfers on record.
Stored(d) == {x \in Transfers : d.id[x] > 0}

EmptyDatabase ==
  [blocks |-> {}, txs |-> {}, id |-> [x \in Transfers |-> 0], lastId |-> 0,
   meta |-> {}, count |-> [t \in Token |-> 0],
   bal |-> [k \in Holding |-> 0], genesis |-> {}, cursor |-> 0,
   nBlocks |-> 0, nTxs |-> 0]

\* Give the fresh transfers the next row ids, in the order of their logs.
InsertTransfers(d, fresh) ==
  [d EXCEPT
     !.id = [x \in Transfers |->
               IF x \in fresh
               THEN d.lastId + Cardinality({y \in fresh : y.log <= x.log})
               ELSE d.id[x]],
     !.lastId = @ + Cardinality(fresh)]

\* Slip: a new row starts at no holders, though balances came before it.
UpsertMetaAtZero(d, tokens) ==
  [d EXCEPT !.meta  = @ \cup tokens,
            !.count = [t \in Token |-> IF t \in tokens \ d.meta THEN 0 ELSE d.count[t]]]

\* A token's new row counts the holders its balances already give it; a row
\* that exists keeps its count.
UpsertMeta(d, tokens) ==
  [d EXCEPT
     !.meta  = @ \cup tokens,
     !.count = [t \in Token |-> IF t \in tokens \ d.meta
                                THEN Cardinality(HoldersOf(d.bal, t))
                                ELSE d.count[t]]]

\* Move balances by delta, and the count of each described token by the
\* holders it gained and lost.
AdjustBalances(d, delta) ==
  LET bal == [k \in Holding |-> d.bal[k] + delta[k]]
      gained(t) == HoldersOf(bal, t) \ HoldersOf(d.bal, t)
      lost(t)   == HoldersOf(d.bal, t) \ HoldersOf(bal, t)
  IN  [d EXCEPT
         !.bal   = bal,
         !.count = [t \in Token |->
                      IF t \in d.meta
                      THEN d.count[t] + Cardinality(gained(t)) - Cardinality(lost(t))
                      ELSE d.count[t]]]

-----------------------------------------------------------------------------
(***************************************************************************)
(* What the fetch loops hand the writer: a block, the transfers decoded    *)
(* from the receipts the node gave for it, and the metadata it answered    *)
(* with for some of the tokens the block mentions.                         *)
(***************************************************************************)
LogsOf(b) == {x \in Transfers : x.block = b}

Bundle ==
  UNION {[block     : {b},
          transfers : SUBSET LogsOf(b),
          tokens    : SUBSET (FeeTokensOf[b] \cup {x.token : x \in LogsOf(b)})]
           : b \in Block}

\* Slip: a rewritten block moves the balances again.
WriteBlockTwice(d, bundle) ==
  LET b     == bundle.block
      fresh == bundle.transfers \ Stored(d)
      rows  == InsertTransfers([d EXCEPT !.blocks = @ \cup {b},
                                         !.txs = @ \cup TxsOf[b]], fresh)
  IN  AdjustBalances(UpsertMeta(rows, bundle.tokens),
                     [k \in Holding |-> Net(bundle.transfers, k)])

\* One block's rows.  Only transfers not on record are inserted and move
\* balances; metadata goes in before the balances move.
WriteBlock(d, bundle) ==
  LET b     == bundle.block
      fresh == bundle.transfers \ Stored(d)
      rows  == InsertTransfers([d EXCEPT !.blocks = @ \cup {b},
                                         !.txs = @ \cup TxsOf[b]], fresh)
  IN  AdjustBalances(UpsertMeta(rows, bundle.tokens),
                     [k \in Holding |-> Net(fresh, k)])

\* What the block adds to the row counters: a rewrite counts neither the
\* block nor the transactions it held.
AddedBlocks(d, bundle) == IF bundle.block \in d.blocks THEN 0 ELSE 1

\* Slip: every transaction of the block counts, held or not.
AddedTxsAnew(d, bundle) == Cardinality(TxsOf[bundle.block])

AddedTxs(d, bundle) ==
  LET held == Cardinality({h \in d.txs : h \in TxsOf[bundle.block]})
      more == Cardinality(TxsOf[bundle.block]) - held
  IN  IF more > 0 THEN more ELSE 0

\* The genesis pass: rows past the cursor, at most PageLimit of them.
PageOf(d) == {x \in Stored(d) : /\ d.id[x] > d.cursor
                                /\ Cardinality({y \in Stored(d) :
                                     d.cursor < d.id[y] /\ d.id[y] <= d.id[x]}) <= PageLimit}

\* Slip: the page asks for the senders only.
SeenSenders(page) ==
  {k \in Holding : k[2] # ZeroAddress /\ \E x \in page : x.token = k[1] /\ k[2] = x.from}

SeenHolders(page) ==
  {k \in Holding : /\ k[2] # ZeroAddress
                   /\ \E x \in page : x.token = k[1] /\ k[2] \in {x.from, x.to}}

\* Slips: the balances are recorded and never added; the cursor stays where it
\* was; the pass forgets who was settled before.
SaveGenesisUnadded(d, holders, cursor) ==
  [d EXCEPT !.genesis = @ \cup holders, !.cursor = cursor]

SaveGenesisInPlace(d, holders, cursor) ==
  LET added == holders \ d.genesis
  IN  [AdjustBalances(d, [k \in Holding |-> IF k \in added
                                            THEN GenesisBalance[k] ELSE 0])
       EXCEPT !.genesis = @ \cup added]

SaveGenesisAfresh(d, holders, cursor) ==
  [d EXCEPT !.genesis = holders, !.cursor = cursor]

\* Store the genesis balances not stored yet, add them to their holders', and
\* move the cursor.
SaveGenesis(d, holders, cursor) ==
  LET added == holders \ d.genesis
  IN  [AdjustBalances(d, [k \in Holding |-> IF k \in added
                                            THEN GenesisBalance[k] ELSE 0])
       EXCEPT !.genesis = @ \cup added, !.cursor = cursor]

\* The balances the transfers and genesis balances on record add up to.
SumOf(d, k) == Net(Stored(d), k) + (IF k \in d.genesis THEN GenesisBalance[k] ELSE 0)

Recount(d, tokens) ==
  [d EXCEPT !.count = [t \in Token |-> IF t \in tokens \cap d.meta
                                       THEN Cardinality(HoldersOf(d.bal, t))
                                       ELSE d.count[t]]]

RebuildBalances(d) ==
  Recount([d EXCEPT !.bal = [k \in Holding |-> SumOf(d, k)]],
          {x.token : x \in Stored(d)} \cup {k[1] : k \in d.genesis})

SyncHolderCounts(d) == Recount(d, TokensHeld(d.bal))

-----------------------------------------------------------------------------
VARIABLES
  db,        \* the committed database
  txn,       \* the writer's open transaction: its view and the rows it added
  page,      \* the genesis pass between its read and its write
  repair,    \* where the start-up repair stands
  restarts   \* bound: restarts so far

vars == <<db, txn, page, repair, restarts>>

NoTxn  == [open |-> FALSE, view |-> EmptyDatabase, size |-> 0, blocks |-> 0, txs |-> 0]
NoPage == [holders |-> {}, cursor |-> 0]

\* Nobody holds the connection across steps but the writer.
Unlocked == ~txn.open

Init ==
  /\ db = EmptyDatabase
  /\ txn = NoTxn
  /\ page = NoPage
  /\ repair = "start"
  /\ restarts = 0

BeginBatch ==
  /\ Unlocked
  /\ txn' = [open |-> TRUE, view |-> db, size |-> 0, blocks |-> 0, txs |-> 0]
  /\ UNCHANGED <<db, page, repair, restarts>>

WriteBundle(bundle) ==
  /\ txn.open
  /\ txn.size < BatchLimit
  /\ txn' = [txn EXCEPT !.view   = WriteBlock(@, bundle),
                        !.size   = @ + 1,
                        !.blocks = @ + AddedBlocks(txn.view, bundle),
                        !.txs    = @ + AddedTxs(txn.view, bundle)]
  /\ UNCHANGED <<db, page, repair, restarts>>

CommitBatch ==
  /\ txn.open
  /\ txn.size > 0
  /\ db' = [txn.view EXCEPT !.nBlocks = @ + txn.blocks, !.nTxs = @ + txn.txs]
  /\ txn' = NoTxn
  /\ UNCHANGED <<page, repair, restarts>>

\* A statement failed: the transaction is dropped, and rolls back.
AbortBatch ==
  /\ txn.open
  /\ txn' = NoTxn
  /\ UNCHANGED <<db, page, repair, restarts>>

\* The genesis pass reads a page, asks the node without the lock ...
ReadGenesisPage ==
  /\ Unlocked
  /\ page = NoPage
  /\ \E last \in PageOf(db) :
       /\ \A x \in PageOf(db) : db.id[x] <= db.id[last]
       /\ page' = [holders |-> SeenHolders(PageOf(db)) \ db.genesis,
                   cursor  |-> db.id[last]]
  /\ UNCHANGED <<db, txn, repair, restarts>>

\* ... and writes what it answered.
SaveGenesisPage ==
  /\ Unlocked
  /\ page # NoPage
  /\ db' = SaveGenesis(db, page.holders, page.cursor)
  /\ page' = NoPage
  /\ UNCHANGED <<txn, repair, restarts>>

\* The node did not answer, or the write failed: the next pass reads again.
LoseGenesisPage ==
  /\ page # NoPage
  /\ page' = NoPage
  /\ UNCHANGED <<db, txn, repair, restarts>>

\* The repair looks at the tables under the lock, and lets go of it ...
ReadTables ==
  /\ Unlocked
  /\ repair = "start"
  /\ repair' = CASE TokensHeld(db.bal) # {} -> "sync"
                 [] TokensHeld(db.bal) = {} /\ Stored(db) # {} -> "rebuild"
                 [] OTHER -> "done"
  /\ UNCHANGED <<db, txn, page, restarts>>

\* ... before it takes it again to recompute.
Repair ==
  /\ Unlocked
  /\ repair \in {"rebuild", "sync"}
  /\ db' = IF repair = "rebuild" THEN RebuildBalances(db) ELSE SyncHolderCounts(db)
  /\ repair' = "done"
  /\ UNCHANGED <<txn, page, restarts>>

\* It rolled back, with a warning and nothing more.
RepairFails ==
  /\ repair \in {"rebuild", "sync"}
  /\ repair' = "failed"
  /\ UNCHANGED <<db, txn, page, restarts>>

\* The process dies and starts again: what was not committed is gone.
Restart ==
  /\ restarts < RestartLimit
  /\ restarts' = restarts + 1
  /\ txn' = NoTxn
  /\ page' = NoPage
  /\ repair' = "start"
  /\ UNCHANGED db

Next ==
  \/ BeginBatch
  \/ \E bundle \in Bundle : WriteBundle(bundle)
  \/ CommitBatch
  \/ AbortBatch
  \/ ReadGenesisPage
  \/ SaveGenesisPage
  \/ LoseGenesisPage
  \/ ReadTables
  \/ Repair
  \/ RepairFails
  \/ Restart

Spec == Init /\ [][Next]_vars

-----------------------------------------------------------------------------
(***************************************************************************)
(* Scheduling.  The lock is a mutex nobody keeps: the writer commits or    *)
(* rolls back, and a task that keeps asking for the lock gets it (SF).     *)
(* The node answers the genesis pass every now and then (SF of the save).  *)
(***************************************************************************)
Fairness ==
  /\ WF_vars(CommitBatch \/ AbortBatch)
  /\ SF_vars(ReadGenesisPage)
  /\ SF_vars(SaveGenesisPage)

FairSpec == Spec /\ Fairness

-----------------------------------------------------------------------------
(***************************************************************************)
(* Properties.                                                             *)
(***************************************************************************)
Page == [holders : SUBSET Holding, cursor : Nat]

TypeOK ==
  /\ db \in Database
  /\ txn \in [open : BOOLEAN, view : Database, size : Nat, blocks : Int, txs : Int]
  /\ page \in Page
  /\ repair \in {"start", "rebuild", "sync", "done", "failed"}
  /\ restarts \in Nat

HolderCountsOf(d) == \A t \in d.meta : d.count[t] = Cardinality(HoldersOf(d.bal, t))

BalancesOf(d) == \A k \in Holding : d.bal[k] = SumOf(d, k)

\* The holder counts kept by moving them (apply_transfer_balances,
\* save_genesis_balances) are the ones a recount would give, in the committed
\* database and at every point of a transaction, whatever the order in which
\* a token's metadata, its transfers and its genesis balances arrive.
HolderCountsExact == HolderCountsOf(db) /\ (txn.open => HolderCountsOf(txn.view))

\* Every balance is the sum of the transfers and the genesis balance on
\* record: a rewritten block, an aborted batch, a genesis page read before a
\* batch and saved after it, or a rebuild, applies nothing twice and skips
\* nothing (insert_transfer, save_genesis_balances, rebuild_token_balances).
BalancesExact == BalancesOf(db) /\ (txn.open => BalancesOf(txn.view))

\* The row counters the statistics read are the row counts, across rewrites,
\* batches that hold a block twice and rollbacks (save_block_bundles).
CountersExact ==
  /\ db.nBlocks = Cardinality(db.blocks)
  /\ db.nTxs = Cardinality(db.txs)

\* The holders a transfer names.
Sides(x) == {<<x.token, h>> : h \in {x.from, x.to} \ {ZeroAddress}}

\* What the genesis cursor has passed is settled: both sides of every
\* transfer at or below it have their genesis balance on record, so the pass
\* may never look at that row again (holders_without_genesis_balance).
CursorSettled ==
  \A x \in Stored(db) :
    db.id[x] <= db.cursor => Sides(x) \subseteq db.genesis

\* The balance the chain itself would answer for a holding.
ChainBalance(k) == GenesisBalance[k] + Net(Transfers, k)

Seen(d) == UNION {Sides(x) : x \in Stored(d)}

CaughtUp(d) == Stored(d) = Transfers /\ d.cursor = d.lastId

\* With the whole history on record and the genesis pass caught up, every
\* holder the transfers name has the balance the chain gives it, and none
\* reads negative: what README.md calls exact "without rescanning history".
CaughtUpIsTheChain ==
  CaughtUp(db) => \A k \in Seen(db) : db.bal[k] = ChainBalance(k) /\ db.bal[k] >= 0

\* No transaction takes back what an earlier one settled: a transfer keeps its
\* row id, a token its metadata row, a holder its genesis balance, and the
\* genesis cursor only moves forward.
NothingForgotten ==
  [][/\ db.blocks \subseteq db'.blocks
     /\ \A x \in Stored(db) : db'.id[x] = db.id[x]
     /\ db.meta \subseteq db'.meta
     /\ db.genesis \subseteq db'.genesis
     /\ db.cursor <= db'.cursor /\ db'.cursor <= db'.lastId]_vars

\* The genesis pass keeps up with the writer: sooner or later every stored
\* transfer is behind its cursor (add_genesis_balances loops until caught up).
GenesisCatchesUp == <>[](db.cursor = db.lastId)

=============================================================================
