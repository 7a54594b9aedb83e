------------------------------ MODULE Receipts ------------------------------
(***************************************************************************)
(* A block and its receipts made into rows (indexer.rs, assemble_bundle;   *)
(* parse.rs), and what is on record once they are written, as often as the *)
(* block is fetched.  Nodes differ in what they tell: the place of a log,  *)
(* the fee on the transaction or on its receipt, the token it was paid in. *)
(* A transfer is keyed by its log's place, and a fee nobody told is read   *)
(* off the transfer that settled it.                                       *)
(*                                                                         *)
(* The block is one; all its receipts are there (Fetch's WholeOrAbsent).   *)
(* What is made of a fetch depends on nothing on record, so that one fetch *)
(* at a time stands for those of both loops.                               *)
(***************************************************************************)
EXTENDS Naturals, Sequences

CONSTANTS
  Logs,       \* the block's logs in order: transaction, what it is, amount
  Charges,    \* what each transaction was charged
  MaxInt,     \* the largest amount an i64 holds
  Spellings   \* how the node may give a log's place

TxIds == DOMAIN Charges
Places == DOMAIN Logs

\* What a log is: a transfer of the fee token between users, into the Fee
\* Manager as the fee or as something else, or a transfer of another token into
\* it; a log of the anchoring contract; any other, one under Transfer's topic
\* that does not fit it among them.
TransferLogs == {"payment", "fee", "deposit", "elsewhere"}
IsTransfer(log) == log.is \in TransferLogs
IsWrite(log) == log.is = "write"

ASSUME ReceiptsAssumption ==
  /\ Logs \in Seq([tx : TxIds, is : TransferLogs \cup {"write", "misfit"}, amount : Nat])
  /\ \A x \in TxIds : Charges[x] \in Nat
  /\ MaxInt \in Nat
  /\ Spellings \subseteq {"stated", "absent", "garbage"}

\* "The fee is a TIP-20 transfer into the Fee Manager" (indexer.rs:381), of
\* what was charged; a transaction charged nothing may do without.
ASSUME FeesAssumption ==
  /\ \A i \in Places : Logs[i].is = "fee" => Logs[i].amount = Charges[Logs[i].tx]
  /\ \A x \in TxIds : Charges[x] # 0 => \E i \in Places : Logs[i].tx = x /\ Logs[i].is = "fee"

VARIABLES
  bundle,     \* what is made of a fetch so far, and the log it stands at
  recorded    \* the rows of the block; nothing before it is indexed

receiptsVars == <<bundle, recorded>>

PlaceOf(i) == i - 1

\* Where a transaction's fee is told, and whether its fee token is.
Says == [TxIds -> SUBSET {"object", "receipt", "token"}]

-----------------------------------------------------------------------------
(***************************************************************************)
(* One block's rows.                                                       *)
(***************************************************************************)
ParseTransaction(x, says) == [token |-> FALSE, fee |-> IF "object" \in says THEN Charges[x] ELSE 0]

\* A fee the receipt does not state leaves the transaction's standing.
ApplyReceiptFields(tx, x, says) ==
  [token |-> "token" \in says, fee |-> IF "receipt" \in says THEN Charges[x] ELSE tx.fee]

\* Slip: whatever moves into the Fee Manager is the fee.
DeriveFeeOfAnyToken(tx, log) ==
  IF log.is \in {"fee", "deposit", "elsewhere"} /\ tx.fee \notin 1..MaxInt
  THEN [tx EXCEPT !.fee = log.amount]
  ELSE tx

\* A fee beyond i64 does not parse, and counts as none.
DeriveFeeFromTransfer(tx, log) ==
  IF log.is \in {"fee", "deposit"} /\ tx.token /\ tx.fee \notin 1..MaxInt
  THEN [tx EXCEPT !.fee = log.amount]
  ELSE tx

\* parse_int_any: 0 for what it cannot read.
ParseInt(spelt, i) == IF spelt = "garbage" THEN 0 ELSE PlaceOf(i)

\* Slip: a log that does not give its place is the first.
LogIndexOrZero(spelt, i, next) == IF spelt = "absent" THEN 0 ELSE ParseInt(spelt, i)

LogIndex(spelt, i, next) == IF spelt = "absent" THEN next ELSE ParseInt(spelt, i)

\* A key taken already is left as it is (INSERT OR IGNORE).
InsertAll(table, rows) ==
  [k \in DOMAIN table \cup DOMAIN rows |-> IF k \in DOMAIN table THEN table[k] ELSE rows[k]]
Insert(table, index, i) == InsertAll(table, [k \in {index} |-> i])

\* One turn of apply_receipt's loop over the logs: every log moves the count,
\* and one that is a transfer or a write becomes a row.
IndexLog(spelt) ==
  /\ bundle.at \in Places
  /\ LET log == Logs[bundle.at]
         index == LogIndex(spelt, bundle.at, bundle.next)
     IN  bundle' = [bundle EXCEPT
                      !.at = @ + 1,
                      !.next = IF @ > index THEN @ ELSE index + 1,
                      !.transfers = IF IsTransfer(log) THEN Insert(@, index, bundle.at) ELSE @,
                      !.writes = IF IsWrite(log) THEN Insert(@, index, bundle.at) ELSE @,
                      !.txs[log.tx] = DeriveFeeFromTransfer(@, log)]
  /\ UNCHANGED recorded

-----------------------------------------------------------------------------
(***************************************************************************)
(* What is on record.                                                      *)
(***************************************************************************)
NoRows == [transfers |-> <<>>, writes |-> <<>>, txs |-> <<>>, says |-> <<>>]
NoBundle == [at |-> 0, next |-> 0, transfers |-> <<>>, writes |-> <<>>, txs |-> <<>>, says |-> <<>>]

ReceiptsInit == bundle = NoBundle /\ recorded = NoRows

\* The block and its receipts have come, and assemble_bundle begins.  The fields
\* of a receipt come before its logs, and are its own transaction's.
Fetched(says) ==
  /\ bundle.at = 0
  /\ bundle' = [at |-> 1, next |-> 0, transfers |-> <<>>, writes |-> <<>>, says |-> says,
                txs |-> [x \in TxIds |-> ApplyReceiptFields(ParseTransaction(x, says[x]), x, says[x])]]
  /\ UNCHANGED recorded

\* Transactions are written over, transfers and anchoring rows are not.
SaveBundle ==
  /\ bundle.at = Len(Logs) + 1
  /\ recorded' = [transfers |-> InsertAll(recorded.transfers, bundle.transfers),
                  writes |-> InsertAll(recorded.writes, bundle.writes),
                  txs |-> bundle.txs,
                  says |-> bundle.says]
  /\ bundle' = NoBundle

\* The anchoring backfill reads the logs of an indexed block again, and takes
\* none that does not give its place (anchoring_event_from_log).
SaveLog(i, spelt) ==
  /\ recorded # NoRows
  /\ IsWrite(Logs[i]) /\ spelt # "absent"
  /\ recorded' = [recorded EXCEPT !.writes = Insert(@, ParseInt(spelt, i), i)]
  /\ UNCHANGED bundle

ReceiptsNext ==
  \/ \E says \in Says : Fetched(says)
  \/ \E spelt \in Spellings : IndexLog(spelt)
  \/ SaveBundle
  \/ \E i \in Places, spelt \in Spellings : SaveLog(i, spelt)

ReceiptsSpec == ReceiptsInit /\ [][ReceiptsNext]_receiptsVars

-----------------------------------------------------------------------------
(***************************************************************************)
(* Properties.                                                             *)
(***************************************************************************)
\* A row for each of some logs, under its place.
ByPlace(of) == [k \in {PlaceOf(i) : i \in of} |-> k + 1]

\* Whether the fee can be told: a transaction that moved its fee token into the
\* Fee Manager for another reason needs it stated, in digits an i64 holds and
\* not as nothing.
FeeTold(x, said) ==
  LET stated == said \cap {"object", "receipt"} # {}
      deposits == \E i \in Places : Logs[i].tx = x /\ Logs[i].is = "deposit"
  IN  IF deposits THEN stated /\ Charges[x] \in 1..MaxInt
      ELSE stated \/ "token" \in said

\* However often a block is fetched, and whatever the node leaves out each time,
\* each of its transfers and anchoring writes is one row under its own place,
\* the backfill's rows the same ones, and the fee is what was charged
\* (indexer.rs apply_receipt, derive_fee_from_transfer).
OnRecordAsOnChain ==
  recorded # NoRows =>
    /\ recorded.transfers = ByPlace({i \in Places : IsTransfer(Logs[i])})
    /\ recorded.writes = ByPlace({i \in Places : IsWrite(Logs[i])})
    /\ \A x \in TxIds : FeeTold(x, recorded.says[x]) => recorded.txs[x].fee = Charges[x]

\* indexer.rs:501, apply_receipt: "a missing or unparsable index gets a unique
\* fallback instead of colliding at 0".  So no transfer of an indexed block is
\* without its row.
FallbackIsUnique ==
  recorded # NoRows =>
    \A i \in Places : IsTransfer(Logs[i]) => \E k \in DOMAIN recorded.transfers : recorded.transfers[k] = i
=============================================================================
