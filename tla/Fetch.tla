------------------------------- MODULE Fetch --------------------------------
(***************************************************************************)
(* One chunk of blocks fetched from the node (src/indexer.rs,              *)
(* fetch_raw_blocks; src/rpc.rs, batch_call): the blocks in one request,   *)
(* in halves when the node refuses it whole; the receipts of those that    *)
(* have transactions in a second; what is still short, transaction by      *)
(* transaction in a third.                                                 *)
(*                                                                         *)
(* What comes out is what Indexer and Metadata take as the node's answer.  *)
(* A block is its number, a receipt its transaction.                       *)
(***************************************************************************)
EXTENDS Integers, Sequences, Ranges

CONSTANTS
  First, Last,   \* the chunk (block_chunks)
  Tx,
  TxsOf,         \* the transactions of each block
  Gives          \* what eth_getBlockReceipts may give for each block

Number == First..Last

ASSUME FetchAssumption ==
  /\ First \in Nat
  /\ Last \in Nat
  /\ First <= Last
  /\ TxsOf \in [Number -> SUBSET Tx]
  /\ Gives \in [Number -> SUBSET (SUBSET Tx)]

VARIABLES
  pc,        \* "blocks", "receipts", "retry", "done" or "failed"
  spans,     \* the parts of the chunk not done yet; the first is under way
  found,     \* the blocks the node gave of it
  receipts,  \* the receipts each of them has, once it has any
  short,     \* blocks to be asked for receipt by receipt
  result,    \* the blocks of the parts done, with their receipts
  served,    \* history: blocks and receipts the node gave, reply by reply
  requests   \* history: requests made

fetchVars == <<pc, spans, found, receipts, short, result, served, requests>>

Nothing == [b \in {} |-> {}]

FetchInit ==
  /\ pc = "blocks"
  /\ spans = <<[from |-> First, to |-> Last]>>
  /\ found = {}
  /\ receipts = Nothing
  /\ short = {}
  /\ result = Nothing
  /\ served = [blocks |-> {}, receipts |-> {}]
  /\ requests = 0

HasTxs(b) == TxsOf[b] # {}

-----------------------------------------------------------------------------
\* Slip: a block without receipts is taken for one short of them.
WithReceipts(blocks, have) == blocks \cap DOMAIN have

\* The blocks that can be written: those with transactions have receipts.
WithoutMissingReceipts(blocks, have) == {b \in blocks : b \in DOMAIN have \/ ~HasTxs(b)}

\* A part of the chunk is done.
Finish(blocks, have) ==
  LET whole == WithoutMissingReceipts(blocks, have)
  IN  /\ result' = [b \in DOMAIN result \cup whole |->
                      CASE b \in DOMAIN result -> result[b]
                        [] b \in whole \cap DOMAIN have -> have[b]
                        [] OTHER -> {}]
      /\ spans' = Tail(spans)
      /\ pc' = IF Tail(spans) = <<>> THEN "done" ELSE "blocks"
      /\ found' = {} /\ receipts' = Nothing /\ short' = {}

\* Go on with the part under way, unless it wants nothing more.
GoOn(step, blocks, have, left) ==
  IF left = {}
  THEN Finish(blocks, have)
  ELSE /\ pc' = step
       /\ found' = blocks /\ receipts' = have /\ short' = left
       /\ UNCHANGED <<spans, result>>

\* Slip: the request that is refused is made again.
AskAgain ==
  /\ pc = "blocks"
  /\ requests' = requests + 1
  /\ UNCHANGED <<pc, spans, found, receipts, short, result, served>>

Middle(span) == span.from + (span.to - span.from) \div 2

\* One error for the whole request, as past a response size cap: halves.  A
\* block asked for by itself is answered or missing (batch_call of one call).
Split(mid, next) ==
  /\ pc = "blocks"
  /\ Head(spans).from < Head(spans).to
  /\ spans' = <<[from |-> Head(spans).from, to |-> mid],
                [from |-> next, to |-> Head(spans).to]>> \o Tail(spans)
  /\ requests' = requests + 1
  /\ UNCHANGED <<pc, found, receipts, short, result, served>>

\* Slip: the middle belongs to both halves.
HalveOverlapping == Split(Middle(Head(spans)), Middle(Head(spans)))

Halve == Split(Middle(Head(spans)), Middle(Head(spans)) + 1)

\* The request itself fails: so does the chunk, the parts done included.
FetchFails ==
  /\ pc = "blocks"
  /\ pc' = "failed"
  /\ spans' = <<>>
  /\ result' = Nothing
  /\ requests' = requests + 1
  /\ UNCHANGED <<found, receipts, short, served>>

\* Blocks the node does not give are left out.
BlocksAnswered(blocks) ==
  /\ pc = "blocks"
  /\ blocks \subseteq Head(spans).from..Head(spans).to
  /\ served' = [served EXCEPT !.blocks = @ \cup blocks]
  /\ requests' = requests + 1
  /\ GoOn("receipts", blocks, Nothing, {b \in blocks : HasTxs(b)})

\* The node gives something for some of the blocks, and the array it gives is
\* taken for all of a block's receipts; for the others null or an error, for
\* all of them when the request fails.
ReceiptsAnswered(given) ==
  /\ pc = "receipts"
  /\ DOMAIN given \subseteq short
  /\ \A b \in DOMAIN given : given[b] \in Gives[b]
  /\ served' = [served EXCEPT !.receipts = @ \cup {<<b, given[b]>> : b \in DOMAIN given}]
  /\ requests' = requests + 1
  /\ GoOn("retry", found, given, short \ DOMAIN given)

\* Slip: the receipts that came are taken for the block's.
RetryKeepingSome(some) ==
  /\ pc = "retry"
  /\ requests' = requests + 1
  /\ \E b \in short :
       /\ IsLowest(b, short)
       /\ some \subseteq TxsOf[b]
       /\ served' = [served EXCEPT !.receipts = @ \cup {<<b, some>>}]
       /\ GoOn("retry", found,
               [c \in DOMAIN receipts \cup {b} |-> IF c = b THEN some ELSE receipts[c]],
               short \ {b})

\* Once more, one block's receipts after the other's; all of them, or the
\* block is left for the next fetch.
Retry(some) ==
  /\ pc = "retry"
  /\ requests' = requests + 1
  /\ \E b \in short :
       LET now == IF some = TxsOf[b] THEN {b} ELSE {}
       IN  /\ IsLowest(b, short)
           /\ some \subseteq TxsOf[b]
           /\ served' = [served EXCEPT !.receipts = @ \cup {<<b, some>>}]
           /\ GoOn("retry", found,
                   [c \in DOMAIN receipts \cup now |-> IF c \in now THEN some ELSE receipts[c]],
                   short \ {b})

FetchNext ==
  \/ Halve
  \/ FetchFails
  \/ \E blocks \in SUBSET Number : BlocksAnswered(blocks)
  \/ \E blocks \in SUBSET short :
       \E given \in [blocks -> UNION {Gives[b] : b \in blocks}] : ReceiptsAnswered(given)
  \/ \E some \in SUBSET Tx : Retry(some)

FetchSpec == FetchInit /\ [][FetchNext]_fetchVars

-----------------------------------------------------------------------------
(***************************************************************************)
(* Properties.                                                             *)
(***************************************************************************)
SomeReceipts(f) == DOMAIN f \subseteq Number /\ f \in [DOMAIN f -> SUBSET Tx]

FetchTypeOK ==
  /\ pc \in {"blocks", "receipts", "retry", "done", "failed"}
  /\ spans \in Seq([from : Number, to : Number])
  /\ found \in SUBSET Number
  /\ SomeReceipts(receipts)
  /\ short \in SUBSET found
  /\ SomeReceipts(result)
  /\ served \in [blocks : SUBSET Number, receipts : SUBSET (Number \X SUBSET Tx)]
  /\ requests \in Nat

\* A block comes out with the receipt of every transaction it has, or with
\* what the node called the block's receipts, or not at all: receipts are never
\* pieced together from a retry that brought some of them (one short "would be
\* written as if every transaction succeeded and none paid a fee").
WholeOrAbsent == \A b \in DOMAIN result : result[b] \in {TxsOf[b]} \cup Gives[b]

\* However the chunk was halved and its receipts pieced together, a block the
\* node gave, with all its receipts in one reply or with none to ask for, is
\* in the result.
NoneLost ==
  pc = "done" =>
    \A b \in served.blocks :
      ~HasTxs(b) \/ <<b, TxsOf[b]>> \in served.receipts => b \in DOMAIN result

\* The parts to be done tile the chunk's end, the result lies below them.
PartsTile ==
  /\ \A i \in 1..Len(spans) : spans[i].from <= spans[i].to
  /\ \A i \in 1..(Len(spans) - 1) : spans[i + 1].from = spans[i].to + 1
  /\ spans # <<>> => /\ spans[Len(spans)].to = Last
                     /\ \A b \in DOMAIN result : b < Head(spans).from

\* Four requests at most for each block of the chunk.
FewRequests == requests <= 4 * (Last - First + 1)

\* However the chunk was halved and however often the node refused, no block of
\* it is in two parts and none is passed over, and the fetch comes to an end
\* within four requests a block (fetch_raw_blocks).
EveryBlockOnce == PartsTile /\ FewRequests

=============================================================================
