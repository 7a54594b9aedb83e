----------------------------- MODULE OldDatabase -----------------------------
(***************************************************************************)
(* A database written by an older build, brought up to date (db.rs,        *)
(* init_db; indexer.rs, repair_derived_tables): the row counters are       *)
(* seeded and the keys of the balances converted before anything else      *)
(* runs, the balances rebuilt beside the writer.  A crash may come between *)
(* any two of these.  Ledger has what is kept from there on.               *)
(*                                                                         *)
(* There is one token, and each block pays one unit of it to a holder.     *)
(***************************************************************************)
EXTENDS Naturals, FiniteSets

CONSTANTS
  Paid,         \* the holder each block pays
  Txs,          \* how many transactions each block has
  MaxStarts     \* bound: how often the process may start

Blocks == DOMAIN Paid
Holders == {Paid[b] : b \in Blocks}

ASSUME OldDatabaseAssumption ==
  /\ Txs \in [Blocks -> Nat]
  /\ IsFiniteSet(Blocks)
  /\ MaxStarts \in Nat

VARIABLES
  written,    \* blocks on record
  counters,   \* the row counters there are
  bal,        \* the balances kept under each kind of key; 0 is no row
  converted,  \* the kv row balance_keys_blob
  holders,    \* the token's holder count
  stage,      \* how far this start is
  mending,    \* where its repair stands
  built,      \* history: the balances were kept from the first block, or rebuilt
  starts      \* bound: starts so far

oldVars == <<written, counters, bal, converted, holders, stage, mending, built, starts>>

Kinds == {"text", "blob"}
TxsOfBlocks(blocks) == UNION {{b} \X (1..Txs[b]) : b \in blocks}
Rows(table, blocks) == Cardinality(IF table = "blocks" THEN blocks ELSE TxsOfBlocks(blocks))

SumsOf(blocks) == [h \in Holders |-> Cardinality({b \in blocks : Paid[b] = h})]
NoBalances == [h \in Holders |-> 0]
HoldersIn(kept) == Cardinality({h \in Holders : kept[h] > 0})

\* The databases older builds left: with counters or without, with balances
\* under text keys or address bytes, or with none and a holder count of none.
OldInit ==
  /\ \E n \in {0} \cup Blocks : written = {b \in Blocks : b <= n}
  /\ counters \in {<<>>, [t \in {"blocks", "transactions"} |-> Rows(t, written)]}
  /\ built \in BOOLEAN
  /\ \/ built /\ \E kind \in Kinds :
          /\ converted = (kind = "blob")
          /\ bal = [k \in Kinds |-> IF k = kind THEN SumsOf(written) ELSE NoBalances]
          /\ holders = HoldersIn(SumsOf(written))
     \/ ~built /\ written # {} /\ bal = [k \in Kinds |-> NoBalances] 
        /\ holders = 0 /\ converted = FALSE
  /\ stage = "blocks"
  /\ mending = "look"
  /\ starts = 1

-----------------------------------------------------------------------------
(***************************************************************************)
(* init_db, each statement a commit of its own but for the keys.           *)
(***************************************************************************)
\* Slip: the keys are left for later.
AfterKeysLater(table) == IF table = "blocks" THEN "transactions" ELSE "run"

After(table) == IF table = "blocks" THEN "transactions" ELSE "keys"

\* A table that has no counter is counted, once.
SeedCounter(table) ==
  /\ stage = table
  /\ counters' = [t \in DOMAIN counters \cup {table} |->
                    IF t \in DOMAIN counters THEN counters[t] ELSE Rows(t, written)]
  /\ stage' = After(table)
  /\ UNCHANGED <<written, bal, converted, holders, mending, built, starts>>

\* One transaction for both tables and the row that marks them done.
BlobBalanceKeys ==
  /\ stage = "keys"
  /\ bal' = IF converted THEN bal
            ELSE [text |-> NoBalances, blob |-> [h \in Holders |-> bal["blob"][h] + bal["text"][h]]]
  /\ converted' = TRUE
  /\ stage' = "run"
  /\ UNCHANGED <<written, counters, holders, mending, built, starts>>

-----------------------------------------------------------------------------
(***************************************************************************)
(* The writer, and repair_derived_tables beside it.                        *)
(***************************************************************************)
\* A block is written, its figures moved by what it adds.
WriteNew(b) ==
  /\ stage = "run"
  /\ b \notin written
  /\ written' = written \cup {b}
  /\ counters' = [t \in DOMAIN counters |-> counters[t] + Rows(t, {b})]
  /\ bal' = [bal EXCEPT !["blob"][Paid[b]] = @ + 1]
  /\ holders' = IF bal["blob"][Paid[b]] = 0 THEN holders + 1 ELSE holders
  /\ UNCHANGED <<converted, stage, mending, built, starts>>

HasBalances == \E kind \in Kinds : bal[kind] # NoBalances

\* The look, under the lock it then lets go of.
LookAtTables ==
  /\ stage = "run"
  /\ mending = "look"
  /\ mending' = IF written # {} /\ ~HasBalances THEN "rebuild"
                ELSE IF HasBalances THEN "recount" ELSE "done"
  /\ UNCHANGED <<written, counters, bal, converted, holders, stage, built, starts>>

\* rebuild_token_balances, one transaction.
RebuildAll ==
  /\ mending = "rebuild"
  /\ bal' = [text |-> NoBalances, blob |-> SumsOf(written)]
  /\ holders' = HoldersIn(SumsOf(written))
  /\ built' = TRUE
  /\ mending' = "done"
  /\ UNCHANGED <<written, counters, converted, stage, starts>>

\* sync_holder_counts.
RecountAll ==
  /\ mending = "recount"
  /\ holders' = HoldersIn(bal["blob"])
  /\ mending' = "done"
  /\ UNCHANGED <<written, counters, bal, converted, stage, built, starts>>

\* A statement fails, and this start does not try again.
MendFails ==
  /\ mending \in {"rebuild", "recount"}
  /\ mending' = "failed"
  /\ UNCHANGED <<written, counters, bal, converted, holders, stage, built, starts>>

\* A crash, or a start that fails half-way, and the next start.
StartAgain ==
  /\ starts < MaxStarts
  /\ starts' = starts + 1
  /\ stage' = "blocks"
  /\ mending' = "look"
  /\ UNCHANGED <<written, counters, bal, converted, holders, built>>

OldNext ==
  \/ \E table \in {"blocks", "transactions"} : SeedCounter(table)
  \/ BlobBalanceKeys
  \/ \E b \in Blocks : WriteNew(b)
  \/ LookAtTables \/ RebuildAll \/ RecountAll \/ MendFails
  \/ StartAgain

OldSpec == OldInit /\ [][OldNext]_oldVars

-----------------------------------------------------------------------------
(***************************************************************************)
(* Properties.                                                             *)
(***************************************************************************)
Exact ==
  /\ bal = [text |-> NoBalances, blob |-> SumsOf(written)]
  /\ holders = HoldersIn(SumsOf(written))

\* Whatever build left the database and wherever starts were cut short, once
\* the writer runs the counters are the row counts, and balances that were
\* complete are so still, under one key each (db.rs seed_counters, "so the
\* writer can keep them from there"; blob_balance_keys).
BroughtUpToDate ==
  stage = "run" =>
    /\ \A t \in {"blocks", "transactions"} : t \in DOMAIN counters /\ counters[t] = Rows(t, written)
    /\ built => Exact

\* indexer.rs:655: "a database from before they were maintained per block.
\* Rebuild once, and holder counts and holdings are correct from here on."
CorrectFromHereOn == (stage = "run" /\ mending = "done") => Exact
=============================================================================
