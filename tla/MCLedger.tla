------------------------------ MODULE MCLedger ------------------------------
(***************************************************************************)
(* A two-block chain for TLC.  Token t1 was given to a1 at genesis; block  *)
(* 1 sends all of it on, block 2 mints t2 and returns it all.  Fees    *)
(* are paid in t1.                                                         *)
(***************************************************************************)
EXTENDS Ledger

CONSTANTS t1, t2, zero, a1, a2

MCToken == {t1, t2}
MCAddress == {zero, a1, a2}

Log(b, l, t, f, to, n) ==
  [block |-> b, log |-> l, token |-> t, from |-> f, to |-> to, amount |-> n]

MCTransfers ==
  {Log(1, 0, t1, a1, a2, 2), Log(2, 0, t2, zero, a2, 1), Log(2, 1, t1, a2, a1, 2)}

MCTxsOf == [b \in Block |-> IF b = 1 THEN {"x1"} ELSE {"x2", "x3"}]
MCTx == {"x1", "x2", "x3"}
MCFeeTokensOf == [b \in Block |-> {t1}]
MCGenesisBalance == [k \in MCToken \X MCAddress |-> IF k = <<t1, a1>> THEN 2 ELSE 0]

=============================================================================
