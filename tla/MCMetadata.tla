----------------------------- MODULE MCMetadata -----------------------------
(***************************************************************************)
(* Four blocks for TLC: t1 is minted in blocks 1 and 3, t2 first seen in   *)
(* block 2, where a request may still be out for it when block 4 asks.  Or *)
(* the request itself, call by call.  The two share no state, so a         *)
(* behaviour has the one and rests the other.                              *)
(***************************************************************************)
EXTENDS Metadata, BatchCall

CONSTANTS t1, t2

MCToken == {t1, t2}
MCMentions == [b \in Block |-> CASE b = 1 -> {t1, t2}
                                 [] b = 2 -> {t2}
                                 [] b = 3 -> {t1}
                                 [] OTHER -> {t2}]
MCMints == [b \in Block |-> IF b \in {1, 3} THEN {t1} ELSE {}]

Requests ==
  /\ BatchInit
  /\ chain = 0
  /\ known = {} /\ loops = [l \in Loop |-> Idle(0)] /\ tasks = {} /\ queue = <<>>
  /\ stored = {} /\ rows = [t \in Token |-> NoRow] /\ repair = NoRepair
  /\ refused = {} /\ cut = {} /\ restarts = 0

Pipeline ==
  /\ Init
  /\ node = <<>> /\ request = NoRequest
  /\ described = <<>> /\ opening = <<>> /\ unsaid = {}

MCInit == Pipeline \/ Requests

\* The rows and the balances share nothing but the node, so one behaviour fills
\* the one and another the other.
OneOfTheTwo ==
  \/ described' = <<>> /\ request'.for # "tokens"
  \/ opening' = <<>> /\ request'.for # "balances"

MCNext ==
  \/ chain # 0 /\ Next /\ UNCHANGED batchVars
  \/ chain = 0 /\ BatchNext /\ OneOfTheTwo /\ UNCHANGED vars

MCSpec == MCInit /\ [][MCNext]_<<vars, batchVars>>
=============================================================================
