----------------------------- MODULE BlockIndex -----------------------------
(***************************************************************************)
(* What the explorer promises of its block table, without the loops: a run *)
(* of consecutive blocks, which commits extend and only a loss of what was *)
(* not yet safe cuts back.                                                 *)
(***************************************************************************)
EXTENDS Integers

CONSTANT Block   \* the blocks there may be

VARIABLES
  index,  \* the blocks on record
  kept    \* those no loss can take

Run(S) == \A a, b \in S : a..b \subseteq S

Init == index = {} /\ kept = {}

Commit ==
  /\ index' \in SUBSET Block
  /\ index \subseteq index'
  /\ Run(index')
  /\ UNCHANGED kept

Secure ==
  /\ kept' = index
  /\ UNCHANGED index

Lose ==
  /\ index' = kept
  /\ UNCHANGED kept

Next == Commit \/ Secure \/ Lose

Spec == Init /\ [][Next]_<<index, kept>>

=============================================================================
