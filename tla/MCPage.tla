------------------------------- MODULE MCPage -------------------------------
(***************************************************************************)
(* A page of the explorer: the calls of a transaction and what is said of  *)
(* them, or the caches that several views look in at once.  The two share  *)
(* no state here, so a behaviour has the one and rests the other.          *)
(***************************************************************************)
EXTENDS TxPage, Caches, TLC

CONSTANTS k1, k2, k3, v1, v2

vars == <<viewVars, cacheVars>>

\* Keys and views are alike.
Symmetry == Permutations(Keys) \cup Permutations(Views)

OnePage ==
    /\ PageInit
    /\ cache = "none"
    /\ held = <<>> /\ unavailable = FALSE /\ source = <<>> /\ now = 0 /\ views = <<>>

ManyViews ==
    /\ CachesInit
    /\ trace = [size |-> 0] /\ stack = <<>> /\ calls = <<>>
    /\ tx = <<>> /\ pc = "rests" /\ reason = FALSE
    /\ outcomes = <<>> /\ acts = <<>> /\ known = <<>> /\ headline = <<>>

Init == OnePage \/ ManyViews

Next ==
    \/ cache = "none" /\ PageNext /\ UNCHANGED cacheVars
    \/ pc = "rests" /\ CachesNext /\ UNCHANGED viewVars

Spec == Init /\ [][Next]_vars
=============================================================================
