------------------------------- MODULE Ranges -------------------------------
(***************************************************************************)
(* Ranges of block numbers, as the fetch loops of src/indexer.rs split and *)
(* cut them.                                                               *)
(***************************************************************************)
EXTENDS Integers

IsHighest(n, S) == n \in S /\ \A m \in S : m <= n
IsLowest(n, S)  == n \in S /\ \A m \in S : n <= m

IsInterval(S) == \A a, b \in S : a..b \subseteq S

\* Slip: a hole in the answer is not cut off.
WithHoles(S, from) == {n \in S : n >= from}

\* The blocks of S that run on from `from`, or down from `to`, with no hole.
ContiguousFrom(S, from) == {n \in S : from..n \subseteq S}
ContiguousDownTo(S, to) == {n \in S : n..to \subseteq S}

\* The chunk of at most `size` blocks of `from`..`to` that starts at n.
ChunkAt(n, to, size) == n..(IF n + size - 1 < to THEN n + size - 1 ELSE to)

=============================================================================
