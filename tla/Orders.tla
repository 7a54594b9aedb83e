------------------------------- MODULE Orders -------------------------------
(***************************************************************************)
(* Sorting: ORDER BY in the queries of db.rs and sort_by_key in            *)
(* name_search.rs.  An order is a set of pairs, the former before the       *)
(* latter, that relates any two rows one way.                               *)
(***************************************************************************)
EXTENDS Naturals, FiniteSets

\* Those of S that come before x.
Ahead(S, before, x) == {y \in S : <<y, x>> \in before}

\* The members of S in order: the k-th has k - 1 before it.
InOrder(S, before) ==
    [k \in 1..Cardinality(S) |-> CHOOSE x \in S : Cardinality(Ahead(S, before, x)) = k - 1]

\* The members of a set of numbers, the highest first or the lowest.
Descending(S) == InOrder(S, {p \in S \X S : p[1] > p[2]})
Ascending(S) == InOrder(S, {p \in S \X S : p[1] < p[2]})
=============================================================================
