------------------------------ MODULE CallTree ------------------------------
(***************************************************************************)
(* decoder.rs flatten_trace and walk_trace: a nested call trace becomes a  *)
(* list in depth-first order, each entry with its depth and the positions  *)
(* of its children.  The recursion is a stack of the calls being walked:   *)
(* Enter is a call of walk_trace, Leave its return.                        *)
(*                                                                         *)
(* A trace is a forest over 1..size (an array of roots, or one): parent is *)
(* 0 at a root, siblings stand in the order of their numbers.  No trace,   *)
(* null and an empty array are the forest of size 0.  Positions count      *)
(* from 1 here, from 0 in the code.                                        *)
(***************************************************************************)
EXTENDS Naturals, Sequences

CONSTANT MaxNodes       \* the largest trace a run looks at

ASSUME MaxNodesAssumption == MaxNodes \in Nat

VARIABLES
    trace,              \* the trace the node gave
    stack,              \* the calls being walked, the outermost first
    calls               \* the flat list

walkVars == <<trace, stack, calls>>

\* Every trace of up to MaxNodes calls, whichever of them failed.
Traces ==
    UNION {[size : {n}, failed : SUBSET (1..n),
            parent : {p \in [1..n -> 0..n] : \A c \in 1..n : p[c] < c}] : n \in 0..MaxNodes}

Kids(node) == {c \in 1..trace.size : trace.parent[c] = node}

\* The first of the calls a frame has left.
First(left) == CHOOSE c \in left : \A d \in left : c <= d

Frame(at, node) == [at |-> at, node |-> node, left |-> Kids(node), found |-> <<>>]

\* What the list says of a call.  In a trace every call has a status: failed
\* with the node's error, or success.
Entry(node, depth) ==
    [node |-> node, depth |-> depth, to |-> TRUE, children |-> <<>>,
     status |-> IF node \in trace.failed THEN "failed" ELSE "success",
     error |-> node \in trace.failed]

Top == stack[Len(stack)]

\* flatten_trace starts on the roots, the children of no call.
WalkInit ==
    /\ trace \in Traces
    /\ stack = <<Frame(0, 0)>>
    /\ calls = <<>>

\* Slip: the position is taken from the end of the list, not
\* from where the child is about to stand.
EnterBehind ==
    /\ stack # <<>>
    /\ Top.left # {}
    /\ LET kid == First(Top.left)
           caller == [Top EXCEPT !.left = @ \ {kid}, !.found = Append(@, Len(calls))]
       IN /\ calls' = Append(calls, Entry(kid, Len(stack) - 1))
          /\ stack' = [stack EXCEPT ![Len(stack)] = caller] \o <<Frame(Len(calls) + 1, kid)>>
    /\ UNCHANGED trace

\* The loop over a node's calls: note where the child will stand, walk it.
Enter ==
    /\ stack # <<>>
    /\ Top.left # {}
    /\ LET kid == First(Top.left)
           at == Len(calls) + 1
           caller == [Top EXCEPT !.left = @ \ {kid}, !.found = Append(@, at)]
       IN /\ calls' = Append(calls, Entry(kid, Len(stack) - 1))
          /\ stack' = [stack EXCEPT ![Len(stack)] = caller] \o <<Frame(at, kid)>>
    /\ UNCHANGED trace

\* The end of the loop: the children found are written to the call's entry.
Leave ==
    /\ stack # <<>>
    /\ Top.left = {}
    /\ calls' = IF Top.at = 0 THEN calls ELSE [calls EXCEPT ![Top.at].children = Top.found]
    /\ stack' = SubSeq(stack, 1, Len(stack) - 1)
    /\ UNCHANGED trace

Walked == stack = <<>>

WalkNext == Enter \/ Leave

WalkSpec == WalkInit /\ [][WalkNext]_walkVars

-----------------------------------------------------------------------------

(* The flat list is the tree: every call stands in it once, after the call *)
(* that made it and one level deeper, and the children an entry lists are  *)
(* the calls it made, in order (decoder.rs walk_trace, whose indices are   *)
(* taken before the recursion that fills the list).                        *)
FlatIsTheTree ==
    (Walked /\ trace.size > 0) =>
        /\ Len(calls) = trace.size
        /\ \A i, j \in DOMAIN calls : calls[i].node = calls[j].node => i = j
        /\ \A i \in DOMAIN calls :
              LET kids == calls[i].children IN
              /\ {calls[k].node : k \in {kids[n] : n \in DOMAIN kids}} = Kids(calls[i].node)
              /\ \A n \in DOMAIN kids :
                    /\ i < kids[n]
                    /\ calls[kids[n]].depth = calls[i].depth + 1
                    /\ \A m \in DOMAIN kids :
                          m < n => calls[kids[m]].node < calls[kids[n]].node
        /\ \A i \in DOMAIN calls : calls[i].depth = 0 <=> trace.parent[calls[i].node] = 0
=============================================================================
