----------------------------- MODULE PageProofs -----------------------------
(***************************************************************************)
(* Proofs about a page: CallTree (the flat list of calls is the tree, for  *)
(* a trace of any size and shape), TxPage (the replayed calls, the call    *)
(* that is blamed, the events of the receipt) and Caches (a token is       *)
(* tagged in time and a name gives way only to an older look, for any      *)
(* number of views and keys).                                              *)
(***************************************************************************)
EXTENDS TxPage, Caches, FiniteSetTheorems, FunctionTheorems, SequenceTheorems, TLAPS

-----------------------------------------------------------------------------
(***************************************************************************)
(* The inductive invariant.  A frame of the stack has listed the calls its *)
(* node made so far; an entry whose frame is gone has listed them all.     *)
(***************************************************************************)
Node == 1..trace.size
Places(c) == 1..Len(c)
CallEntry == [node : Node, depth : Nat, to : BOOLEAN, children : Seq(Nat),
              status : {"failed", "success"}, error : BOOLEAN]
FrameOf == [at : Nat, node : 0..trace.size, left : SUBSET Node, found : Seq(Nat)]

WalkTypes ==
  /\ trace \in Traces
  /\ calls \in Seq(CallEntry)
  /\ stack \in Seq(FrameOf)

Entered(c, node) == \E i \in Places(c) : c[i].node = node

\* found lists the calls of K made by the one at a place, in order and deeper.
Lists(c, found, at, depth, K) ==
  /\ \A n \in Places(found) :
       /\ found[n] \in Places(c)
       /\ at < found[n]
       /\ c[found[n]].depth = depth
       /\ c[found[n]].node \in K
  /\ \A kid \in K : \E n \in Places(found) : c[found[n]].node = kid
  /\ \A m, n \in Places(found) : m < n => c[found[m]].node < c[found[n]].node

EntriesOK ==
  /\ \A i, j \in Places(calls) : calls[i].node = calls[j].node => i = j
  /\ \A i \in Places(calls) :
       /\ trace.parent[calls[i].node] = 0 \/ Entered(calls, trace.parent[calls[i].node])
       /\ calls[i].depth = 0 <=> trace.parent[calls[i].node] = 0

\* The frame at place f of the stack.
FrameOK(c, frame, f) ==
  /\ f = 1 => frame.at = 0 /\ frame.node = 0
  /\ f > 1 => frame.at \in Places(c) /\ c[frame.at].node = frame.node /\ c[frame.at].depth = f - 2
  /\ frame.left \subseteq Kids(frame.node)
  /\ \A kid \in frame.left : ~Entered(c, kid)
  /\ Lists(c, frame.found, frame.at, f - 1, Kids(frame.node) \ frame.left)
  /\ \A n \in Places(frame.found), kid \in frame.left : c[frame.found[n]].node < kid

FramesOK ==
  /\ \A f \in Places(stack) : FrameOK(calls, stack[f], f)
  /\ \A f, g \in Places(stack) : f < g => stack[f].at < stack[g].at

OnStack(s, i) == \E f \in Places(s) : s[f].at = i

DoneOK ==
  /\ \A i \in Places(calls) :
       ~OnStack(stack, i) =>
         Lists(calls, calls[i].children, i, calls[i].depth + 1, Kids(calls[i].node))
  /\ Walked => \A kid \in Kids(0) : Entered(calls, kid)

WalkInv == WalkTypes /\ EntriesOK /\ FramesOK /\ DoneOK

-----------------------------------------------------------------------------
(***************************************************************************)
(* Least numbers, traces and lists.                                        *)
(***************************************************************************)
LEMMA Least == ASSUME NEW S \in SUBSET Nat, S # {} PROVE \E m \in S : \A n \in S : m <= n
<1> DEFINE Before == {p \in Nat \X Nat : p[1] < p[2]}
<1>1. IsWellFoundedOn(Before, Nat)
  <2>1. OpToRel(<, Nat) = Before
    BY DEF OpToRel
  <2> HIDE DEF Before
  <2>2. QED
    BY <2>1, NatLessThanWellFounded
<1>2. \A x, y \in Nat : <<x, y>> \in Before <=> x < y
  OBVIOUS
<1> HIDE DEF Before
<1>3. PICK m \in S : \A y \in S : ~(<<y, m>> \in Before)
  BY <1>1, WFMin
<1>4. \A y \in S : ~(y < m)
  BY <1>2, <1>3
<1>5. QED
  BY <1>4

LEMMA TraceFacts ==
  ASSUME trace \in Traces
  PROVE  /\ trace.size \in Nat /\ Node \subseteq Nat /\ 0 \notin Node
         /\ \A c \in Node : trace.parent[c] \in 0..trace.size /\ trace.parent[c] < c
         /\ \A node : Kids(node) \subseteq Node
         /\ \A node : \A kid \in Kids(node) : trace.parent[kid] = node
<1>1. PICK n \in 0..MaxNodes :
        trace \in [size : {n}, failed : SUBSET (1..n),
                   parent : {p \in [1..n -> 0..n] : \A c \in 1..n : p[c] < c}]
  BY DEF Traces
<1>2. n \in Nat /\ trace.size = n /\ trace.parent \in [1..n -> 0..n] /\ \A c \in 1..n : trace.parent[c] < c
  BY <1>1, MaxNodesAssumption
<1>3. QED
  BY <1>2 DEF Node, Kids

LEMMA FirstFacts ==
  ASSUME NEW left \in SUBSET Node, trace \in Traces, left # {}
  PROVE  First(left) \in left /\ \A d \in left : First(left) <= d
<1>1. left \in SUBSET Nat
  BY TraceFacts
<1>2. \E c \in left : \A d \in left : c <= d
  BY <1>1, Least
<1>3. QED
  BY <1>2 DEF First

\* A list stays one while entries keep their node and depth.
LEMMA ListsKept ==
  ASSUME NEW c, NEW d, NEW found, NEW at, NEW depth, NEW K,
         Lists(c, found, at, depth, K), Places(c) \subseteq Places(d),
         \A i \in Places(c) : d[i].node = c[i].node /\ d[i].depth = c[i].depth
  PROVE  Lists(d, found, at, depth, K)
<1>1. \A n \in Places(found) :
        found[n] \in Places(c) /\ d[found[n]].node = c[found[n]].node /\ d[found[n]].depth = c[found[n]].depth
  BY DEF Lists
<1>2. QED
  BY <1>1 DEF Lists

LEMMA FrameFacts ==
  ASSUME WalkTypes, NEW f \in Places(stack)
  PROVE  /\ stack[f] \in FrameOf
         /\ stack[f].at \in Nat /\ stack[f].node \in 0..trace.size
         /\ stack[f].left \in SUBSET Node /\ stack[f].found \in Seq(Nat)
<1>1. stack[f] \in FrameOf
  BY DEF WalkTypes, Places
<1>2. QED
  BY <1>1 DEF FrameOf

LEMMA EntryFacts ==
  ASSUME WalkTypes, NEW i \in Places(calls)
  PROVE  /\ calls[i] \in CallEntry
         /\ calls[i].node \in Node /\ calls[i].depth \in Nat /\ calls[i].children \in Seq(Nat)
<1>1. calls[i] \in CallEntry
  BY DEF WalkTypes, Places
<1>2. QED
  BY <1>1 DEF CallEntry

\* The last frame, and the stack without it.
LEMMA TopFacts ==
  ASSUME WalkTypes, stack # <<>>
  PROVE  /\ Len(stack) \in Nat \ {0} /\ Len(stack) \in Places(stack)
         /\ Len(calls) \in Nat /\ Places(calls) \subseteq Nat
         /\ Top = stack[Len(stack)] /\ Top \in FrameOf
<1>1. Len(stack) \in Nat \ {0} /\ Len(calls) \in Nat
  BY DEF WalkTypes
<1>2. Len(stack) \in Places(stack)
  BY <1>1 DEF Places
<1>3. QED
  BY <1>1, <1>2, FrameFacts DEF Top, Places

\* Two frames never stand for one node.
LEMMA FramesApart ==
  ASSUME WalkTypes, EntriesOK, FramesOK, NEW f \in Places(stack), NEW g \in Places(stack), f < g
  PROVE  stack[f].node # stack[g].node
<1>1. f \in Nat /\ g \in Nat /\ f >= 1 /\ g > 1
  BY DEF Places, WalkTypes
<1>2. /\ stack[g].at \in Places(calls) /\ calls[stack[g].at].node = stack[g].node
      /\ stack[f].at < stack[g].at
  BY <1>1 DEF FramesOK, FrameOK
<1>3. stack[g].node \in Node
  BY <1>2, EntryFacts
<1>4. CASE f = 1
  BY <1>3, <1>4, TraceFacts DEF FramesOK, FrameOK, WalkTypes
<1>5. CASE f # 1
  <2>1. f > 1
    BY <1>1, <1>5
  <2>2. stack[f].at \in Places(calls) /\ calls[stack[f].at].node = stack[f].node
    BY <2>1 DEF FramesOK, FrameOK
  <2>3. stack[f].at # stack[g].at
    BY <1>2, FrameFacts
  <2>4. QED
    BY <1>2, <2>2, <2>3 DEF EntriesOK
<1>6. QED
  BY <1>4, <1>5

-----------------------------------------------------------------------------
(***************************************************************************)
(* Each step keeps the invariant.                                          *)
(***************************************************************************)
LEMMA InitWalk == WalkInit => WalkInv
<1> SUFFICES ASSUME WalkInit PROVE WalkInv
  OBVIOUS
<1> DEFINE root == Frame(0, 0)
<1>1. stack = <<root>> /\ calls = <<>> /\ trace \in Traces
  BY DEF WalkInit
<1>2. root \in FrameOf /\ root.at = 0 /\ root.node = 0 /\ root.left = Kids(0) /\ root.found = <<>>
  <2>1. Kids(0) \in SUBSET Node /\ 0 \in 0..trace.size
    BY <1>1, TraceFacts
  <2>2. QED
    BY <2>1 DEF Frame, FrameOf
<1> HIDE DEF root
<1>3. /\ stack \in Seq(FrameOf) /\ Places(stack) = {1} /\ stack[1] = root /\ stack # <<>>
      /\ calls \in Seq(CallEntry) /\ Places(calls) = {}
  BY <1>1, <1>2 DEF Places
<1>4. WalkTypes /\ EntriesOK
  BY <1>1, <1>3 DEF WalkTypes, EntriesOK
<1>5. Places(<<>>) = {}
  BY DEF Places
<1>6. Lists(calls, <<>>, 0, 0, {})
  BY <1>5 DEF Lists
<1>7. FrameOK(calls, root, 1)
  <2>1. Kids(root.node) \ root.left = {} /\ 1 - 1 = 0
    BY <1>2
  <2>2. Lists(calls, root.found, root.at, 1 - 1, Kids(root.node) \ root.left)
    BY <1>2, <1>6, <2>1
  <2>3. \A kid : ~Entered(calls, kid)
    BY <1>3 DEF Entered
  <2>4. root.left \subseteq Kids(root.node) /\ Places(root.found) = {}
    BY <1>2, <1>5
  <2>5. root.at = 0 /\ root.node = 0 /\ ~(1 > 1)
    BY <1>2
  <2>6. QED
    BY <2>2, <2>3, <2>4, <2>5, Zenon DEF FrameOK
<1>8. FramesOK
  BY <1>3, <1>7 DEF FramesOK
<1>9. DoneOK
  BY <1>3 DEF DoneOK, Walked
<1>10. QED
  BY <1>4, <1>8, <1>9 DEF WalkInv

\* A call that made none yet is noted by the one that made it, and entered.
LEMMA EnterFacts ==
  ASSUME WalkTypes, Enter
  PROVE  LET depth == Len(stack)
             kid   == First(Top.left)
             at    == Len(calls) + 1
         IN  /\ kid \in Top.left /\ \A other \in Top.left : kid <= other
             /\ Len(calls') = at /\ calls' \in Seq(CallEntry) /\ Places(calls') = Places(calls) \cup {at}
             /\ \A i \in Places(calls) : calls'[i] = calls[i]
             /\ calls'[at].node = kid /\ calls'[at].depth = depth - 1
             /\ Len(stack') = depth + 1 /\ stack' \in Seq(FrameOf)
             /\ \A f \in 1..(depth - 1) : stack'[f] = stack[f]
             /\ stack'[depth].at = Top.at /\ stack'[depth].node = Top.node
             /\ stack'[depth].left = Top.left \ {kid} /\ stack'[depth].found = Append(Top.found, at)
             /\ stack'[depth + 1].at = at /\ stack'[depth + 1].node = kid
             /\ stack'[depth + 1].left = Kids(kid) /\ stack'[depth + 1].found = <<>>
             /\ trace' = trace
<1> DEFINE L == Len(stack)
           kid == First(Top.left)
           at == Len(calls) + 1
           e == Entry(kid, L - 1)
           less == [Top EXCEPT !.left = Top.left \ {kid}]
           caller == [less EXCEPT !.found = Append(Top.found, at)]
           new == Frame(at, kid)
           kept == [stack EXCEPT ![L] = caller]
<1>1. /\ stack # <<>> /\ Top.left # {} /\ trace' = trace
      /\ calls' = Append(calls, e) /\ stack' = kept \o <<new>>
  BY DEF Enter
<1>2. /\ L \in Nat \ {0} /\ Top = stack[L] /\ Top \in FrameOf /\ L \in 1..L
      /\ Len(calls) \in Nat /\ at \in Nat
  BY <1>1, TopFacts DEF Places
<1>3. /\ trace \in Traces /\ calls \in Seq(CallEntry) /\ stack \in Seq(FrameOf)
      /\ Top.left \in SUBSET Node /\ Top.found \in Seq(Nat)
  BY <1>2 DEF WalkTypes, FrameOf
<1>4. kid \in Top.left /\ kid \in Node /\ kid \in 0..trace.size /\ \A other \in Top.left : kid <= other
  <2>1. kid \in Top.left /\ \A other \in Top.left : kid <= other
    BY <1>1, <1>3, FirstFacts
  <2>2. QED
    BY <1>3, <2>1, TraceFacts DEF Node
<1> HIDE DEF kid, at, L
<1>5. e \in CallEntry /\ e.node = kid /\ e.depth = L - 1
  <2>1. <<>> \in Seq(Nat) /\ L - 1 \in Nat
    BY <1>2
  <2>2. QED
    BY <1>4, <2>1 DEF Entry, CallEntry
<1>6. /\ less \in FrameOf /\ less.at = Top.at /\ less.node = Top.node
      /\ less.left = Top.left \ {kid} /\ less.found = Top.found
  BY <1>2, <1>3 DEF FrameOf
<1> HIDE DEF less
<1>7. /\ caller \in FrameOf /\ caller.at = Top.at /\ caller.node = Top.node
      /\ caller.left = Top.left \ {kid} /\ caller.found = Append(Top.found, at)
  <2>1. Append(Top.found, at) \in Seq(Nat)
    BY <1>2, <1>3, AppendProperties
  <2>2. QED
    BY <1>6, <2>1 DEF FrameOf
<1>8. new \in FrameOf /\ new.at = at /\ new.node = kid /\ new.left = Kids(kid) /\ new.found = <<>>
  <2>1. Kids(kid) \in SUBSET Node /\ <<>> \in Seq(Nat)
    BY <1>3, TraceFacts
  <2>2. QED
    BY <1>2, <1>4, <2>1 DEF Frame, FrameOf
<1> HIDE DEF e, caller, new
<1>9. /\ calls' \in Seq(CallEntry) /\ Len(calls') = at /\ calls'[at] = e
       /\ \A i \in 1..Len(calls) : calls'[i] = calls[i]
  BY <1>1, <1>3, <1>5, AppendProperties DEF at
<1>10. Places(calls') = Places(calls) \cup {at}
  BY <1>2, <1>9 DEF Places, at
<1>11. /\ kept \in Seq(FrameOf) /\ Len(kept) = L /\ kept[L] = caller
       /\ \A f \in 1..(L - 1) : kept[f] = stack[f]
  BY <1>2, <1>3, <1>7 DEF L
<1> HIDE DEF kept
<1>12. /\ stack' \in Seq(FrameOf) /\ Len(stack') = L + 1
       /\ \A f \in 1..L : stack'[f] = kept[f]
       /\ stack'[L + 1] = new
  <2>1. <<new>> \in Seq(FrameOf) /\ Len(<<new>>) = 1 /\ <<new>>[1] = new
    BY <1>8
  <2>2. QED
    BY <1>1, <1>2, <1>11, <2>1, ConcatProperties
<1>13. \A f \in 1..(L - 1) : stack'[f] = stack[f]
  BY <1>2, <1>11, <1>12
<1>14. stack'[L] = caller
  BY <1>2, <1>11, <1>12
<1>15. QED
  BY <1>1, <1>4, <1>5, <1>7, <1>8, <1>9, <1>10, <1>12, <1>13, <1>14 DEF Places, L, kid, at

LEMMA EnterStep == WalkInv /\ Enter => WalkInv'
<1> SUFFICES ASSUME WalkInv, Enter PROVE WalkInv'
  OBVIOUS
<1> WalkTypes /\ EntriesOK /\ FramesOK /\ DoneOK
  BY DEF WalkInv
<1> DEFINE L == Len(stack)
           kid == First(Top.left)
           at == Len(calls) + 1
<1>1. /\ kid \in Top.left /\ \A other \in Top.left : kid <= other
      /\ Len(calls') = at /\ calls' \in Seq(CallEntry) /\ Places(calls') = Places(calls) \cup {at}
      /\ \A i \in Places(calls) : calls'[i] = calls[i]
      /\ calls'[at].node = kid /\ calls'[at].depth = L - 1
      /\ Len(stack') = L + 1 /\ stack' \in Seq(FrameOf)
      /\ \A f \in 1..(L - 1) : stack'[f] = stack[f]
      /\ stack'[L].at = Top.at /\ stack'[L].node = Top.node
      /\ stack'[L].left = Top.left \ {kid} /\ stack'[L].found = Append(Top.found, at)
      /\ stack'[L + 1].at = at /\ stack'[L + 1].node = kid
      /\ stack'[L + 1].left = Kids(kid) /\ stack'[L + 1].found = <<>>
      /\ trace' = trace
  BY EnterFacts
<1>2. /\ L \in Nat \ {0} /\ L \in Places(stack) /\ Len(calls) \in Nat /\ Top = stack[L]
      /\ Top.left \in SUBSET Node /\ Top.found \in Seq(Nat) /\ Top.at \in Nat
      /\ trace \in Traces /\ stack # <<>>
  <2>1. stack # <<>>
    BY DEF Enter
  <2>2. QED
    BY <2>1, TopFacts DEF WalkTypes, FrameOf
<1> HIDE DEF kid, at, L
<1>3. /\ at \in Nat /\ at \notin Places(calls) /\ at \in Places(calls')
      /\ \A i \in Places(calls) : i \in Nat /\ i < at
  BY <1>1, <1>2 DEF Places, at
<1>4. FrameOK(calls, Top, L)
  BY <1>2 DEF FramesOK
<1>5. /\ kid \in Node /\ trace.parent[kid] = Top.node /\ kid \in Kids(Top.node)
      /\ ~Entered(calls, kid)
  <2>1. kid \in Kids(Top.node)
    BY <1>1, <1>4 DEF FrameOK
  <2>2. QED
    BY <1>1, <1>2, <1>4, <2>1, TraceFacts DEF FrameOK
<1>6. \A x : Entered(calls', x) <=> (Entered(calls, x) \/ x = kid)
  BY <1>1 DEF Entered
<1>7. ASSUME NEW found, NEW place, NEW depth, NEW K, Lists(calls, found, place, depth, K)
      PROVE  Lists(calls', found, place, depth, K)
  <2>1. /\ Places(calls) \subseteq Places(calls')
        /\ \A i \in Places(calls) :
             calls'[i].node = calls[i].node /\ calls'[i].depth = calls[i].depth
    BY <1>1
  <2>2. QED
    BY <1>7, <2>1, ListsKept, Zenon
<1>8. /\ Node' = Node /\ \A x : Kids(x)' = Kids(x)
      /\ Places(stack') = 1..(L + 1) /\ Places(stack) = 1..L
  BY <1>1 DEF Node, Kids, Places, L
<1>9. WalkTypes'
  <2>1. CallEntry' = CallEntry /\ FrameOf' = FrameOf
    BY <1>1, <1>8 DEF CallEntry, FrameOf
  <2>2. QED
    BY <1>1, <1>2, <2>1 DEF WalkTypes
<1>10. L = 1 <=> Top.node = 0
  <2>1. L = 1 => Top.node = 0
    BY <1>4 DEF FrameOK
  <2>2. CASE L # 1
    <3>1. L > 1
      BY <1>2, <2>2
    <3>2. Top.node \in Node
      BY <1>4, <3>1, EntryFacts DEF FrameOK
    <3>3. QED
      BY <1>2, <2>2, <3>2, TraceFacts
  <2>3. QED
    BY <2>1, <2>2
<1>11. EntriesOK'
  <2>1. ASSUME NEW i \in Places(calls'), NEW j \in Places(calls'), calls'[i].node = calls'[j].node
        PROVE  i = j
    <3>1. CASE i \in Places(calls) /\ j \in Places(calls)
      BY <1>1, <2>1, <3>1 DEF EntriesOK
    <3>2. CASE i = at /\ j = at
      BY <3>2
    <3>3. CASE i \in Places(calls) /\ j = at
      BY <1>1, <1>5, <2>1, <3>3 DEF Entered
    <3>4. CASE i = at /\ j \in Places(calls)
      BY <1>1, <1>5, <2>1, <3>4 DEF Entered
    <3>5. QED
      BY <1>1, <3>1, <3>2, <3>3, <3>4
  <2>2. ASSUME NEW i \in Places(calls')
        PROVE  /\ trace.parent[calls'[i].node] = 0 \/ Entered(calls', trace.parent[calls'[i].node])
               /\ calls'[i].depth = 0 <=> trace.parent[calls'[i].node] = 0
    <3>1. CASE i \in Places(calls)
      BY <1>1, <1>6, <3>1 DEF EntriesOK
    <3>2. CASE i = at
      <4>1. calls'[i].node = kid /\ calls'[i].depth = L - 1 /\ trace.parent[kid] = Top.node
        BY <1>1, <1>5, <3>2
      <4>2. L - 1 = 0 <=> Top.node = 0
        BY <1>2, <1>10
      <4>3. L # 1 => Entered(calls, Top.node)
        BY <1>2, <1>4 DEF FrameOK, Entered
      <4>4. QED
        BY <1>6, <1>10, <4>1, <4>2, <4>3
    <3>3. QED
      BY <1>1, <3>1, <3>2
  <2>3. QED
    BY <1>1, <2>1, <2>2 DEF EntriesOK
<1>12. FrameOK(calls', stack'[L + 1], L + 1)
  <2> DEFINE new == stack'[L + 1]
  <2>1. L + 1 > 1 /\ L + 1 # 1 /\ (L + 1) - 2 = L - 1 /\ (L + 1) - 1 = L
    BY <1>2
  <2>2. new.at \in Places(calls') /\ calls'[new.at].node = new.node /\ calls'[new.at].depth = (L + 1) - 2
    BY <1>1, <2>1
  <2>3. \A other \in Kids(kid) : ~Entered(calls', other)
    <3> SUFFICES ASSUME NEW other \in Kids(kid), Entered(calls', other) PROVE FALSE
      OBVIOUS
    <3>1. trace.parent[other] = kid /\ other \in Node /\ trace.parent[other] < other /\ other \in Nat
      BY <1>2, TraceFacts
    <3>2. Entered(calls, other)
      BY <1>6, <3>1
    <3>3. kid = 0 \/ Entered(calls, kid)
      BY <3>1, <3>2 DEF Entered, EntriesOK
    <3>4. QED
      BY <1>2, <1>5, <3>3, TraceFacts
  <2>4. Places(new.found) = {} /\ Kids(new.node) \ new.left = {}
    BY <1>1 DEF Places
  <2>5. Lists(calls', new.found, new.at, (L + 1) - 1, Kids(new.node) \ new.left)
    BY <2>4 DEF Lists
  <2>6. new.left = Kids(new.node) /\ new.node = kid
    BY <1>1
  <2> HIDE DEF new
  <2>7. FrameOK(calls', new, L + 1)
    BY <2>1, <2>2, <2>3, <2>4, <2>5, <2>6, Zenon DEF FrameOK
  <2>8. QED
    BY <2>7 DEF new
<1>13. FrameOK(calls', stack'[L], L)
  <2> DEFINE caller == stack'[L]
             old == Top.found
             last == Len(old) + 1
             K == Kids(Top.node) \ Top.left
  <2>1. /\ last \in Nat /\ Len(old) \in Nat /\ Places(caller.found) = Places(old) \cup {last}
        /\ \A n \in Places(old) : caller.found[n] = old[n] /\ n < last /\ n \in Nat
        /\ caller.found[last] = at
    <3>1. old \in Seq(Nat) /\ at \in Nat /\ caller.found = Append(old, at)
      BY <1>1, <1>2, <1>3
    <3> HIDE DEF caller, old
    <3>2. /\ Len(old) \in Nat /\ Len(caller.found) = last /\ caller.found[last] = at
          /\ \A n \in 1..Len(old) : caller.found[n] = old[n]
      BY <3>1, AppendProperties
    <3>3. 1..last = 1..Len(old) \cup {last} /\ \A n \in 1..Len(old) : n < last /\ n \in Nat
      BY <3>2
    <3>4. QED
      BY <3>2, <3>3 DEF Places
  <2>2. Kids(caller.node) \ caller.left = K \cup {kid}
    BY <1>1, <1>5
  <2>3. Lists(calls, old, Top.at, L - 1, K) /\ Lists(calls', old, Top.at, L - 1, K)
    BY <1>4, <1>7 DEF FrameOK
  <2>4. Top.at < at
    <3>1. CASE L = 1
      BY <1>2, <1>3, <1>4, <3>1 DEF FrameOK, at
    <3>2. CASE L # 1
      BY <1>2, <1>3, <1>4, <3>2 DEF FrameOK
    <3>3. QED
      BY <3>1, <3>2
  <2>5. \A n \in Places(old) : old[n] \in Places(calls) /\ calls[old[n]].node < kid
    BY <1>1, <1>4, <2>3 DEF FrameOK, Lists
  <2>6. Lists(calls', caller.found, caller.at, L - 1, K \cup {kid})
    <3>1. \A n \in Places(caller.found) :
            /\ caller.found[n] \in Places(calls')
            /\ caller.at < caller.found[n]
            /\ calls'[caller.found[n]].depth = L - 1
            /\ calls'[caller.found[n]].node \in K \cup {kid}
      <4> SUFFICES ASSUME NEW n \in Places(caller.found)
                   PROVE  /\ caller.found[n] \in Places(calls')
                          /\ caller.at < caller.found[n]
                          /\ calls'[caller.found[n]].depth = L - 1
                          /\ calls'[caller.found[n]].node \in K \cup {kid}
        OBVIOUS
      <4>1. caller.at = Top.at
        BY <1>1
      <4>2. CASE n \in Places(old)
        BY <2>1, <2>3, <4>1, <4>2 DEF Lists
      <4>3. CASE n = last
        <5>1. caller.found[n] = at
          BY <2>1, <4>3
        <5>2. QED
          BY <1>1, <1>3, <2>4, <4>1, <5>1
      <4>4. QED
        BY <2>1, <4>2, <4>3
    <3>2. ASSUME NEW x \in K \cup {kid}
          PROVE  \E n \in Places(caller.found) : calls'[caller.found[n]].node = x
      <4>1. CASE x \in K
        <5>1. PICK n \in Places(old) : calls'[old[n]].node = x
          BY <2>3, <4>1 DEF Lists
        <5>2. n \in Places(caller.found) /\ caller.found[n] = old[n]
          BY <2>1
        <5>3. QED
          BY <5>1, <5>2
      <4>2. CASE x = kid
        <5>1. last \in Places(caller.found) /\ calls'[caller.found[last]].node = kid
          BY <1>1, <2>1
        <5>2. QED
          BY <4>2, <5>1
      <4>3. QED
        BY <4>1, <4>2
    <3>3. ASSUME NEW m \in Places(caller.found), NEW n \in Places(caller.found), m < n
          PROVE  calls'[caller.found[m]].node < calls'[caller.found[n]].node
      <4>1. m \in Places(old)
        BY <2>1, <3>3
      <4>2. CASE n \in Places(old)
        BY <2>1, <2>3, <3>3, <4>1, <4>2 DEF Lists
      <4>3. CASE n = last
        <5>1. caller.found[m] = old[m] /\ calls'[old[m]] = calls[old[m]] /\ calls[old[m]].node < kid
          BY <1>1, <2>1, <2>5, <4>1
        <5>2. calls'[caller.found[n]].node = kid
          BY <1>1, <2>1, <4>3
        <5>3. QED
          BY <5>1, <5>2
      <4>4. QED
        BY <2>1, <4>2, <4>3
    <3>4. QED
      BY <3>1, <3>2, <3>3 DEF Lists
  <2>7. \A other \in caller.left : ~Entered(calls', other)
    BY <1>1, <1>4, <1>6 DEF FrameOK
  <2>8. \A n \in Places(caller.found), other \in caller.left : calls'[caller.found[n]].node < other
    <3> SUFFICES ASSUME NEW n \in Places(caller.found), NEW other \in caller.left
                 PROVE  calls'[caller.found[n]].node < other
      OBVIOUS
    <3>1. other \in Top.left /\ other # kid /\ kid <= other /\ other \in Nat /\ kid \in Nat
      BY <1>1, <1>2, <1>5, TraceFacts
    <3>2. CASE n \in Places(old)
      <4>1. calls[old[n]].node < other
        BY <1>4, <3>1, <3>2 DEF FrameOK
      <4>2. QED
        BY <1>1, <2>1, <2>5, <3>2, <4>1
    <3>3. CASE n = last
      BY <1>1, <2>1, <3>1, <3>3
    <3>4. QED
      BY <2>1, <3>2, <3>3
  <2>9. /\ L = 1 => caller.at = 0 /\ caller.node = 0
        /\ L > 1 => /\ caller.at \in Places(calls') /\ calls'[caller.at].node = caller.node
                     /\ calls'[caller.at].depth = L - 2
        /\ caller.left \subseteq Kids(caller.node)
    BY <1>1, <1>4 DEF FrameOK
  <2> HIDE DEF caller, K
  <2>10. Lists(calls', caller.found, caller.at, L - 1, Kids(caller.node) \ caller.left)
    BY <2>2, <2>6
  <2>11. FrameOK(calls', caller, L)
    BY <2>7, <2>8, <2>9, <2>10, Zenon DEF FrameOK
  <2>12. QED
    BY <2>11 DEF caller
<1>14. \A f \in 1..(L - 1) : FrameOK(calls', stack'[f], f)
  <2> SUFFICES ASSUME NEW f \in 1..(L - 1) PROVE FrameOK(calls', stack'[f], f)
    OBVIOUS
  <2> DEFINE s == stack[f]
  <2>1. stack'[f] = s /\ f \in Places(stack) /\ f < L
    BY <1>1, <1>2, <1>8
  <2>2. FrameOK(calls, s, f)
    BY <2>1 DEF FramesOK
  <2>3. s.node # Top.node
    BY <1>2, <2>1, FramesApart
  <2>4. kid \notin s.left
    BY <1>2, <1>5, <2>2, <2>3, TraceFacts DEF FrameOK
  <2>5. \A other \in s.left : ~Entered(calls', other)
    BY <1>6, <2>2, <2>4 DEF FrameOK
  <2>6. Lists(calls, s.found, s.at, f - 1, Kids(s.node) \ s.left)
    BY <2>2 DEF FrameOK
  <2>7. Lists(calls', s.found, s.at, f - 1, Kids(s.node) \ s.left)
    BY <1>7, <2>6
  <2>8. \A n \in Places(s.found), other \in s.left : calls'[s.found[n]].node < other
    BY <1>1, <2>2, <2>6 DEF FrameOK, Lists
  <2>9. /\ f = 1 => s.at = 0 /\ s.node = 0
        /\ f > 1 => s.at \in Places(calls') /\ calls'[s.at].node = s.node /\ calls'[s.at].depth = f - 2
        /\ s.left \subseteq Kids(s.node)
    BY <1>1, <2>2 DEF FrameOK
  <2> HIDE DEF s
  <2>10. FrameOK(calls', s, f)
    BY <2>5, <2>7, <2>8, <2>9, Zenon DEF FrameOK
  <2>11. QED
    BY <2>1, <2>10
<1>15. FramesOK'
  <2>1. \A f \in 1..(L + 1) : f \in 1..(L - 1) \/ f = L \/ f = L + 1
    BY <1>2
  <2>2. \A f \in Places(stack') : FrameOK(calls', stack'[f], f)
    BY <1>8, <1>12, <1>13, <1>14, <2>1
  <2>3. \A x, y : FrameOK(calls, x, y)' <=> FrameOK(calls', x, y)
    BY <1>8 DEF FrameOK, Lists, Entered
  <2>4. \A f \in 1..L : stack'[f].at = stack[f].at /\ stack[f].at \in Nat /\ stack[f].at < at
    <3> SUFFICES ASSUME NEW f \in 1..L PROVE stack'[f].at = stack[f].at /\ stack[f].at \in Nat /\ stack[f].at < at
      OBVIOUS
    <3>1. stack'[f].at = stack[f].at
      <4>1. CASE f = L
        BY <1>1, <1>2, <4>1
      <4>2. CASE f # L
        <5>1. f \in 1..(L - 1)
          BY <1>2, <4>2
        <5>2. QED
          BY <1>1, <5>1
      <4>3. QED
        BY <4>1, <4>2
    <3>2. FrameOK(calls, stack[f], f) /\ stack[f].at \in Nat
      BY <1>8, FrameFacts DEF FramesOK
    <3>3. CASE f = 1
      BY <1>2, <3>1, <3>2, <3>3 DEF FrameOK, at
    <3>4. CASE f # 1
      BY <1>3, <3>1, <3>2, <3>4 DEF FrameOK
    <3>5. QED
      BY <3>3, <3>4
  <2>5. ASSUME NEW f \in Places(stack'), NEW g \in Places(stack'), f < g
        PROVE  stack'[f].at < stack'[g].at
    <3>1. f \in 1..L
      BY <1>2, <1>8, <2>5
    <3>2. CASE g \in 1..L
      BY <1>8, <2>4, <2>5, <3>1, <3>2 DEF FramesOK
    <3>3. CASE g = L + 1
      BY <1>1, <2>4, <3>1, <3>3
    <3>4. QED
      BY <1>2, <1>8, <3>2, <3>3
  <2>6. QED
    BY <2>2, <2>3, <2>5 DEF FramesOK
<1>16. DoneOK'
  <2>1. stack' # <<>>
    BY <1>1, <1>2
  <2>2. \A i : OnStack(stack', i) <=> (OnStack(stack, i) \/ i = at)
    <3>1. \A f \in 1..(L + 1) : f \in 1..L \/ f = L + 1
      BY <1>2
    <3>2. \A f \in 1..L : f \in 1..(L - 1) \/ f = L
      BY <1>2
    <3>3. \A f \in 1..L : stack'[f].at = stack[f].at /\ f \in 1..(L + 1)
      <4>1. stack'[L].at = stack[L].at
        BY <1>1, <1>2
      <4>2. \A f \in 1..L : f \in 1..(L + 1)
        BY <1>2
      <4>3. QED
        BY <1>1, <3>2, <4>1, <4>2
    <3>4. L + 1 \in 1..(L + 1)
      BY <1>2
    <3>5. QED
      BY <1>1, <1>8, <3>1, <3>3, <3>4 DEF OnStack
  <2>3. ASSUME NEW i \in Places(calls'), ~OnStack(stack', i)
        PROVE  Lists(calls', calls'[i].children, i, calls'[i].depth + 1, Kids(calls'[i].node))
    <3>1. i \in Places(calls) /\ ~OnStack(stack, i) /\ calls'[i] = calls[i]
      BY <1>1, <2>2, <2>3
    <3>2. QED
      BY <1>7, <3>1 DEF DoneOK
  <2>4. \A i \in Places(calls) :
           Lists(calls, calls[i].children, i, calls[i].depth + 1, Kids(calls[i].node))'
       <=> Lists(calls', calls'[i].children, i, calls'[i].depth + 1, Kids(calls'[i].node))
    BY <1>8 DEF Lists
  <2>5. QED
    BY <1>8, <2>1, <2>3 DEF DoneOK, Walked, Lists, OnStack
<1>17. QED
  BY <1>9, <1>11, <1>15, <1>16 DEF WalkInv

\* The last frame goes, and leaves what it found with its entry.
LEMMA LeaveFacts ==
  ASSUME WalkTypes, FramesOK, Leave
  PROVE  LET depth == Len(stack)
         IN  /\ Top.left = {} /\ trace' = trace
             /\ Len(stack') = depth - 1 /\ stack' \in Seq(FrameOf) /\ (depth = 1 => stack' = <<>>)
             /\ \A f \in 1..(depth - 1) : stack'[f] = stack[f]
             /\ calls' \in Seq(CallEntry) /\ Len(calls') = Len(calls)
             /\ \A i \in Places(calls) :
                  /\ calls'[i].node = calls[i].node /\ calls'[i].depth = calls[i].depth
                  /\ i # Top.at => calls'[i].children = calls[i].children
             /\ depth # 1 => Top.at \in Places(calls) /\ calls'[Top.at].children = Top.found
<1> DEFINE L == Len(stack)
<1>1. /\ stack # <<>> /\ Top.left = {} /\ trace' = trace
      /\ calls' = IF Top.at = 0 THEN calls ELSE [calls EXCEPT ![Top.at].children = Top.found]
      /\ stack' = SubSeq(stack, 1, L - 1)
  BY DEF Leave
<1>2. /\ L \in Nat \ {0} /\ L \in Places(stack) /\ Top = stack[L] /\ Len(calls) \in Nat
      /\ Top.found \in Seq(Nat) /\ Top.at \in Nat
      /\ calls \in Seq(CallEntry) /\ stack \in Seq(FrameOf)
  BY <1>1, TopFacts DEF WalkTypes, FrameOf
<1>3. FrameOK(calls, Top, L)
  BY <1>2 DEF FramesOK
<1> HIDE DEF L
<1>4. Len(stack') = L - 1 /\ stack' \in Seq(FrameOf) /\ \A f \in 1..(L - 1) : stack'[f] = stack[f]
  <2>1. L - 1 \in Int /\ \A i \in 1..(L - 1) : stack[i] \in FrameOf /\ (1 + i) - 1 = i
    BY <1>2 DEF L
  <2>2. /\ SubSeq(stack, 1, L - 1) \in Seq(FrameOf)
        /\ Len(SubSeq(stack, 1, L - 1)) = IF 1 <= L - 1 THEN ((L - 1) - 1) + 1 ELSE 0
        /\ \A i \in 1..(((L - 1) - 1) + 1) : SubSeq(stack, 1, L - 1)[i] = stack[(1 + i) - 1]
    BY <2>1, SubSeqProperties
  <2>3. ((L - 1) - 1) + 1 = L - 1 /\ (1 <= L - 1 \/ L - 1 = 0)
    BY <1>2
  <2>4. QED
    BY <1>1, <2>1, <2>2, <2>3
<1>5. L = 1 => stack' = <<>>
  BY <1>2, <1>4, EmptySeq
<1>6. CASE Top.at = 0
  <2>1. L = 1
    BY <1>2, <1>3, <1>6 DEF FrameOK, Places
  <2>2. QED
    BY <1>1, <1>2, <1>4, <1>5, <1>6, <2>1 DEF L
<1>7. CASE Top.at # 0
  <2>1. Top.at \in Places(calls) /\ L # 1
    BY <1>2, <1>3, <1>7 DEF FrameOK
  <2> DEFINE e == calls[Top.at]
             filled == [e EXCEPT !.children = Top.found]
  <2>2. calls' = [calls EXCEPT ![Top.at] = filled]
    BY <1>1, <1>7
  <2>3. e \in CallEntry
    BY <2>1, EntryFacts
  <2>4. /\ filled \in CallEntry /\ filled.node = e.node /\ filled.depth = e.depth
        /\ filled.children = Top.found
    BY <1>2, <2>3 DEF CallEntry
  <2> HIDE DEF filled
  <2>5. /\ calls' \in Seq(CallEntry) /\ Len(calls') = Len(calls) /\ calls'[Top.at] = filled
        /\ \A i \in Places(calls) : i # Top.at => calls'[i] = calls[i]
    BY <1>2, <2>1, <2>2, <2>4, ExceptSeq DEF Places
  <2>6. \A i \in Places(calls) :
          /\ calls'[i].node = calls[i].node /\ calls'[i].depth = calls[i].depth
          /\ i # Top.at => calls'[i].children = calls[i].children
    BY <2>4, <2>5
  <2>7. QED
    BY <1>1, <1>4, <1>5, <2>1, <2>4, <2>5, <2>6 DEF L
<1>8. QED
  BY <1>6, <1>7

LEMMA LeaveStep == WalkInv /\ Leave => WalkInv'
<1> SUFFICES ASSUME WalkInv, Leave PROVE WalkInv'
  OBVIOUS
<1> WalkTypes /\ EntriesOK /\ FramesOK /\ DoneOK
  BY DEF WalkInv
<1> DEFINE L == Len(stack)
<1>1. /\ Top.left = {} /\ trace' = trace
      /\ Len(stack') = L - 1 /\ stack' \in Seq(FrameOf) /\ (L = 1 => stack' = <<>>)
      /\ \A f \in 1..(L - 1) : stack'[f] = stack[f]
      /\ calls' \in Seq(CallEntry) /\ Len(calls') = Len(calls)
      /\ \A i \in Places(calls) :
           /\ calls'[i].node = calls[i].node /\ calls'[i].depth = calls[i].depth
           /\ i # Top.at => calls'[i].children = calls[i].children
      /\ L # 1 => Top.at \in Places(calls) /\ calls'[Top.at].children = Top.found
  BY LeaveFacts
<1>2. /\ L \in Nat \ {0} /\ L \in Places(stack) /\ Top = stack[L] /\ stack # <<>>
      /\ trace \in Traces
  <2>1. stack # <<>>
    BY DEF Leave
  <2>2. QED
    BY <2>1, TopFacts DEF WalkTypes
<1>3. FrameOK(calls, Top, L)
  BY <1>2 DEF FramesOK
<1>4. /\ Places(calls') = Places(calls) /\ Node' = Node /\ \A x : Kids(x)' = Kids(x)
      /\ Places(stack') = 1..(L - 1) /\ Places(stack) = 1..L
  BY <1>1 DEF Node, Kids, Places
<1> HIDE DEF L
<1>5. \A x : Entered(calls', x) <=> Entered(calls, x)
  BY <1>1, <1>4 DEF Entered
<1>6. ASSUME NEW found, NEW place, NEW depth, NEW K, Lists(calls, found, place, depth, K)
      PROVE  Lists(calls', found, place, depth, K)
  <2>1. /\ Places(calls) \subseteq Places(calls')
        /\ \A i \in Places(calls) :
             calls'[i].node = calls[i].node /\ calls'[i].depth = calls[i].depth
    BY <1>1, <1>4
  <2>2. QED
    BY <1>6, <2>1, ListsKept, Zenon
<1>7. WalkTypes'
  <2>1. CallEntry' = CallEntry /\ FrameOf' = FrameOf
    BY <1>1, <1>4 DEF CallEntry, FrameOf
  <2>2. QED
    BY <1>1, <1>2, <2>1 DEF WalkTypes
<1>8. EntriesOK'
  BY <1>1, <1>4, <1>5 DEF EntriesOK
<1>9. \A f \in 1..(L - 1) : FrameOK(calls', stack'[f], f)
  <2> SUFFICES ASSUME NEW f \in 1..(L - 1) PROVE FrameOK(calls', stack'[f], f)
    OBVIOUS
  <2> DEFINE s == stack[f]
  <2>1. stack'[f] = s /\ f \in Places(stack)
    BY <1>1, <1>2, <1>4
  <2>2. FrameOK(calls, s, f)
    BY <2>1 DEF FramesOK
  <2>3. Lists(calls, s.found, s.at, f - 1, Kids(s.node) \ s.left)
    BY <2>2 DEF FrameOK
  <2>4. Lists(calls', s.found, s.at, f - 1, Kids(s.node) \ s.left)
    BY <1>6, <2>3
  <2>5. \A n \in Places(s.found), other \in s.left : calls'[s.found[n]].node < other
    BY <1>1, <2>2, <2>3 DEF FrameOK, Lists
  <2>6. \A other \in s.left : ~Entered(calls', other)
    BY <1>5, <2>2 DEF FrameOK
  <2>7. /\ f = 1 => s.at = 0 /\ s.node = 0
        /\ f > 1 => s.at \in Places(calls') /\ calls'[s.at].node = s.node /\ calls'[s.at].depth = f - 2
        /\ s.left \subseteq Kids(s.node)
    BY <1>1, <1>4, <2>2 DEF FrameOK
  <2> HIDE DEF s
  <2>8. FrameOK(calls', s, f)
    BY <2>4, <2>5, <2>6, <2>7, Zenon DEF FrameOK
  <2>9. QED
    BY <2>1, <2>8
<1>10. FramesOK'
  <2>1. \A x, y : FrameOK(calls, x, y)' <=> FrameOK(calls', x, y)
    BY <1>4 DEF FrameOK, Lists, Entered
  <2>2. ASSUME NEW f \in Places(stack'), NEW g \in Places(stack'), f < g
        PROVE  stack'[f].at < stack'[g].at
    <3>1. f \in Places(stack) /\ g \in Places(stack) /\ stack'[f] = stack[f] /\ stack'[g] = stack[g]
      BY <1>1, <1>2, <1>4
    <3>2. QED
      BY <2>2, <3>1 DEF FramesOK
  <2>3. QED
    BY <1>4, <1>9, <2>1, <2>2 DEF FramesOK
<1>11. \A i : OnStack(stack, i) => OnStack(stack', i) \/ i = Top.at
  <2>1. \A f \in 1..L : f \in 1..(L - 1) \/ f = L
    BY <1>2
  <2>2. QED
    BY <1>1, <1>2, <1>4, <2>1 DEF OnStack
<1>12. DoneOK'
  <2>1. ASSUME NEW i \in Places(calls'), ~OnStack(stack', i)
        PROVE  Lists(calls', calls'[i].children, i, calls'[i].depth + 1, Kids(calls'[i].node))
    <3>1. CASE i # Top.at
      <4>1. i \in Places(calls) /\ ~OnStack(stack, i)
        BY <1>4, <1>11, <2>1, <3>1
      <4>2. Lists(calls, calls[i].children, i, calls[i].depth + 1, Kids(calls[i].node))
        BY <4>1 DEF DoneOK
      <4>3. Lists(calls', calls[i].children, i, calls[i].depth + 1, Kids(calls[i].node))
        BY <1>6, <4>2
      <4>4. QED
        BY <1>1, <3>1, <4>1, <4>3
    <3>2. CASE i = Top.at
      <4>1. L # 1 /\ i \in Places(calls) /\ i \in Nat /\ i > 0
        BY <1>3, <1>4, <2>1, <3>2, TopFacts, <1>2 DEF FrameOK, Places
      <4>2. /\ calls'[i].children = Top.found /\ calls'[i].node = Top.node
            /\ calls'[i].depth = L - 2
        BY <1>1, <1>2, <1>3, <3>2, <4>1 DEF FrameOK
      <4>3. Lists(calls, Top.found, Top.at, L - 1, Kids(Top.node) \ Top.left)
        BY <1>3 DEF FrameOK
      <4>4. Kids(Top.node) \ Top.left = Kids(Top.node) /\ (L - 2) + 1 = L - 1
        BY <1>1, <1>2
      <4>5. QED
        BY <1>6, <3>2, <4>2, <4>3, <4>4
    <3>3. QED
      BY <3>1, <3>2
  <2>2. ASSUME stack' = <<>>, NEW kid \in Kids(0) PROVE Entered(calls', kid)
    <3>1. L = 1
      BY <1>1, <1>2, <2>2
    <3>2. Lists(calls, Top.found, Top.at, L - 1, Kids(0))
      BY <1>1, <1>3, <3>1 DEF FrameOK
    <3>3. PICK n \in Places(Top.found) : calls[Top.found[n]].node = kid /\ Top.found[n] \in Places(calls)
      BY <3>2 DEF Lists
    <3>4. QED
      BY <1>5, <3>3 DEF Entered
  <2>3. QED
    BY <1>4, <2>1, <2>2 DEF DoneOK, Walked, Lists, OnStack, Entered
<1>13. QED
  BY <1>7, <1>8, <1>10, <1>12 DEF WalkInv

\* A step that leaves the walk alone.
LEMMA SameWalk == WalkInv /\ UNCHANGED walkVars => WalkInv'
<1> SUFFICES ASSUME WalkInv, UNCHANGED walkVars PROVE WalkInv'
  OBVIOUS
<1>1. trace' = trace /\ stack' = stack /\ calls' = calls
  BY DEF walkVars
<1>2. Node' = Node /\ CallEntry' = CallEntry /\ FrameOf' = FrameOf /\ \A x : Kids(x)' = Kids(x)
  BY <1>1 DEF Node, CallEntry, FrameOf, Kids
<1>3. WalkTypes'
  BY <1>1, <1>2 DEF WalkInv, WalkTypes
<1>4. EntriesOK'
  BY <1>1 DEF WalkInv, EntriesOK, Entered, Places
<1>5. FramesOK'
  <2>1. \A x, y : FrameOK(calls, x, y)' <=> FrameOK(calls', x, y)
    BY <1>2 DEF FrameOK, Lists, Entered
  <2>2. \A x, y : FrameOK(calls, x, y)' <=> FrameOK(calls, x, y)
    BY <1>1, <2>1
  <2>3. QED
    BY <1>1, <2>2 DEF WalkInv, FramesOK, Places
<1>6. DoneOK'
  <2>1. \A found, at, depth, x :
          Lists(calls, found, at, depth, Kids(x))' <=> Lists(calls', found, at, depth, Kids(x))
    BY <1>2 DEF Lists
  <2>2. \A found, at, depth, x :
          Lists(calls, found, at, depth, Kids(x))' <=> Lists(calls, found, at, depth, Kids(x))
    BY <1>1, <2>1
  <2>3. \A x : Entered(calls, x)' <=> Entered(calls, x)
    BY <1>1 DEF Entered
  <2>4. QED
    BY <1>1, <1>2, <2>2, <2>3 DEF WalkInv, DoneOK, Walked, OnStack, Places
<1>7. QED
  BY <1>3, <1>4, <1>5, <1>6 DEF WalkInv

-----------------------------------------------------------------------------
(***************************************************************************)
(* The theorems.                                                           *)
(***************************************************************************)
\* While the trace is walked, every frame has listed the calls made so far,
\* and every entry that was left has listed them all (decoder.rs walk_trace).
THEOREM WalkInvariant == WalkSpec => []WalkInv
<1>1. WalkInv /\ [WalkNext]_walkVars => WalkInv'
  <2> SUFFICES ASSUME WalkInv, [WalkNext]_walkVars PROVE WalkInv'
    OBVIOUS
  <2>1. CASE Enter
    BY <2>1, EnterStep
  <2>2. CASE Leave
    BY <2>2, LeaveStep
  <2>3. CASE UNCHANGED walkVars
    BY <2>3, SameWalk
  <2>4. QED
    BY <2>1, <2>2, <2>3 DEF WalkNext
<1>2. QED
  BY InitWalk, <1>1, PTL DEF WalkSpec

\* Once the walk is over no call is missing: the least one that were has a
\* caller that was entered, and whose entry lists all its calls.
LEMMA AllEntered ==
  ASSUME WalkInv, Walked, NEW node \in Node
  PROVE  Entered(calls, node)
<1> WalkTypes /\ EntriesOK /\ FramesOK /\ DoneOK
  BY DEF WalkInv
<1> DEFINE Unseen == {c \in Node : ~Entered(calls, c)}
<1> SUFFICES ASSUME Unseen # {} PROVE FALSE
  OBVIOUS
<1>1. trace \in Traces /\ Unseen \in SUBSET Nat
  BY TraceFacts DEF WalkTypes
<1>2. PICK m \in Unseen : \A n \in Unseen : m <= n
  BY <1>1, Least
<1> DEFINE caller == trace.parent[m]
<1>3. m \in Node /\ ~Entered(calls, m) /\ m \in Nat /\ m \in Kids(caller)
      /\ caller \in 0..trace.size /\ caller < m /\ trace.size \in Nat
  BY <1>1, TraceFacts DEF Kids, Node
<1>4. CASE caller = 0
  BY <1>3, <1>4 DEF DoneOK
<1>5. CASE caller # 0
  <2>1. caller \in Node /\ caller \notin Unseen
    BY <1>2, <1>3, <1>5 DEF Node
  <2>2. PICK i \in Places(calls) : calls[i].node = caller
    BY <2>1 DEF Entered
  <2>3. ~OnStack(stack, i)
    BY DEF OnStack, Walked, Places
  <2>4. Lists(calls, calls[i].children, i, calls[i].depth + 1, Kids(caller))
    BY <2>2, <2>3 DEF DoneOK
  <2>5. QED
    BY <1>3, <2>4 DEF Lists, Entered
<1>6. QED
  BY <1>4, <1>5

LEMMA Counted == ASSUME NEW n \in Nat PROVE IsFiniteSet(1..n) /\ Cardinality(1..n) = n
<1>1. 1 \in Int /\ n \in Int /\ (1 > n => n = 0) /\ (n - 1) + 1 = n
  OBVIOUS
<1>2. IsFiniteSet(1..n) /\ Cardinality(1..n) = IF 1 > n THEN 0 ELSE (n - 1) + 1
  BY <1>1, FS_Interval
<1>3. QED
  BY <1>1, <1>2

LEMMA WalkedIsTree == WalkInv => FlatIsTheTree
<1> SUFFICES ASSUME WalkInv, Walked PROVE FlatIsTheTree
  BY DEF FlatIsTheTree
<1> WalkTypes /\ EntriesOK /\ FramesOK /\ DoneOK
  BY DEF WalkInv
<1>1. /\ trace.size \in Nat /\ Len(calls) \in Nat /\ DOMAIN calls = Places(calls)
  BY TraceFacts DEF WalkTypes, Places
<1>2. Len(calls) = trace.size
  <2> DEFINE f == [i \in Places(calls) |-> calls[i].node]
  <2>1. \A i \in Places(calls) : calls[i].node \in Node
    BY EntryFacts
  <2>2. \A node \in Node : \E i \in Places(calls) : calls[i].node = node
    BY AllEntered DEF Entered
  <2>3. f \in [Places(calls) -> Node] /\ \A i \in Places(calls) : f[i] = calls[i].node
    BY <2>1
  <2>4. \A i, j \in Places(calls) : f[i] = f[j] => i = j
    BY <2>3 DEF EntriesOK
  <2>5. \A node \in Node : \E i \in Places(calls) : f[i] = node
    BY <2>2, <2>3
  <2> HIDE DEF f
  <2>6. ExistsBijection(Places(calls), Node)
    <3>1. f \in Injection(Places(calls), Node)
      BY <2>3, <2>4, Fun_IsInj
    <3>2. f \in Surjection(Places(calls), Node)
      BY <2>3, <2>5, Fun_IsSurj
    <3>3. f \in Bijection(Places(calls), Node)
      BY <3>1, <3>2, Zenon DEF Bijection
    <3>4. QED
      BY <3>3, Zenon DEF ExistsBijection
  <2>7. IsFiniteSet(Places(calls)) /\ Cardinality(Places(calls)) = Len(calls)
    BY <1>1, Counted DEF Places
  <2>8. Cardinality(Node) = trace.size
    BY <1>1, Counted DEF Node
  <2>9. QED
    BY <2>6, <2>7, <2>8, FS_Bijection
<1>3. ASSUME NEW i \in Places(calls)
      PROVE  LET kids == calls[i].children IN
             /\ {calls[k].node : k \in {kids[n] : n \in DOMAIN kids}} = Kids(calls[i].node)
             /\ \A n \in DOMAIN kids :
                   /\ i < kids[n]
                   /\ calls[kids[n]].depth = calls[i].depth + 1
                   /\ \A m \in DOMAIN kids : m < n => calls[kids[m]].node < calls[kids[n]].node
  <2> DEFINE kids == calls[i].children
  <2>1. ~OnStack(stack, i)
    BY DEF OnStack, Walked, Places
  <2>2. Lists(calls, kids, i, calls[i].depth + 1, Kids(calls[i].node))
    BY <2>1 DEF DoneOK
  <2>3. DOMAIN kids = Places(kids)
    BY EntryFacts DEF Places
  <2> HIDE DEF kids
  <2>4. {calls[k].node : k \in {kids[n] : n \in Places(kids)}} = Kids(calls[i].node)
    BY <2>2 DEF Lists
  <2>5. QED
    BY <2>2, <2>3, <2>4 DEF Lists, kids
<1>4. QED
  BY <1>1, <1>2, <1>3 DEF FlatIsTheTree, EntriesOK

\* When the walk ends the flat list is the tree: every call once, after the
\* one that made it and a level deeper, listed by it in order (decoder.rs
\* flatten_trace, walk_trace), for traces of any size and shape.
THEOREM FlatTree == WalkSpec => []FlatIsTheTree
<1>1. QED
  BY WalkInvariant, WalkedIsTree, PTL

-----------------------------------------------------------------------------
(***************************************************************************)
(* TxPage: the inductive invariant.  The list has all of the trace; or it  *)
(* is of the raw calls, each with the outcome it had in the replay.        *)
(***************************************************************************)
\* What the entries of a trace say of their calls.
StatusOK ==
  \A i \in Places(calls) :
    /\ calls[i].status = IF calls[i].node \in trace.failed THEN "failed" ELSE "success"
    /\ calls[i].error <=> calls[i].node \in trace.failed

\* The whole trace is in the list.
Traced ==
  /\ calls \in Seq(CallEntry)
  /\ StatusOK
  /\ \A node \in Node : Entered(calls, node)
  /\ \A i \in Places(calls) :
       /\ calls[i].node \in Node /\ calls[i].depth \in Nat
       /\ Lists(calls, calls[i].children, i, calls[i].depth + 1, Kids(calls[i].node))

PlaceOf(j) == Cardinality(Replayable \cap 1..j)

\* What a call shows that was replayed, or would have been.
Shows(out, i) ==
  LET before == {j \in 1..(i - 1) : tx.raw[j] /\ out[PlaceOf(j)] = "reverted"}
  IN IF before # {} THEN "none" ELSE IF out[PlaceOf(i)] = "ok" THEN "success" ELSE "failed"

\* The outcomes are on the calls they are of, and the transaction's own, at
\* most, on another, the first.
LaidOn(list, out) ==
  /\ DOMAIN list = DOMAIN tx.raw
  /\ \A i \in DOMAIN list :
       /\ list[i].to = tx.raw[i] /\ list[i].depth = 0
       /\ list[i].to => list[i].status = Shows(out, i)
       /\ list[i].status = "failed" /\ ~list[i].to => i = 1
  /\ (\E k \in DOMAIN out : out[k] = "reverted") =>
       \E i \in DOMAIN list : list[i].to /\ list[i].status = "failed"

PageTypes ==
  /\ trace \in Traces
  /\ tx \in [ok : BOOLEAN, raw : Seq(BOOLEAN), reason : BOOLEAN]
  /\ pc \in {"walk", "resolve", "summary", "done"}

\* The list while it is made of the trace, when it is made of the raw calls, and
\* when the failure of the transaction was looked into.
ListInv ==
  /\ pc = "walk" => WalkInv /\ StatusOK
  /\ pc # "walk" /\ HasTrace /\ ~tx.ok => Traced
  /\ pc = "resolve" /\ ~HasTrace =>
       calls = IF tx.raw # <<>> THEN RawCalls ELSE <<TopLevelCall>>
  /\ outcomes # <<>> => pc \in {"summary", "done"} /\ ~HasTrace /\ LaidOn(calls, outcomes)

HeadlineInv ==
  pc = "done" /\ headline.kind = "call" => ~tx.ok /\ FailedCalls # {} /\ headline.at = Blamed

PageInv == PageTypes /\ TraceFits /\ ListInv /\ HeadlineInv

-----------------------------------------------------------------------------
(***************************************************************************)
(* Ranks, and the deepest of some calls.                                   *)
(***************************************************************************)
\* The places of a set's members in their order count from 1 and leave none out.
LEMMA Ranks ==
  ASSUME NEW n \in Nat, NEW S \in SUBSET (1..n)
  PROVE  /\ Cardinality(S) \in Nat
         /\ \A j \in S : Cardinality(S \cap 1..j) \in 1..Cardinality(S)
         /\ \A i, j \in S : i < j => Cardinality(S \cap 1..i) < Cardinality(S \cap 1..j)
         /\ \A k \in 1..Cardinality(S) : \E j \in S : Cardinality(S \cap 1..j) = k
<1> DEFINE rank == [j \in S |-> Cardinality(S \cap 1..j)]
<1>1. IsFiniteSet(S) /\ Cardinality(S) \in Nat
  BY Counted, FS_Subset, FS_CardinalityType
<1>2. ASSUME NEW j
      PROVE  /\ IsFiniteSet(S \cap 1..j) /\ Cardinality(S \cap 1..j) \in Nat
             /\ Cardinality(S \cap 1..j) <= Cardinality(S)
  <2>1. S \cap 1..j \in SUBSET S
    OBVIOUS
  <2>2. QED
    BY <1>1, <2>1, FS_Subset, FS_CardinalityType
<1>3. ASSUME NEW j \in S
      PROVE  Cardinality(S \cap 1..j) \in 1..Cardinality(S)
  <2>1. j \in S \cap 1..j
    OBVIOUS
  <2>2. Cardinality(S \cap 1..j) # 0
    BY <1>2, <2>1, FS_EmptySet
  <2>3. QED
    BY <1>1, <1>2, <2>2
<1>4. ASSUME NEW i \in S, NEW j \in S, i < j
      PROVE  Cardinality(S \cap 1..i) < Cardinality(S \cap 1..j)
  <2> DEFINE A == S \cap 1..i
             B == S \cap 1..j
  <2>1. A \in SUBSET B /\ j \in B /\ j \notin A
    BY <1>4
  <2>2. IsFiniteSet(B) /\ Cardinality(A) \in Nat /\ Cardinality(B) \in Nat
    BY <1>2
  <2> HIDE DEF A, B
  <2>3. Cardinality(A) <= Cardinality(B) /\ (Cardinality(A) = Cardinality(B) => A = B)
    BY <2>1, <2>2, FS_Subset
  <2>4. Cardinality(A) # Cardinality(B)
    BY <2>1, <2>3
  <2>5. QED
    BY <2>2, <2>3, <2>4 DEF A, B
<1>5. /\ rank \in [S -> 1..Cardinality(S)]
      /\ \A j \in S : rank[j] = Cardinality(S \cap 1..j)
  BY <1>3
<1>6. \A i, j \in S : rank[i] = rank[j] => i = j
  <2> SUFFICES ASSUME NEW i \in S, NEW j \in S, i # j PROVE rank[i] # rank[j]
    OBVIOUS
  <2>1. i < j \/ j < i
    OBVIOUS
  <2>2. rank[i] < rank[j] \/ rank[j] < rank[i]
    BY <1>4, <1>5, <2>1
  <2>3. QED
    BY <1>5, <2>2
<1> HIDE DEF rank
<1>7. rank \in Injection(S, 1..Cardinality(S))
  BY <1>5, <1>6, Fun_IsInj
<1>8. rank \in Surjection(S, 1..Cardinality(S))
  BY <1>1, <1>7, Counted, FS_Injection
<1>9. \A k \in 1..Cardinality(S) : \E j \in S : rank[j] = k
  BY <1>8 DEF Surjection
<1>10. QED
  BY <1>1, <1>3, <1>4, <1>5, <1>9

IsDeepest(S, d, i) == \A j \in S : d[j] < d[i] \/ (d[j] = d[i] /\ j <= i)

\* Of some calls there is one that is deepest, and last of the deepest.
LEMMA Deepest ==
  ASSUME NEW n \in Nat, NEW S \in SUBSET (1..n), S # {}, NEW d \in [S -> Nat]
  PROVE  \E i \in S : IsDeepest(S, d, i)
<1> DEFINE Bad == {m \in Nat : \E T \in SUBSET (1..m) : T # {} /\
                     \E e \in [T -> Nat] : ~\E i \in T : IsDeepest(T, e, i)}
<1> SUFFICES ASSUME Bad # {} PROVE FALSE
  OBVIOUS
<1>1. PICK m \in Bad : \A k \in Bad : m <= k
  <2>1. Bad \in SUBSET Nat
    OBVIOUS
  <2> HIDE DEF Bad
  <2>2. QED
    BY <2>1, Least
<1>2. PICK T \in SUBSET (1..m) : T # {} /\ \E e \in [T -> Nat] : ~\E i \in T : IsDeepest(T, e, i)
  BY <1>1
<1>3. PICK e \in [T -> Nat] : ~\E i \in T : IsDeepest(T, e, i)
  BY <1>2
<1> DEFINE U == T \ {m}
           f == [i \in U |-> e[i]]
<1>4. m \in Nat /\ m # 0 /\ m - 1 \in Nat /\ U \in SUBSET (1..(m - 1))
  <2>1. m \in Nat
    BY <1>1
  <2> HIDE DEF Bad
  <2>2. m # 0
    <3>1. T # {}
      BY <1>2
    <3>2. PICK t \in T : TRUE
      BY <3>1
    <3>3. t \in 1..m
      OBVIOUS
    <3>4. QED
      BY <2>1, <3>3
  <2>3. QED
    BY <2>1, <2>2
<1>5. ~\E S0 \in SUBSET (1..(m - 1)) : S0 # {} /\
         \E e0 \in [S0 -> Nat] : ~\E i \in S0 : IsDeepest(S0, e0, i)
  <2>1. ~(m <= m - 1)
    BY <1>4
  <2>2. m - 1 \notin Bad
    <3> HIDE DEF Bad
    <3>1. QED
      BY <1>1, <2>1
  <2>3. QED
    BY <1>4, <2>2
<1> HIDE DEF Bad
<1>6. CASE U = {}
  <2>1. T = {m}
    BY <1>2, <1>3, <1>6
  <2>2. IsDeepest(T, e, m)
    BY <1>4, <2>1 DEF IsDeepest
  <2>3. QED
    BY <1>2, <1>3, <2>1, <2>2
<1>7. CASE U # {}
  <2>1. f \in [U -> Nat]
    OBVIOUS
  <2>2. PICK i \in U : IsDeepest(U, f, i)
    BY <1>4, <1>5, <1>7, <2>1
  <2>3. i \in T /\ i < m /\ e[i] \in Nat
    BY <1>2, <1>3, <1>4
  <2>4. \A j \in U : e[j] < e[i] \/ (e[j] = e[i] /\ j <= i)
    BY <2>2 DEF IsDeepest
  <2>5. CASE m \notin T \/ e[m] < e[i]
    <3>1. IsDeepest(T, e, i)
      BY <2>4, <2>5 DEF IsDeepest
    <3>2. QED
      BY <1>2, <1>3, <2>3, <3>1
  <2>6. CASE m \in T /\ ~(e[m] < e[i])
    <3>1. e[m] \in Nat /\ \A j \in U : e[j] \in Nat /\ j \in Nat /\ j <= m
      BY <1>2, <1>3, <1>4, <2>6
    <3>2. \A j \in U : e[j] < e[m] \/ (e[j] = e[m] /\ j <= m)
      BY <2>3, <2>4, <2>6, <3>1
    <3>3. IsDeepest(T, e, m)
      BY <1>4, <3>1, <3>2 DEF IsDeepest
    <3>4. QED
      BY <1>2, <1>3, <2>6, <3>3
  <2>7. QED
    BY <2>5, <2>6
<1>8. QED
  BY <1>6, <1>7

-----------------------------------------------------------------------------
(***************************************************************************)
(* The calls of a trace.                                                   *)
(***************************************************************************)
\* Every entry comes with the status of its call, and keeps it.
LEMMA StatusEnter == ASSUME WalkInv, StatusOK, Enter PROVE StatusOK'
<1> DEFINE kid == First(Top.left)
           e == Entry(kid, Len(stack) - 1)
           at == Len(calls) + 1
<1>1. calls' = Append(calls, e) /\ trace' = trace
  BY DEF Enter
<1>2. calls \in Seq(CallEntry) /\ Len(calls) \in Nat
  BY DEF WalkInv, WalkTypes
<1>3. /\ e.status = IF e.node \in trace.failed THEN "failed" ELSE "success"
      /\ e.error <=> e.node \in trace.failed
  BY DEF Entry
<1> HIDE DEF e
<1>4. e \in {e} /\ calls \in Seq(CallEntry \cup {e})
  BY <1>2
<1>5. /\ Len(calls') = at /\ calls'[at] = e
      /\ \A i \in 1..Len(calls) : calls'[i] = calls[i]
  BY <1>1, <1>4, AppendProperties
<1>6. \A i \in 1..Len(calls') : i = at \/ i \in 1..Len(calls)
  BY <1>2, <1>5
<1>7. QED
  BY <1>1, <1>3, <1>5, <1>6 DEF StatusOK, Places

\* The children written to an entry leave its status.
LEMMA StatusLeave == ASSUME WalkInv, StatusOK, Leave PROVE StatusOK'
<1>1. trace' = trace /\ calls' = IF Top.at = 0 THEN calls ELSE [calls EXCEPT ![Top.at].children = Top.found]
  BY DEF Leave
<1>2. calls \in Seq(CallEntry) /\ DOMAIN calls = Places(calls)
  BY DEF WalkInv, WalkTypes, Places
<1>3. CASE Top.at = 0
  BY <1>1, <1>3 DEF StatusOK, Places
<1>4. CASE Top.at # 0
  <2> DEFINE filled == [calls[Top.at] EXCEPT !.children = Top.found]
  <2>1. calls' = [calls EXCEPT ![Top.at] = filled]
    BY <1>1, <1>4
  <2>2. ASSUME Top.at \in Places(calls)
        PROVE  /\ filled.node = calls[Top.at].node /\ filled.status = calls[Top.at].status
               /\ filled.error = calls[Top.at].error
    <3>1. calls[Top.at] \in CallEntry
      BY <2>2, EntryFacts DEF WalkInv
    <3>2. QED
      BY <3>1 DEF CallEntry
  <2> HIDE DEF filled
  <2>3. Places(calls') = Places(calls)
    <3>1. calls' = [i \in 1..Len(calls) |-> IF i = Top.at THEN filled ELSE calls[i]]
      BY <1>2, <2>1 DEF Places
    <3>2. Len(calls) \in Nat
      BY <1>2
    <3>3. Len(calls') = Len(calls)
      BY <3>1, <3>2
    <3>4. QED
      BY <3>3 DEF Places
  <2>4. ASSUME NEW i \in Places(calls)
        PROVE  /\ calls'[i].node = calls[i].node /\ calls'[i].status = calls[i].status
               /\ calls'[i].error = calls[i].error
    BY <1>2, <2>1, <2>2
  <2>5. QED
    BY <1>1, <2>3, <2>4 DEF StatusOK
<1>5. QED
  BY <1>3, <1>4

\* Once walked, a trace is in the list as a whole, and no trace leaves it empty.
LEMMA WalkedIsTraced ==
  ASSUME WalkInv, StatusOK, Walked
  PROVE  Traced /\ (calls = <<>> <=> ~HasTrace)
<1>1. \A node \in Node : Entered(calls, node)
  BY AllEntered
<1>2. ASSUME NEW i \in Places(calls)
      PROVE  /\ calls[i].node \in Node /\ calls[i].depth \in Nat
             /\ Lists(calls, calls[i].children, i, calls[i].depth + 1, Kids(calls[i].node))
  <2>1. ~OnStack(stack, i)
    BY DEF OnStack, Walked, Places
  <2>2. QED
    BY <2>1, EntryFacts DEF WalkInv, DoneOK
<1>3. trace.size \in Nat /\ calls \in Seq(CallEntry)
  BY TraceFacts DEF WalkInv, WalkTypes
<1>4. HasTrace => calls # <<>>
  <2> SUFFICES ASSUME HasTrace PROVE calls # <<>>
    OBVIOUS
  <2>1. 1 \in Node
    BY <1>3 DEF HasTrace, Node
  <2>2. Places(calls) # {}
    BY <1>1, <2>1 DEF Entered
  <2>3. Places(<<>>) = {}
    BY DEF Places
  <2>4. QED
    BY <2>2, <2>3
<1>5. ~HasTrace => calls = <<>>
  <2> SUFFICES ASSUME ~HasTrace, calls # <<>> PROVE FALSE
    OBVIOUS
  <2>1. 1 \in Places(calls)
    BY <1>3 DEF Places
  <2>2. calls[1].node \in 1..trace.size
    BY <1>2, <2>1 DEF Node
  <2>3. QED
    BY <1>3, <2>2 DEF HasTrace
<1>6. QED
  BY <1>1, <1>2, <1>3, <1>4, <1>5 DEF Traced

\* A transaction that failed has a call that did, and that says why.
LEMMA FailedSaysWhy ==
  ASSUME TraceFits, trace \in Traces, Traced, HasTrace, ~tx.ok
  PROVE  ReasonInCalls /\ FailedCalls # {} /\ \A why : Mirrored(calls, why) = calls
<1>1. PICK c \in trace.failed : trace.parent[c] = 0
  BY DEF TraceFits, HasTrace
<1>2. c \in Node
  <2>1. trace.failed \subseteq 1..trace.size
    BY DEF Traces
  <2>2. QED
    BY <1>1, <2>1 DEF Node
<1>3. PICK i \in Places(calls) : calls[i].node = c
  BY <1>2 DEF Traced, Entered
<1>4. Len(calls) \in Nat /\ DOMAIN calls = Places(calls)
  BY DEF Traced, Places
<1>5. 1 \in Places(calls)
  BY <1>3, <1>4 DEF Places
<1>6. \A why : Mirrored(calls, why) = calls
  BY <1>5 DEF Mirrored, Traced, StatusOK
<1>7. QED
  BY <1>1, <1>3, <1>4, <1>6 DEF Traced, StatusOK, ReasonInCalls, FailedCalls

-----------------------------------------------------------------------------
(***************************************************************************)
(* The replay.                                                             *)
(***************************************************************************)
\* Where a call finds its outcome, among the raw calls of a transaction.
LEMMA ReplayPlaces ==
  ASSUME tx \in [ok : BOOLEAN, raw : Seq(BOOLEAN), reason : BOOLEAN]
  PROVE  /\ Len(tx.raw) \in Nat /\ DOMAIN tx.raw = 1..Len(tx.raw)
         /\ Cardinality(Replayable) \in Nat
         /\ \A i \in Replayable : PlaceOf(i) \in 1..Cardinality(Replayable)
         /\ \A i, j \in Replayable : i < j => PlaceOf(i) < PlaceOf(j)
         /\ \A k \in 1..Cardinality(Replayable) : \E j \in Replayable : PlaceOf(j) = k
<1>1. tx.raw \in Seq(BOOLEAN)
  OBVIOUS
<1>2. Len(tx.raw) \in Nat /\ DOMAIN tx.raw = 1..Len(tx.raw)
  BY <1>1
<1>3. Replayable \in SUBSET (1..Len(tx.raw))
  BY <1>2 DEF Replayable
<1>4. QED
  BY <1>2, <1>3, Ranks DEF PlaceOf

\* A call is reached unless one before it reverted.
LEMMA ReachedFacts ==
  ASSUME tx \in [ok : BOOLEAN, raw : Seq(BOOLEAN), reason : BOOLEAN],
         NEW out \in [1..Cardinality(Replayable) -> {"ok", "reverted"}], NEW i \in Replayable
  PROVE  Reached(out, PlaceOf(i)) <=>
           {j \in 1..(i - 1) : tx.raw[j] /\ out[PlaceOf(j)] = "reverted"} = {}
<1> DEFINE n == Cardinality(Replayable)
           before == {j \in 1..(i - 1) : tx.raw[j] /\ out[PlaceOf(j)] = "reverted"}
<1>1. /\ Len(tx.raw) \in Nat /\ DOMAIN tx.raw = 1..Len(tx.raw) /\ n \in Nat
      /\ \A j \in Replayable : PlaceOf(j) \in 1..n
      /\ \A j, k \in Replayable : j < k => PlaceOf(j) < PlaceOf(k)
      /\ \A k \in 1..n : \E j \in Replayable : PlaceOf(j) = k
  BY ReplayPlaces
<1>2. Replayable \in SUBSET (1..Len(tx.raw)) /\ \A j \in Replayable : j \in Nat
  BY <1>1 DEF Replayable
<1> HIDE DEF n
<1>3. DOMAIN out = 1..n /\ Len(out) = n
  BY <1>1 DEF n
<1>4. Reached(out, PlaceOf(i)) <=> \A k \in 1..(PlaceOf(i) - 1) : out[k] = "ok"
  BY <1>1, <1>3 DEF Reached
<1>5. ASSUME NEW j \in before PROVE ~Reached(out, PlaceOf(i))
  <2>1. j \in Replayable /\ j < i
    BY <1>1, <1>2 DEF Replayable
  <2>2. PlaceOf(j) \in 1..(PlaceOf(i) - 1) /\ out[PlaceOf(j)] = "reverted"
    BY <1>1, <2>1
  <2>3. QED
    BY <1>4, <2>2
<1>6. ASSUME NEW k \in 1..(PlaceOf(i) - 1), out[k] # "ok" PROVE before # {}
  <2>1. k \in 1..n /\ k < PlaceOf(i)
    BY <1>1
  <2>2. PICK j \in Replayable : PlaceOf(j) = k
    BY <1>1, <2>1
  <2>3. j < i
    <3>1. j \in Nat /\ i \in Nat /\ PlaceOf(j) < PlaceOf(i)
      BY <1>2, <2>1, <2>2
    <3>2. ~(i < j) /\ i # j
      BY <1>1, <2>1, <2>2
    <3>3. QED
      BY <3>1, <3>2
  <2>4. out[k] = "reverted"
    BY <1>6, <2>1 DEF n
  <2>5. j \in 1..(i - 1) /\ tx.raw[j]
    BY <1>2, <2>3 DEF Replayable
  <2>6. QED
    BY <2>2, <2>4, <2>5
<1>7. QED
  BY <1>4, <1>5, <1>6

\* The first outcome that reverted is on its call, which shows it.
LEMMA FirstReverted ==
  ASSUME tx \in [ok : BOOLEAN, raw : Seq(BOOLEAN), reason : BOOLEAN],
         NEW out \in [1..Cardinality(Replayable) -> {"ok", "reverted"}],
         NEW k \in DOMAIN out, out[k] = "reverted"
  PROVE  \E j \in Replayable : Shows(out, j) = "failed"
<1> DEFINE n == Cardinality(Replayable)
           R == {m \in 1..n : out[m] = "reverted"}
<1>1. /\ Len(tx.raw) \in Nat /\ DOMAIN tx.raw = 1..Len(tx.raw) /\ n \in Nat
      /\ \A j, m \in Replayable : j < m => PlaceOf(j) < PlaceOf(m)
      /\ \A m \in 1..n : \E j \in Replayable : PlaceOf(j) = m
      /\ \A j \in Replayable : PlaceOf(j) \in 1..n
  BY ReplayPlaces
<1>2. PICK m \in R : \A l \in R : m <= l
  <2>1. R \in SUBSET Nat /\ R # {}
    BY <1>1
  <2> HIDE DEF R
  <2>2. QED
    BY <2>1, Least
<1>3. PICK j \in Replayable : PlaceOf(j) = m
  BY <1>1
<1>4. ASSUME NEW i \in 1..(j - 1), tx.raw[i], out[PlaceOf(i)] = "reverted" PROVE FALSE
  <2>1. i \in Replayable /\ i < j
    BY <1>1, <1>4 DEF Replayable
  <2>2. PlaceOf(i) < m /\ PlaceOf(i) \in R
    BY <1>1, <1>3, <1>4, <2>1
  <2>3. m \in Nat /\ PlaceOf(i) \in Nat /\ m <= PlaceOf(i)
    BY <1>1, <1>2, <2>2
  <2>4. QED
    BY <2>2, <2>3
<1>5. out[PlaceOf(j)] = "reverted"
  BY <1>2, <1>3
<1>6. Shows(out, j) = "failed"
  BY <1>4, <1>5 DEF Shows
<1>7. QED
  BY <1>6

\* What the replay said is laid on the calls it is of.
LEMMA ReplayLays ==
  ASSUME tx \in [ok : BOOLEAN, raw : Seq(BOOLEAN), reason : BOOLEAN], ~tx.ok,
         calls = IF tx.raw # <<>> THEN RawCalls ELSE <<TopLevelCall>>,
         NEW out \in [1..Cardinality(Replayable) -> {"ok", "reverted"}], out # <<>>, NEW why
  PROVE  LaidOn(Mirrored(Apply(out), why), out)
<1> DEFINE n == Len(tx.raw)
           A == Apply(out)
           M == Mirrored(A, why)
<1>1. n \in Nat /\ DOMAIN tx.raw = 1..n /\ Cardinality(Replayable) \in Nat
      /\ \A i \in 1..n : tx.raw[i] \in BOOLEAN
  BY ReplayPlaces
<1>2. n # 0 /\ tx.raw # <<>>
  <2>1. Replayable # {}
    <3> SUFFICES ASSUME Replayable = {} PROVE FALSE
      OBVIOUS
    <3>1. Cardinality(Replayable) = 0
      BY FS_EmptySet
    <3>2. out \in [{} -> {"ok", "reverted"}]
      BY <3>1
    <3>3. QED
      BY <3>2
  <2>2. QED
    BY <1>1, <2>1 DEF Replayable
<1>3. /\ DOMAIN calls = 1..n
      /\ \A i \in 1..n : calls[i] = RawCall(i, tx.raw[i])
  BY <1>1, <1>2 DEF RawCalls
<1>4. ASSUME NEW i \in 1..n
      PROVE  Replayed[i] = IF tx.raw[i] THEN PlaceOf(i) ELSE 0
  <2>1. \A j \in 1..i : j \in 1..n /\ calls[j].depth = 0 /\ calls[j].to = tx.raw[j]
    <3>1. \A j \in 1..n : calls[j].depth = 0 /\ calls[j].to = tx.raw[j]
      <4> SUFFICES ASSUME NEW j \in 1..n PROVE calls[j].depth = 0 /\ calls[j].to = tx.raw[j]
        OBVIOUS
      <4>1. calls[j] = RawCall(j, tx.raw[j])
        BY <1>3
      <4>2. QED
        BY <4>1 DEF RawCall
    <3>2. \A j \in 1..i : j \in 1..n
      BY <1>1
    <3>3. QED
      BY <3>1, <3>2
  <2>2. {j \in 1..i : calls[j].depth = 0 /\ calls[j].to} = Replayable \cap 1..i
    BY <1>1, <2>1 DEF Replayable
  <2>3. Replayed[i] = IF calls[i].depth = 0 /\ calls[i].to
                      THEN Cardinality({j \in 1..i : calls[j].depth = 0 /\ calls[j].to}) ELSE 0
    BY <1>3 DEF Replayed
  <2>4. calls[i].depth = 0 /\ calls[i].to = tx.raw[i] /\ tx.raw[i] \in BOOLEAN
    BY <1>1, <2>1
  <2>5. CASE tx.raw[i]
    BY <2>2, <2>3, <2>4, <2>5 DEF PlaceOf
  <2>6. CASE ~tx.raw[i]
    BY <2>3, <2>4, <2>6
  <2>7. QED
    BY <2>4, <2>5, <2>6
<1>5. DOMAIN A = 1..n
  BY <1>3 DEF Apply
<1>6. ASSUME NEW i \in 1..n
      PROVE  /\ A[i].to = tx.raw[i] /\ A[i].depth = 0
             /\ A[i].status = IF tx.raw[i] THEN Shows(out, i) ELSE "none"
  <2>1. A[i] = IF ~Reached(out, Replayed[i]) THEN calls[i]
               ELSE IF out[Replayed[i]] = "ok" THEN [calls[i] EXCEPT !.status = "success"]
               ELSE [calls[i] EXCEPT !.status = "failed", !.error = TRUE]
    BY <1>3 DEF Apply
  <2>2. calls[i] = [node |-> i, depth |-> 0, to |-> tx.raw[i], children |-> <<>>,
                    status |-> "none", error |-> FALSE]
    BY <1>3 DEF RawCall
  <2>3. A[i].to = tx.raw[i] /\ A[i].depth = 0
        /\ A[i].status = IF ~Reached(out, Replayed[i]) THEN "none"
                         ELSE IF out[Replayed[i]] = "ok" THEN "success" ELSE "failed"
    BY <2>1, <2>2
  <2>4. CASE tx.raw[i]
    <3>1. i \in Replayable
      BY <1>1, <2>4 DEF Replayable
    <3>2. Reached(out, PlaceOf(i)) <=>
            {j \in 1..(i - 1) : tx.raw[j] /\ out[PlaceOf(j)] = "reverted"} = {}
      BY <3>1, ReachedFacts
    <3>3. QED
      BY <1>4, <2>3, <2>4, <3>2 DEF Shows
  <2>5. CASE ~tx.raw[i]
    <3>1. ~Reached(out, 0)
      BY DEF Reached
    <3>2. QED
      BY <1>4, <2>3, <2>5, <3>1
  <2>6. QED
    BY <1>1, <2>4, <2>5
<1>7. tx.raw[1] => A[1].status # "none"
  <2>1. 1 \in 1..n /\ \A j \in 1..(1 - 1) : FALSE
    BY <1>1, <1>2
  <2>2. tx.raw[1] => Shows(out, 1) # "none"
    BY <2>1 DEF Shows
  <2>3. QED
    BY <1>6, <2>1, <2>2
<1> HIDE DEF A
<1>8. DOMAIN M = 1..n
  BY <1>5 DEF Mirrored
<1>9. ASSUME NEW i \in 1..n
      PROVE  /\ M[i].to = A[i].to /\ M[i].depth = A[i].depth
             /\ i # 1 \/ A[i].status # "none" => M[i].status = A[i].status
  <2>1. M = IF A[1].status # "none" THEN A
            ELSE [A EXCEPT ![1] = [[A[1] EXCEPT !.status = "failed"] EXCEPT !.error = ~tx.ok /\ why]]
    BY <1>1, <1>2, <1>5 DEF Mirrored
  <2>2. QED
    BY <1>5, <2>1
<1> HIDE DEF M
<1>10. ASSUME NEW i \in 1..n
       PROVE  /\ M[i].to = tx.raw[i] /\ M[i].depth = 0
              /\ M[i].to => M[i].status = Shows(out, i)
              /\ M[i].status = "failed" /\ ~M[i].to => i = 1
  BY <1>6, <1>7, <1>9
<1>11. ASSUME NEW k \in DOMAIN out, out[k] = "reverted"
       PROVE  \E i \in 1..n : M[i].to /\ M[i].status = "failed"
  <2>1. PICK j \in Replayable : Shows(out, j) = "failed"
    BY <1>11, FirstReverted
  <2>2. j \in 1..n /\ tx.raw[j]
    BY <1>1 DEF Replayable
  <2>3. QED
    BY <1>10, <2>1, <2>2
<1>12. LaidOn(M, out)
  BY <1>1, <1>8, <1>10, <1>11 DEF LaidOn
<1>13. QED
  BY <1>12 DEF M, A

-----------------------------------------------------------------------------
(***************************************************************************)
(* Each step of a page keeps the invariant.                                *)
(***************************************************************************)
\* Nothing of the list changes: what is said of it stays true.
LEMMA SameTraced ==
  ASSUME trace' = trace, calls' = calls
  PROVE  Traced' <=> Traced
<1>1. Node' = Node /\ CallEntry' = CallEntry /\ \A x : Kids(x)' = Kids(x)
  BY DEF Node, CallEntry, Kids
<1>2. StatusOK' <=> StatusOK
  BY DEF StatusOK, Places
<1>3. \A x : Entered(calls, x)' <=> Entered(calls, x)
  BY DEF Entered
<1>4. \A i, x : Lists(calls, calls[i].children, i, calls[i].depth + 1, Kids(x))'
                <=> Lists(calls, calls[i].children, i, calls[i].depth + 1, Kids(x))
  <2>1. \A i, x : Lists(calls, calls[i].children, i, calls[i].depth + 1, Kids(x))'
                <=> Lists(calls', calls'[i].children, i, calls'[i].depth + 1, Kids(x))
    BY <1>1 DEF Lists
  <2>2. QED
    BY <2>1
<1>5. QED
  BY <1>1, <1>2, <1>3, <1>4 DEF Traced, Places

\* A view starts on the trace the node gave.
LEMMA InitPage == PageInit => PageInv
<1> SUFFICES ASSUME PageInit PROVE PageInv
  OBVIOUS
<1>1. /\ WalkInit /\ pc = "walk" /\ outcomes = <<>> /\ headline.kind = "none" /\ TraceFits
      /\ tx \in [ok : BOOLEAN, raw : BoundedSeq(BOOLEAN, MaxCalls), reason : BOOLEAN]
  BY DEF PageInit
<1>2. WalkInv /\ StatusOK
  <2>1. calls = <<>> /\ Places(<<>>) = {}
    BY <1>1 DEF WalkInit, Places
  <2>2. QED
    BY <1>1, <2>1, InitWalk DEF StatusOK
<1>3. tx.raw \in Seq(BOOLEAN)
  <2>1. PICK m \in 0..MaxCalls : tx.raw \in [1..m -> BOOLEAN]
    BY <1>1 DEF BoundedSeq, SeqOf
  <2>2. m \in Nat
    BY <2>1, BoundsAssumption
  <2>3. QED
    BY <2>1, <2>2
<1>4. PageTypes
  <2>1. trace \in Traces
    BY <1>1 DEF WalkInit
  <2>2. tx \in [ok : BOOLEAN, raw : Seq(BOOLEAN), reason : BOOLEAN]
    BY <1>1, <1>3
  <2>3. QED
    BY <1>1, <2>1, <2>2 DEF PageTypes
<1>5. QED
  BY <1>1, <1>2, <1>4 DEF PageInv, ListInv, HeadlineInv

\* A step of the walk.
LEMMA WalkStep == ASSUME PageInv, Walk PROVE PageInv'
<1>1. /\ pc = "walk" /\ pc' = "walk" /\ outcomes' = outcomes /\ tx' = tx /\ headline' = headline
      /\ trace' = trace
  BY DEF Walk, pageVars, WalkNext, Enter, Leave
<1>2. WalkInv /\ StatusOK /\ outcomes = <<>>
  BY <1>1 DEF PageInv, ListInv
<1>3. WalkInv' /\ StatusOK'
  BY <1>2, EnterStep, LeaveStep, StatusEnter, StatusLeave DEF Walk, WalkNext
<1>4. PageTypes' /\ TraceFits'
  <2>1. Traces' = Traces
    BY DEF Traces
  <2>2. QED
    BY <1>1, <2>1 DEF PageInv, PageTypes, TraceFits
<1>5. ListInv'
  BY <1>1, <1>2, <1>3 DEF ListInv
<1>6. QED
  BY <1>1, <1>4, <1>5 DEF PageInv, HeadlineInv

\* The walk gives the list, or the raw calls do, or the transaction itself.
LEMMA ExtractStep == ASSUME PageInv, ExtractCalls PROVE PageInv'
<1>1. /\ pc = "walk" /\ pc' = "resolve" /\ outcomes' = outcomes /\ tx' = tx /\ trace' = trace
      /\ headline' = headline /\ Walked
      /\ calls' = IF calls # <<>> THEN calls
                  ELSE IF tx.raw # <<>> THEN RawCalls ELSE <<TopLevelCall>>
  BY DEF ExtractCalls
<1>2. WalkInv /\ StatusOK /\ outcomes = <<>>
  BY <1>1 DEF PageInv, ListInv
<1>3. Traced /\ (calls = <<>> <=> ~HasTrace)
  BY <1>1, <1>2, WalkedIsTraced
<1>4. HasTrace' = HasTrace /\ RawCalls' = RawCalls /\ TopLevelCall' = TopLevelCall
  BY <1>1 DEF HasTrace, RawCalls, TopLevelCall, RawCall
<1>5. PageTypes' /\ TraceFits'
  BY <1>1 DEF PageInv, PageTypes, TraceFits
<1>6. HasTrace => Traced'
  BY <1>1, <1>3, SameTraced
<1>7. ListInv'
  BY <1>1, <1>2, <1>3, <1>4, <1>6 DEF ListInv
<1>8. QED
  BY <1>1, <1>5, <1>7 DEF PageInv, HeadlineInv

\* A transaction that succeeded is blamed on nobody.
LEMMA SuccessStep == ASSUME PageInv, ResolveSuccess PROVE PageInv'
<1>1. /\ pc = "resolve" /\ pc' = "summary" /\ outcomes' = outcomes /\ tx' = tx /\ trace' = trace
      /\ headline' = headline /\ tx.ok
  BY DEF ResolveSuccess
<1>2. outcomes = <<>>
  BY <1>1 DEF PageInv, ListInv
<1>3. PageTypes' /\ TraceFits'
  BY <1>1 DEF PageInv, PageTypes, TraceFits
<1>4. QED
  BY <1>1, <1>2, <1>3 DEF PageInv, ListInv, HeadlineInv

\* The first call of a trace says what it did, so nothing is mirrored.
LEMMA FailureStep == ASSUME PageInv, ResolveFailure PROVE PageInv'
<1>1. /\ pc = "resolve" /\ pc' = "summary" /\ outcomes' = outcomes /\ tx' = tx /\ trace' = trace
      /\ headline' = headline /\ ~tx.ok /\ calls' = Mirrored(calls, TRUE)
  BY DEF ResolveFailure
<1>2. outcomes = <<>> /\ trace \in Traces
  BY <1>1 DEF PageInv, ListInv, PageTypes
<1>3. PageTypes' /\ TraceFits'
  BY <1>1 DEF PageInv, PageTypes, TraceFits
<1>4. HasTrace' = HasTrace
  BY <1>1 DEF HasTrace
<1>5. ASSUME HasTrace PROVE Traced'
  <2>1. Traced
    BY <1>1, <1>5 DEF PageInv, ListInv
  <2>2. calls' = calls
    BY <1>1, <1>2, <1>5, <2>1, FailedSaysWhy DEF PageInv
  <2>3. QED
    BY <1>1, <2>1, <2>2, SameTraced
<1>6. ListInv'
  BY <1>1, <1>2, <1>4, <1>5 DEF ListInv
<1>7. QED
  BY <1>1, <1>3, <1>6 DEF PageInv, HeadlineInv

\* Only a failure nobody says the reason of is replayed, and a trace would.
LEMMA ReplayStep == ASSUME PageInv, Replay PROVE PageInv'
<1>1. PICK out \in [1..Cardinality(Replayable) -> {"ok", "reverted"}] \cup {<<>>} :
        /\ outcomes' = out
        /\ calls' = Mirrored(Apply(out), \E k \in DOMAIN out : out[k] = "reverted")
  BY DEF Replay
<1>2. /\ pc = "resolve" /\ pc' = "summary" /\ tx' = tx /\ trace' = trace
      /\ headline' = headline /\ ~tx.ok /\ ~ReasonInCalls
  BY DEF Replay
<1>3. trace \in Traces /\ tx \in [ok : BOOLEAN, raw : Seq(BOOLEAN), reason : BOOLEAN]
  BY DEF PageInv, PageTypes
<1>4. ~HasTrace
  <2> SUFFICES ASSUME HasTrace PROVE FALSE
    OBVIOUS
  <2>1. Traced
    BY <1>2 DEF PageInv, ListInv
  <2>2. QED
    BY <1>2, <1>3, <2>1, FailedSaysWhy DEF PageInv
<1>5. calls = IF tx.raw # <<>> THEN RawCalls ELSE <<TopLevelCall>>
  BY <1>2, <1>4 DEF PageInv, ListInv
<1>6. ASSUME out # <<>> PROVE LaidOn(calls, outcomes)'
  <2>1. out \in [1..Cardinality(Replayable) -> {"ok", "reverted"}]
    BY <1>6
  <2>2. LaidOn(calls', outcomes')
    BY <1>1, <1>2, <1>3, <1>5, <1>6, <2>1, ReplayLays
  <2>3. LaidOn(calls, outcomes)' <=> LaidOn(calls', outcomes')
    <3>1. Replayable' = Replayable
      BY <1>2 DEF Replayable
    <3>2. \A j : PlaceOf(j)' = PlaceOf(j)
      BY <3>1 DEF PlaceOf
    <3>3. QED
      BY <1>2, <3>2 DEF LaidOn, Shows
  <2>4. QED
    BY <2>2, <2>3
<1>7. PageTypes' /\ TraceFits'
  BY <1>2 DEF PageInv, PageTypes, TraceFits
<1>8. HasTrace' = HasTrace
  BY <1>2 DEF HasTrace
<1>9. ListInv'
  BY <1>1, <1>2, <1>4, <1>6, <1>8 DEF ListInv
<1>10. QED
  BY <1>2, <1>7, <1>9 DEF PageInv, HeadlineInv

\* The list, the trace and the transaction stay what they are.
LEMMA SameList ==
  ASSUME PageInv, pc \in {"summary", "done"}, pc' \in {"summary", "done"},
         UNCHANGED <<trace, stack, calls, tx, outcomes>>
  PROVE  PageTypes' /\ TraceFits' /\ ListInv' /\ FailedCalls' = FailedCalls /\ Blamed' = Blamed
<1>1. PageTypes' /\ TraceFits'
  BY DEF PageInv, PageTypes, TraceFits
<1>2. FailedCalls' = FailedCalls
  BY DEF FailedCalls
<1>3. Blamed' = Blamed
  BY <1>2 DEF Blamed
<1>4. Traced' <=> Traced
  BY SameTraced
<1>5. LaidOn(calls, outcomes)' <=> LaidOn(calls, outcomes)
  BY DEF LaidOn, Shows, PlaceOf, Replayable
<1>6. ListInv'
  BY <1>4, <1>5 DEF PageInv, ListInv, HasTrace
<1>7. QED
  BY <1>1, <1>2, <1>3, <1>6

\* A summary that leads with a call leads with the one that is blamed.
LEMMA SummariseStep == ASSUME PageInv, Summarise PROVE PageInv'
<1>1. /\ pc = "summary" /\ pc' = "done" /\ UNCHANGED <<trace, stack, calls, tx, outcomes>>
  BY DEF Summarise, walkVars
<1>2. /\ PageTypes' /\ TraceFits' /\ ListInv' /\ FailedCalls' = FailedCalls /\ Blamed' = Blamed
  BY <1>1, SameList
<1>3. \E events, named : headline' = IF tx.ok THEN Lead(events) ELSE FailureLead(events, named)
  BY DEF Summarise
<1>4. ASSUME headline'.kind = "call"
      PROVE  ~tx.ok /\ FailedCalls # {} /\ headline'.at = Blamed
  BY <1>3, <1>4 DEF Lead, FailureLead
<1>5. QED
  BY <1>1, <1>2, <1>4 DEF PageInv, HeadlineInv

\* From the calls of a trace to the view it ends as, each page has its list.
LEMMA PageInvariance == PageSpec => []PageInv
<1>1. PageInv /\ [PageNext]_viewVars => PageInv'
  <2> SUFFICES ASSUME PageInv, [PageNext]_viewVars PROVE PageInv'
    OBVIOUS
  <2>1. CASE PageNext /\ ~Done
    BY <2>1, WalkStep, ExtractStep, SuccessStep, FailureStep, ReplayStep, SummariseStep DEF PageNext
  <2>2. CASE UNCHANGED viewVars
    <3>1. /\ pc' = pc /\ headline' = headline
          /\ UNCHANGED <<trace, stack, calls, tx, outcomes>>
      BY <2>2 DEF viewVars, walkVars, pageVars
    <3>2. CASE pc \in {"summary", "done"}
      <4>1. /\ PageTypes' /\ TraceFits' /\ ListInv' /\ FailedCalls' = FailedCalls /\ Blamed' = Blamed
        BY <3>1, <3>2, SameList
      <4>2. QED
        BY <3>1, <4>1 DEF PageInv, HeadlineInv
    <3>3. CASE pc \notin {"summary", "done"}
      <4>1. PageTypes' /\ TraceFits'
        BY <3>1 DEF PageInv, PageTypes, TraceFits
      <4>2. WalkInv => WalkInv'
        BY <3>1, SameWalk DEF walkVars
      <4>3. StatusOK' <=> StatusOK
        BY <3>1 DEF StatusOK, Places
      <4>4. Traced' <=> Traced
        BY <3>1, SameTraced
      <4>5. RawCalls' = RawCalls /\ TopLevelCall' = TopLevelCall /\ HasTrace' = HasTrace
        BY <3>1 DEF RawCalls, TopLevelCall, HasTrace, RawCall
      <4>6. ListInv'
        BY <3>1, <3>3, <4>2, <4>3, <4>4, <4>5 DEF PageInv, ListInv
      <4>7. QED
        BY <3>1, <3>3, <4>1, <4>6 DEF PageInv, HeadlineInv
    <3>4. QED
      BY <3>2, <3>3
  <2>3. QED
    BY <2>1, <2>2 DEF Done
<1>2. QED
  BY <1>1, InitPage, PTL DEF PageSpec

\* A replayed call shows its own outcome, and one after the first that reverted
\* none (web.rs apply_replay_outcomes), however many calls a transaction has
\* and whichever of them have no destination.
THEOREM OutcomesFindTheirCalls == PageSpec => []EachCallItsOutcome
<1>1. PageInv => EachCallItsOutcome
  BY DEF PageInv, ListInv, LaidOn, Shows, PlaceOf, EachCallItsOutcome
<1>2. QED
  BY <1>1, PageInvariance, PTL

\* There is a call to blame, when one failed.
LEMMA BlamedIsDeepest ==
  ASSUME Len(calls) \in Nat, DOMAIN calls = 1..Len(calls), FailedCalls # {},
         \A i \in DOMAIN calls : calls[i].depth \in Nat
  PROVE  /\ Blamed \in FailedCalls
         /\ \A j \in FailedCalls : \/ calls[j].depth < calls[Blamed].depth
                                   \/ calls[j].depth = calls[Blamed].depth /\ j <= Blamed
<1> DEFINE d == [i \in FailedCalls |-> calls[i].depth]
<1>1. FailedCalls \in SUBSET (1..Len(calls)) /\ d \in [FailedCalls -> Nat]
  BY DEF FailedCalls
<1>2. \E i \in FailedCalls : IsDeepest(FailedCalls, d, i)
  BY <1>1, Deepest
<1>3. \E i \in FailedCalls : \A j \in FailedCalls :
        calls[j].depth < calls[i].depth \/ (calls[j].depth = calls[i].depth /\ j <= i)
  BY <1>2 DEF IsDeepest
<1>4. QED
  BY <1>3 DEF Blamed

\* The call a failure is named after failed, called none that did, and is the one
\* that reverted when the calls were replayed (web.rs failure_of).
THEOREM BlameWarranted == PageSpec => []BlameIsWarranted
<1>1. ASSUME PageInv, pc = "done", headline.kind = "call" PROVE BlameIsWarranted
  <2>1. ~tx.ok /\ FailedCalls # {} /\ headline.at = Blamed
    BY <1>1 DEF PageInv, HeadlineInv
  <2>2. ASSUME HasTrace
        PROVE  /\ Kids(calls[Blamed].node) \cap trace.failed = {}
               /\ calls[Blamed].node \in trace.failed
    <3>1. Traced
      BY <1>1, <2>1, <2>2 DEF PageInv, ListInv
    <3>2. Len(calls) \in Nat /\ DOMAIN calls = Places(calls)
      BY <3>1 DEF Traced, Places
    <3>3. /\ Blamed \in FailedCalls
          /\ \A j \in FailedCalls : \/ calls[j].depth < calls[Blamed].depth
                                    \/ calls[j].depth = calls[Blamed].depth /\ j <= Blamed
      BY <2>1, <3>1, <3>2, BlamedIsDeepest DEF Traced, Places
    <3>4. /\ Blamed \in Places(calls) /\ calls[Blamed].node \in trace.failed
          /\ calls[Blamed].depth \in Nat
      BY <3>1, <3>2, <3>3 DEF Traced, StatusOK, FailedCalls
    <3>5. ASSUME NEW c \in Kids(calls[Blamed].node), c \in trace.failed PROVE FALSE
      <4> DEFINE list == calls[Blamed].children
      <4>1. Lists(calls, list, Blamed, calls[Blamed].depth + 1, Kids(calls[Blamed].node))
        BY <3>1, <3>4 DEF Traced
      <4> HIDE DEF list
      <4>2. PICK n \in Places(list) : /\ calls[list[n]].node = c /\ list[n] \in Places(calls)
                                      /\ calls[list[n]].depth = calls[Blamed].depth + 1
        BY <4>1 DEF Lists
      <4>3. list[n] \in FailedCalls
        BY <3>1, <3>2, <3>5, <4>2 DEF Traced, StatusOK, FailedCalls
      <4>4. QED
        BY <3>3, <3>4, <4>2, <4>3
    <3>6. QED
      BY <3>4, <3>5
  <2>3. ASSUME NEW k \in DOMAIN outcomes, outcomes[k] = "reverted"
        PROVE  calls[Blamed].to
    <3>1. outcomes # <<>>
      BY <2>3
    <3>2. LaidOn(calls, outcomes)
      BY <1>1, <3>1 DEF PageInv, ListInv
    <3>3. Len(tx.raw) \in Nat /\ DOMAIN calls = 1..Len(tx.raw)
      BY <1>1, <3>2, ReplayPlaces DEF PageInv, PageTypes, LaidOn
    <3>4. Len(calls) = Len(tx.raw)
      BY <3>3
    <3>5. PICK i \in DOMAIN calls : calls[i].to /\ calls[i].status = "failed"
      BY <2>3, <3>2 DEF LaidOn
    <3>6. \A j \in DOMAIN calls : calls[j].depth = 0
      BY <3>2 DEF LaidOn
    <3>7. Blamed \in FailedCalls /\ \A j \in FailedCalls : j <= Blamed
      BY <2>1, <3>3, <3>4, <3>6, BlamedIsDeepest DEF FailedCalls
    <3>8. i \in FailedCalls
      BY <3>5 DEF FailedCalls
    <3>9. ASSUME ~calls[Blamed].to PROVE FALSE
      <4>1. Blamed = 1
        BY <3>2, <3>7, <3>9 DEF LaidOn, FailedCalls
      <4>2. i = 1
        BY <3>3, <3>7, <3>8, <4>1
      <4>3. QED
        BY <3>5, <3>9, <4>1, <4>2
    <3>10. QED
      BY <3>9
  <2>4. QED
    BY <2>1, <2>2, <2>3 DEF BlameIsWarranted
<1>2. PageInv => BlameIsWarranted
  BY <1>1 DEF BlameIsWarranted
<1>3. QED
  BY <1>2, PageInvariance, PTL

-----------------------------------------------------------------------------
(***************************************************************************)
(* The events of a receipt, in order.                                      *)
(***************************************************************************)
\* The places of a set in their order, and each found by its rank.
LEMMA OrderedFacts ==
  ASSUME NEW n \in Nat, NEW S \in SUBSET (1..n)
  PROVE  /\ Cardinality(S) \in Nat
         /\ Ordered(S) \in [1..Cardinality(S) -> S]
         /\ Len(Ordered(S)) = Cardinality(S)
         /\ \A j \in S : /\ Cardinality(S \cap 1..j) \in 1..Cardinality(S)
                         /\ Ordered(S)[Cardinality(S \cap 1..j)] = j
         /\ \A k \in 1..Cardinality(S) : Cardinality(S \cap 1..Ordered(S)[k]) = k
<1> DEFINE c == Cardinality(S)
           Rank(j) == Cardinality(S \cap 1..j)
           At(k) == CHOOSE j \in S : Rank(j) = k
<1>1. /\ c \in Nat /\ \A j \in S : Rank(j) \in 1..c
      /\ \A i, j \in S : i < j => Rank(i) < Rank(j)
      /\ \A k \in 1..c : \E j \in S : Rank(j) = k
  BY Ranks
<1>2. \A j \in S : Rank(j) \in Nat
  BY <1>1
<1>3. \A i, j \in S : Rank(i) = Rank(j) => i = j
  <2> SUFFICES ASSUME NEW i \in S, NEW j \in S, i # j PROVE Rank(i) # Rank(j)
    OBVIOUS
  <2>1. i < j \/ j < i
    OBVIOUS
  <2>2. Rank(i) < Rank(j) \/ Rank(j) < Rank(i)
    BY <1>1, <2>1
  <2> HIDE DEF Rank
  <2>3. QED
    BY <1>2, <2>2
<1>4. Ordered(S) = [k \in 1..c |-> At(k)]
  BY DEF Ordered
<1> HIDE DEF c, Rank
<1>5. \A k \in 1..c : At(k) \in S /\ Rank(At(k)) = k
  BY <1>1
<1>6. \A j \in S : At(Rank(j)) = j
  BY <1>1, <1>3, <1>5
<1> HIDE DEF At
<1>7. Ordered(S) \in [1..c -> S] /\ Len(Ordered(S)) = c
  <2>1. Ordered(S) \in [1..c -> S]
    BY <1>4, <1>5
  <2>2. Ordered(S) \in Seq(S)
    BY <1>1, <2>1
  <2>3. QED
    BY <1>1, <2>1, <2>2
<1>8. \A j \in S : Rank(j) \in 1..c /\ Ordered(S)[Rank(j)] = j
  BY <1>1, <1>4, <1>6
<1>9. \A k \in 1..c : Rank(Ordered(S)[k]) = k
  BY <1>4, <1>5
<1>10. QED
  BY <1>1, <1>7, <1>8, <1>9 DEF c, Rank

\* As many places as were moved apart.
LEMMA AsManyMoved ==
  ASSUME NEW n \in Nat, NEW A \in SUBSET (1..n), NEW e, NEW T,
         \A i \in A : e[i] \in T, \A x \in T : \E i \in A : x = e[i],
         \A i, j \in A : i < j => e[i] < e[j],
         \A i \in A : e[i] \in Nat
  PROVE  Cardinality(T) = Cardinality(A)
<1> DEFINE f == [j \in A |-> e[j]]
<1>1. IsFiniteSet(A)
  BY Counted, FS_Subset
<1>2. f \in [A -> T] /\ \A t \in T : \E j \in A : f[j] = t
  OBVIOUS
<1>3. \A i, j \in A : f[i] = f[j] => i = j
  <2> SUFFICES ASSUME NEW i \in A, NEW j \in A, i # j PROVE e[i] # e[j]
    OBVIOUS
  <2>1. i \in Nat /\ j \in Nat /\ e[i] \in Nat /\ e[j] \in Nat
    OBVIOUS
  <2>2. i < j \/ j < i
    BY <2>1
  <2>3. e[i] < e[j] \/ e[j] < e[i]
    BY <2>2
  <2>4. QED
    BY <2>1, <2>3
<1> HIDE DEF f
<1>4. f \in Injection(A, T)
  BY <1>2, <1>3, Fun_IsInj
<1>5. f \in Surjection(A, T)
  BY <1>2, Fun_IsSurj
<1>6. QED
  BY <1>1, <1>4, <1>5, FS_Surjection

\* The places of T are those of S, moved apart.
Apart(n, S, e, T, m) ==
  /\ n \in Nat /\ m \in Nat /\ S \subseteq 1..n
  /\ \A i \in S : e[i] \in 1..m
  /\ \A i, j \in S : i < j => e[i] < e[j]
  /\ \A i \in S : e[i] \in T
  /\ \A x \in T : \E i \in S : x = e[i]

\* Places moved apart keep their order.
LEMMA OrderKept ==
  ASSUME NEW n, NEW S, NEW e, NEW T, NEW m, Apart(n, S, e, T, m)
  PROVE  /\ Len(Ordered(T)) = Len(Ordered(S))
         /\ \A k \in 1..Len(Ordered(S)) : Ordered(S)[k] \in S /\ Ordered(T)[k] = e[Ordered(S)[k]]
<1> USE DEF Apart
<1>1. T \in SUBSET (1..m) /\ \A i \in S : e[i] \in Nat /\ e[i] \in T
  <2>1. \A x \in 1..m : x \in Nat
    OBVIOUS
  <2>2. \A x \in T : x \in 1..m
    OBVIOUS
  <2>3. \A i \in S : e[i] \in T
    OBVIOUS
  <2>4. QED
    BY <2>1, <2>2, <2>3
<1>2. Cardinality(T) = Cardinality(S)
  BY <1>1, AsManyMoved
<1>3. ASSUME NEW i \in S
      PROVE  Cardinality(T \cap 1..e[i]) = Cardinality(S \cap 1..i)
  <2> DEFINE A == S \cap 1..i
  <2>1. \A j \in S : j \in Nat /\ j >= 1 /\ i \in Nat
    OBVIOUS
  <2>2. \A j \in S : e[j] <= e[i] <=> j <= i
    <3> SUFFICES ASSUME NEW j \in S PROVE e[j] <= e[i] <=> j <= i
      OBVIOUS
    <3>1. e[i] \in Nat /\ e[j] \in Nat /\ i \in Nat /\ j \in Nat
      BY <1>1, <2>1
    <3>2. (i < j => e[i] < e[j]) /\ (j < i => e[j] < e[i]) /\ (i = j => e[i] = e[j])
      OBVIOUS
    <3>3. QED
      BY <3>1, <3>2
  <2>3. /\ \A j \in A : e[j] \in T \cap 1..e[i]
        /\ \A x \in T \cap 1..e[i] : \E j \in A : x = e[j]
    <3>1. \A j \in S : e[j] \in 1..e[i] <=> j \in A
      BY <1>1, <2>1, <2>2
    <3> HIDE DEF A
    <3>2. \A j \in A : j \in S
      BY DEF A
    <3>3. QED
      BY <3>1, <3>2
  <2>4. /\ A \in SUBSET (1..n)
        /\ \A j, k \in A : j < k => e[j] < e[k]
        /\ \A j \in A : e[j] \in Nat
    BY <1>1
  <2> HIDE DEF A
  <2>5. Cardinality(T \cap 1..e[i]) = Cardinality(A)
    BY <2>3, <2>4, AsManyMoved
  <2>6. QED
    BY <2>5 DEF A
<1>4. ASSUME NEW k \in 1..Cardinality(S)
      PROVE  Ordered(S)[k] \in S /\ Ordered(T)[k] = e[Ordered(S)[k]]
  <2> DEFINE i == Ordered(S)[k]
  <2>1. i \in S /\ Cardinality(S \cap 1..i) = k
    <3>1. /\ Ordered(S) \in [1..Cardinality(S) -> S]
          /\ \A j \in 1..Cardinality(S) : Cardinality(S \cap 1..Ordered(S)[j]) = j
      BY OrderedFacts
    <3> HIDE DEF Apart
    <3>2. QED
      BY <3>1
  <2> HIDE DEF i
  <2>2. Cardinality(T \cap 1..e[i]) = k /\ e[i] \in T
    BY <1>1, <1>3, <2>1
  <2>3. \A j \in T : Ordered(T)[Cardinality(T \cap 1..j)] = j
    BY <1>1, OrderedFacts
  <2>4. QED
    BY <2>1, <2>2, <2>3 DEF i
<1>5. Len(Ordered(S)) = Cardinality(S) /\ Len(Ordered(T)) = Cardinality(T)
  BY <1>1, OrderedFacts
<1>6. QED
  BY <1>2, <1>4, <1>5

\* The logs of one thing done: one, or the two of a memo transfer.
LEMMA LogsFacts ==
  ASSUME NEW act \in Actions
  PROVE  LET logs == LogsOf(act)
             first == logs[1]
             last == logs[Len(logs)]
         IN  /\ Len(logs) = IF act.kind = "memo" THEN 2 ELSE 1
             /\ first.name # "TransferWithMemo"
             /\ last.what = act.what
             /\ last.name = "Other" <=> act.kind = "unknown"
             /\ last.name = "TransferWithMemo" <=> act.kind = "memo"
             /\ act.kind = "memo" => first.name = "Transfer" /\ first.what = act.what
<1>1. act.kind \in {"transfer", "memo", "fee", "bookkeeping", "unknown"}
      /\ (act.kind = "bookkeeping" \/ act.kind = "unknown" => act.what = Fee)
  BY DEF Actions
<1>2. CASE act.kind = "memo"
  BY <1>2 DEF LogsOf
<1>3. CASE act.kind \in {"transfer", "fee"}
  BY <1>3 DEF LogsOf
<1>4. CASE act.kind = "bookkeeping"
  BY <1>1, <1>4 DEF LogsOf
<1>5. CASE act.kind = "unknown"
  BY <1>1, <1>5 DEF LogsOf
<1>6. QED
  BY <1>1, <1>2, <1>3, <1>4, <1>5

\* Each thing done adds its logs to the receipt, so the ends rise.
LEMMA EndsRise ==
  ASSUME NEW did \in Seq(Actions)
  PROVE  /\ Len(did) \in Nat /\ EndOf(did, 0) = 0
         /\ \A i \in 0..Len(did) : EndOf(did, i) \in Nat
         /\ \A i \in 1..Len(did) :
              EndOf(did, i) = EndOf(did, i - 1) + IF did[i].kind = "memo" THEN 2 ELSE 1
         /\ \A i, j \in 0..Len(did) : i < j => EndOf(did, i) < EndOf(did, j)
<1> DEFINE Memos(i) == {j \in 1..i : did[j].kind = "memo"}
<1>1. \A i \in Nat : /\ IsFiniteSet(Memos(i)) /\ Cardinality(Memos(i)) \in Nat
                     /\ EndOf(did, i) = i + Cardinality(Memos(i))
  <2>1. TAKE i \in Nat
  <2>2. Memos(i) \in SUBSET (1..i)
    OBVIOUS
  <2>3. QED
    BY <2>2, Counted, FS_Subset, FS_CardinalityType DEF EndOf
<1>2. EndOf(did, 0) = 0
  <2>1. Memos(0) = {}
    OBVIOUS
  <2>2. QED
    BY <1>1, <2>1, FS_EmptySet
<1>3. Len(did) \in Nat
  OBVIOUS
<1>4. \A i \in 0..Len(did) : i \in Nat /\ EndOf(did, i) \in Nat
  <2>1. TAKE i \in 0..Len(did)
  <2>2. i \in Nat
    BY <1>3
  <2> HIDE DEF Memos
  <2>3. Cardinality(Memos(i)) \in Nat /\ EndOf(did, i) = i + Cardinality(Memos(i))
    BY <1>1, <2>2
  <2>4. QED
    BY <2>2, <2>3
<1>5. ASSUME NEW i \in 1..Len(did)
      PROVE  EndOf(did, i) = EndOf(did, i - 1) + IF did[i].kind = "memo" THEN 2 ELSE 1
  <2>1. i \in Nat /\ i - 1 \in Nat /\ i >= 1
    OBVIOUS
  <2>2. Memos(i) = IF did[i].kind = "memo" THEN Memos(i - 1) \cup {i} ELSE Memos(i - 1)
    BY <2>1
  <2>3. i \notin Memos(i - 1)
    BY <2>1
  <2> HIDE DEF Memos
  <2> DEFINE before == Memos(i - 1)
  <2>4. /\ IsFiniteSet(before) /\ Cardinality(before) \in Nat
        /\ EndOf(did, i - 1) = i - 1 + Cardinality(before)
        /\ EndOf(did, i) = i + Cardinality(Memos(i))
    BY <1>1, <2>1
  <2> HIDE DEF before
  <2>5. Cardinality(before \cup {i}) = Cardinality(before) + 1
    BY <2>3, <2>4, FS_AddElement DEF before
  <2>6. Cardinality(Memos(i)) = IF did[i].kind = "memo" THEN Cardinality(before) + 1 ELSE Cardinality(before)
    BY <2>2, <2>5 DEF before
  <2>7. QED
    BY <2>1, <2>4, <2>6
<1>6. ASSUME NEW i \in 0..Len(did), NEW j \in 0..Len(did), i < j
      PROVE  EndOf(did, i) < EndOf(did, j)
  <2>1. i \in Nat /\ j \in Nat
    BY <1>4
  <2>2. Memos(i) \in SUBSET Memos(j)
    BY <1>6, <2>1
  <2> HIDE DEF Memos
  <2>3. Cardinality(Memos(i)) <= Cardinality(Memos(j))
    BY <1>1, <2>1, <2>2, FS_Subset
  <2>4. QED
    BY <1>1, <1>6, <2>1, <2>3
<1>7. QED
  BY <1>2, <1>3, <1>4, <1>5, <1>6

\* The receipt: what stands at the end of each thing's logs and before it.
LEMMA ReceiptFacts ==
  ASSUME NEW did \in Seq(Actions)
  PROVE  LET logs == ReceiptLogs(did)
             size == EndOf(did, Len(did))
             End(i) == EndOf(did, i)
         IN  /\ size \in Nat /\ DOMAIN logs = 1..size /\ Len(logs) = size
             /\ \A i \in 1..Len(did) :
                  /\ did[i] \in Actions
                  /\ End(i) \in 1..size /\ logs[End(i)] = LogsOf(did[i])[Len(LogsOf(did[i]))]
                  /\ End(i - 1) + 1 \in 1..End(i) /\ logs[End(i - 1) + 1] = LogsOf(did[i])[1]
             /\ \A p \in 1..size : \E i \in 1..Len(did) :
                  p = End(i) \/ (did[i].kind = "memo" /\ p = End(i) - 1 /\ p = End(i - 1) + 1)
<1> DEFINE logs == ReceiptLogs(did)
           n == Len(did)
           End(i) == EndOf(did, i)
           size == EndOf(did, n)
           In(p, i) == End(i - 1) < p /\ p <= End(i)
           Of(p) == CHOOSE i \in DOMAIN did : In(p, i)
<1>1. /\ n \in Nat /\ DOMAIN did = 1..n /\ \A i \in 1..n : did[i] \in Actions
  OBVIOUS
<1>2. /\ End(0) = 0 /\ \A i \in 0..n : End(i) \in Nat
      /\ \A i \in 1..n : End(i) = End(i - 1) + IF did[i].kind = "memo" THEN 2 ELSE 1
      /\ \A i, j \in 0..n : i < j => End(i) < End(j)
  BY EndsRise
<1>3. /\ size \in Nat /\ size = End(n)
      /\ logs = [p \in 1..size |-> LogsOf(did[Of(p)])[p - End(Of(p) - 1)]]
  BY <1>1, <1>2 DEF ReceiptLogs
<1>4. DOMAIN logs = 1..size /\ Len(logs) = size
  BY <1>3
<1> HIDE DEF logs, n, End, size
<1>5. \A i \in 1..n : i \in 0..n /\ i - 1 \in 0..n /\ i \in Nat
  BY <1>1
<1>6. ASSUME NEW i \in 1..n, NEW j \in 1..n, NEW p \in Nat, In(p, i), In(p, j)
      PROVE  i = j
  <2>1. ASSUME NEW a \in 1..n, NEW b \in 1..n, In(p, a), In(p, b), a < b PROVE FALSE
    <3>1. a <= b - 1 /\ a \in 0..n /\ b - 1 \in 0..n
      BY <1>5, <2>1
    <3>2. End(a) \in Nat /\ End(b - 1) \in Nat /\ (a < b - 1 => End(a) < End(b - 1))
      BY <1>2, <3>1
    <3>3. End(a) <= End(b - 1)
      BY <3>1, <3>2
    <3>4. QED
      BY <2>1, <3>2, <3>3
  <2>2. i < j \/ j < i \/ i = j
    BY <1>5
  <2>3. QED
    BY <1>6, <2>1, <2>2
<1>7. ASSUME NEW p \in 1..size PROVE \E i \in 1..n : In(p, i)
  <2> DEFINE Past == {i \in 0..n : p <= End(i)}
  <2>1. Past \in SUBSET Nat /\ n \in Past
    BY <1>1, <1>3
  <2> HIDE DEF Past
  <2>2. PICK i \in Past : \A j \in Past : i <= j
    BY <2>1, Least
  <2>3. i \in 0..n /\ p <= End(i)
    BY <2>2 DEF Past
  <2>4. i # 0
    BY <1>2, <2>3
  <2>5. i \in 1..n /\ i - 1 \in 0..n /\ ~(i <= i - 1)
    BY <1>1, <2>3, <2>4
  <2>6. ~(p <= End(i - 1))
    BY <2>2, <2>5 DEF Past
  <2>7. End(i - 1) \in Nat /\ p \in Nat
    BY <1>2, <1>3, <2>5
  <2>8. In(p, i)
    BY <2>3, <2>6, <2>7
  <2>9. QED
    BY <2>5, <2>8
<1>8. ASSUME NEW i \in 1..n, NEW p \in 1..size, In(p, i)
      PROVE  logs[p] = LogsOf(did[i])[p - End(i - 1)]
  <2>1. Of(p) \in 1..n /\ In(p, Of(p))
    BY <1>1, <1>8
  <2>2. p \in Nat
    BY <1>3
  <2>3. Of(p) = i
    BY <1>6, <1>8, <2>1, <2>2
  <2>4. QED
    BY <1>3, <2>3
<1> HIDE DEF Of
<1>9. ASSUME NEW i \in 1..n
      PROVE  /\ did[i] \in Actions
             /\ End(i) \in 1..size /\ logs[End(i)] = LogsOf(did[i])[Len(LogsOf(did[i]))]
             /\ End(i - 1) + 1 \in 1..End(i) /\ logs[End(i - 1) + 1] = LogsOf(did[i])[1]
  <2>1. did[i] \in Actions
    BY <1>1
  <2>2. /\ End(i) \in Nat /\ End(i - 1) \in Nat /\ End(n) \in Nat
        /\ i = n \/ i < n
        /\ i < n => End(i) < End(n)
    BY <1>1, <1>2, <1>5
  <2>3. Len(LogsOf(did[i])) = IF did[i].kind = "memo" THEN 2 ELSE 1
    BY <2>1, LogsFacts
  <2>4. End(i) = End(i - 1) + Len(LogsOf(did[i])) /\ Len(LogsOf(did[i])) \in {1, 2}
    BY <1>2, <2>3
  <2>5. End(i) <= size
    BY <1>3, <2>2
  <2> DEFINE last == End(i)
             first == End(i - 1) + 1
             length == Len(LogsOf(did[i]))
  <2>6. /\ first \in 1..last /\ last \in 1..size /\ first \in 1..size
        /\ In(first, i) /\ In(last, i)
        /\ last - End(i - 1) = length /\ first - End(i - 1) = 1
    <3> DEFINE before == End(i - 1)
    <3>1. before \in Nat /\ last \in Nat /\ last = before + length /\ length \in {1, 2} /\ last <= size /\ size \in Nat
      BY <1>3, <2>2, <2>4, <2>5
    <3> HIDE DEF length, last, before
    <3>2. /\ before + 1 \in 1..last /\ last \in 1..size /\ before + 1 \in 1..size
          /\ before < before + 1 /\ before + 1 <= last /\ before < last /\ last <= last
          /\ last - before = length /\ (before + 1) - before = 1
      BY <3>1
    <3>3. QED
      BY <3>2 DEF last, before
  <2>7. logs[last] = LogsOf(did[i])[last - End(i - 1)] /\ logs[first] = LogsOf(did[i])[first - End(i - 1)]
    BY <1>8, <2>6
  <2>8. QED
    BY <2>1, <2>6, <2>7
<1>10. ASSUME NEW p \in 1..size
       PROVE  \E i \in 1..n :
                p = End(i) \/ (did[i].kind = "memo" /\ p = End(i) - 1 /\ p = End(i - 1) + 1)
  <2>1. PICK i \in 1..n : In(p, i)
    BY <1>7
  <2>2. End(i) \in Nat /\ End(i - 1) \in Nat /\ p \in Nat
        /\ End(i) = End(i - 1) + IF did[i].kind = "memo" THEN 2 ELSE 1
    BY <1>2, <1>3, <1>5
  <2>3. p = End(i) \/ (did[i].kind = "memo" /\ p = End(i) - 1 /\ p = End(i - 1) + 1)
    BY <2>1, <2>2
  <2>4. QED
    BY <2>3
<1>11. QED
  BY <1>3, <1>4, <1>9, <1>10 DEF logs, n, End, size

\* The things there are words for.
SaidOf(did) == {i \in DOMAIN did : did[i].kind # "unknown"}

\* An event is made of the last log of each thing that has words for it.
LEMMA ToldFacts ==
  ASSUME NEW did \in Seq(Actions)
  PROVE  Told(ReceiptLogs(did)) = {EndOf(did, i) : i \in SaidOf(did)}
<1> DEFINE logs == ReceiptLogs(did)
           n == Len(did)
           End(i) == EndOf(did, i)
           size == EndOf(did, n)
<1>1. /\ n \in Nat /\ DOMAIN did = 1..n
  OBVIOUS
<1>2. /\ size \in Nat /\ DOMAIN logs = 1..size /\ Len(logs) = size
      /\ \A i \in 1..n :
           /\ did[i] \in Actions
           /\ End(i) \in 1..size /\ logs[End(i)] = LogsOf(did[i])[Len(LogsOf(did[i]))]
           /\ End(i - 1) + 1 \in 1..End(i) /\ logs[End(i - 1) + 1] = LogsOf(did[i])[1]
      /\ \A p \in 1..size : \E i \in 1..n :
           p = End(i) \/ (did[i].kind = "memo" /\ p = End(i) - 1 /\ p = End(i - 1) + 1)
  BY ReceiptFacts
<1>3. /\ \A i \in 0..n : End(i) \in Nat
      /\ \A i, j \in 0..n : i < j => End(i) < End(j)
  BY EndsRise
<1>4. size = End(n)
  OBVIOUS
<1> HIDE DEF logs, n, End, size
<1>5. ASSUME NEW i \in 1..n
      PROVE  End(i) \in Told(logs) <=> did[i].kind # "unknown"
  <2> DEFINE p == End(i)
  <2>1. p \in 1..size /\ p \in Nat /\ did[i] \in Actions
    BY <1>2
  <2>2. /\ logs[p].name = "Other" <=> did[i].kind = "unknown"
        /\ logs[p].name = "TransferWithMemo" <=> did[i].kind = "memo"
    <3>1. logs[p] = LogsOf(did[i])[Len(LogsOf(did[i]))]
      BY <1>2
    <3>2. QED
      BY <2>1, <3>1, LogsFacts
  <2>3. ASSUME p < size PROVE ~RestatedBy(logs[p], logs[p + 1])
    <3>1. i # n /\ i + 1 \in 1..n /\ (i + 1) - 1 = i
      BY <1>1, <1>4, <2>1, <2>3
    <3>2. logs[p + 1] = LogsOf(did[i + 1])[1] /\ did[i + 1] \in Actions
      BY <1>2, <3>1
    <3>3. logs[p + 1].name # "TransferWithMemo"
      BY <3>2, LogsFacts
    <3>4. QED
      BY <3>3 DEF RestatedBy
  <2>4. QED
    BY <1>2, <2>1, <2>2, <2>3 DEF Told
<1>6. ASSUME NEW i \in 1..n, NEW p \in 1..size, did[i].kind = "memo", p = End(i) - 1, p = End(i - 1) + 1
      PROVE  p \notin Told(logs)
  <2>1. End(i) \in 1..size /\ did[i] \in Actions
        /\ logs[End(i)] = LogsOf(did[i])[Len(LogsOf(did[i]))] /\ logs[p] = LogsOf(did[i])[1]
    BY <1>2, <1>6
  <2>2. p + 1 = End(i) /\ p < size
    <3>1. size \in Nat /\ End(i) \in Nat /\ End(i) <= size
      BY <1>2, <2>1
    <3>2. QED
      BY <1>6, <3>1
  <2>3. RestatedBy(logs[p], logs[p + 1])
    BY <1>6, <2>1, <2>2, LogsFacts DEF RestatedBy
  <2>4. QED
    BY <1>2, <2>2, <2>3 DEF Told
<1>7. Told(logs) \subseteq {End(i) : i \in SaidOf(did)}
  <2> SUFFICES ASSUME NEW p \in Told(logs) PROVE \E i \in SaidOf(did) : p = End(i)
    OBVIOUS
  <2>1. p \in 1..size
    BY <1>2 DEF Told
  <2>2. PICK i \in 1..n : p = End(i) \/ (did[i].kind = "memo" /\ p = End(i) - 1 /\ p = End(i - 1) + 1)
    BY <1>2, <2>1
  <2>3. p = End(i)
    BY <1>6, <2>1, <2>2
  <2>4. did[i].kind # "unknown"
    BY <1>5, <2>3
  <2>5. QED
    BY <1>1, <2>3, <2>4 DEF SaidOf
<1>8. {End(i) : i \in SaidOf(did)} \subseteq Told(logs)
  BY <1>1, <1>5 DEF SaidOf
<1>9. QED
  BY <1>7, <1>8 DEF logs, End

\* One event for each thing that has words for it, in order and with its memo.
LEMMA EventsFacts ==
  ASSUME NEW did \in Seq(Actions)
  PROVE  LET events == KnownEvents(ReceiptLogs(did))
             said == Ordered(SaidOf(did))
         IN  /\ DOMAIN events = 1..Len(said) /\ Len(events) = Len(said)
             /\ \A k \in DOMAIN events : /\ events[k].what = did[said[k]].what
                                         /\ events[k].note <=> did[said[k]].kind = "memo"
<1> DEFINE logs == ReceiptLogs(did)
           n == Len(did)
           S == SaidOf(did)
           T == Told(logs)
           e == [i \in S |-> EndOf(did, i)]
           size == EndOf(did, n)
           events == KnownEvents(logs)
           said == Ordered(S)
           told == Ordered(T)
<1>1. n \in Nat /\ S \in SUBSET (1..n) /\ S \subseteq 0..n
  BY DEF SaidOf
<1>2. /\ size \in Nat
      /\ \A i \in 1..n : /\ did[i] \in Actions /\ EndOf(did, i) \in 1..size
                         /\ logs[EndOf(did, i)] = LogsOf(did[i])[Len(LogsOf(did[i]))]
  BY ReceiptFacts
<1>3. T = {e[i] : i \in S}
  BY ToldFacts
<1>4. \A i, j \in S : i < j => e[i] < e[j]
  BY <1>1, EndsRise
<1>5. \A i \in S : e[i] \in 1..size /\ e[i] = EndOf(did, i)
  BY <1>1, <1>2
<1> HIDE DEF S, T, e, n, size
<1>6. /\ Len(told) = Len(said)
      /\ \A k \in 1..Len(said) : said[k] \in S /\ told[k] = e[said[k]]
  <2>1. \A i \in S : e[i] \in 1..size
    BY <1>5
  <2>2. size \in Nat
    BY <1>2
  <2>3. (\A i \in S : e[i] \in T) /\ (\A x \in T : \E i \in S : x = e[i])
    BY <1>3
  <2>4. Len(Ordered(T)) = Len(Ordered(S))
        /\ \A k \in 1..Len(Ordered(S)) : Ordered(S)[k] \in S /\ Ordered(T)[k] = e[Ordered(S)[k]]
    <3>1. Apart(n, S, e, T, size)
      BY <1>1, <1>4, <2>1, <2>2, <2>3 DEF Apart
    <3>2. QED
      BY <3>1, OrderKept
  <2>5. QED
    BY <2>4
<1>7. Len(said) \in Nat /\ DOMAIN told = 1..Len(said)
  <2>1. T \in SUBSET (1..size)
    BY <1>3, <1>5
  <2>2. /\ Cardinality(S) \in Nat /\ Len(said) = Cardinality(S)
        /\ told \in [1..Cardinality(T) -> T] /\ Len(told) = Cardinality(T)
    BY <1>1, <1>2, <2>1, OrderedFacts
  <2>3. QED
    BY <1>6, <2>2
<1>8. events = [k \in 1..Len(said) |-> KnownEvent(logs[told[k]])]
  BY <1>7 DEF KnownEvents, T
<1> HIDE DEF said, told, events, logs
<1>9. DOMAIN events = 1..Len(said) /\ Len(events) = Len(said)
  BY <1>7, <1>8
<1>10. ASSUME NEW k \in 1..Len(said)
       PROVE  /\ events[k].what = did[said[k]].what
              /\ events[k].note <=> did[said[k]].kind = "memo"
  <2> DEFINE i == said[k]
             log == logs[EndOf(did, i)]
  <2>1. i \in S /\ i \in 1..n /\ told[k] = EndOf(did, i)
    BY <1>1, <1>5, <1>6
  <2>2. log = LogsOf(did[i])[Len(LogsOf(did[i]))] /\ did[i] \in Actions
    BY <1>2, <2>1
  <2>3. events[k] = KnownEvent(log)
    BY <1>8, <2>1
  <2>4. log.what = did[i].what /\ (log.name = "TransferWithMemo" <=> did[i].kind = "memo")
    BY <2>2, LogsFacts
  <2>5. events[k].what = log.what /\ events[k].note = (log.name = "TransferWithMemo")
    BY <2>3 DEF KnownEvent
  <2> HIDE DEF log
  <2>6. QED
    BY <2>4, <2>5
<1>11. QED
  BY <1>9, <1>10 DEF events, said, logs, S

\* A page that is done says what its transaction did.
EventsInv == pc = "done" => acts \in Seq(Actions) /\ known = KnownEvents(ReceiptLogs(acts))

\* Every payment is told once, in order and with its memo (summary.rs known_events,
\* restated_by), whatever else a transaction does and however much of it.
THEOREM ActionsSaidOnce == PageSpec => []EachActionSaidOnce
<1>1. PageInit => EventsInv
  BY DEF PageInit, EventsInv
<1>2. EventsInv /\ [PageNext]_viewVars => EventsInv'
  <2> SUFFICES ASSUME EventsInv, [PageNext]_viewVars PROVE EventsInv'
    OBVIOUS
  <2>1. CASE Summarise
    <3>1. PICK did \in BoundedSeq(Actions, MaxActions) :
            acts' = did /\ known' = KnownEvents(ReceiptLogs(did))
      BY <2>1 DEF Summarise
    <3>2. PICK m \in 0..MaxActions : did \in [1..m -> Actions]
      BY DEF BoundedSeq, SeqOf
    <3>3. m \in Nat
      BY <3>2, BoundsAssumption
    <3>4. did \in Seq(Actions)
      BY <3>2, <3>3
    <3>5. QED
      BY <3>1, <3>4 DEF EventsInv
  <2>2. CASE UNCHANGED <<pc, acts, known>>
    BY <2>2 DEF EventsInv
  <2>3. CASE pc' # "done"
    BY <2>3 DEF EventsInv
  <2>4. QED
    BY <2>1, <2>2, <2>3
       DEF PageNext, Walk, ExtractCalls, ResolveSuccess, ResolveFailure, Replay, Done, viewVars, pageVars
<1>3. EventsInv => EachActionSaidOnce
  <2> SUFFICES ASSUME EventsInv, pc = "done" PROVE EachActionSaidOnce
    BY DEF EachActionSaidOnce
  <2>1. acts \in Seq(Actions) /\ known = KnownEvents(ReceiptLogs(acts))
    BY DEF EventsInv
  <2>2. {i \in DOMAIN acts : acts[i].kind # "unknown"} = SaidOf(acts)
    BY DEF SaidOf
  <2> DEFINE said == Ordered(SaidOf(acts))
  <2>3. /\ Len(known) = Len(said) /\ DOMAIN known = 1..Len(said)
        /\ \A k \in DOMAIN known : /\ known[k].what = acts[said[k]].what
                                   /\ known[k].note <=> acts[said[k]].kind = "memo"
    BY <2>1, EventsFacts
  <2> HIDE DEF said
  <2>4. QED
    BY <2>2, <2>3 DEF EachActionSaidOnce, said
<1>4. QED
  BY <1>1, <1>2, <1>3, PTL DEF PageSpec

-----------------------------------------------------------------------------
(***************************************************************************)
(* Caches.                                                                 *)
(***************************************************************************)
Table == UNION {[D -> {"own", "none"}] : D \in SUBSET Keys}
Held == [value : {"own", "none"}, asked : Nat]
Entries == UNION {[D -> Held] : D \in SUBSET Keys}
View == [pc : {"idle", "ask", "store", "done"}, want : SUBSET Keys, at : Nat,
         got : Table, shown : Table, since : SUBSET Keys]

CacheTypes ==
  /\ cache \in Kinds
  /\ held \in Entries
  /\ source \in [Keys -> Nat]
  /\ now \in Nat
  /\ views \in [Views -> View]

\* No source gives a key the absence of a value: it gives none.
GotOwn == \A v \in Views : \A k \in DOMAIN views[v].got : views[v].got[k] = "own"

\* A label that says none was stamped before its token was indexed ...
StampedBefore ==
  \A k \in DOMAIN held : held[k].asked <= now /\ (held[k].value # "own" => held[k].asked <= source[k])

\* ... and an answer of none is stored before time has passed, so what a view
\* was shown is none only if the token came too late for its look.
TooLate(v, k) == views[v].at < source[k] + Ttl

LookedInTime ==
  \A v \in Views :
    /\ views[v].at <= now
    /\ \A k \in DOMAIN views[v].shown : views[v].shown[k] # "own" => TooLate(v, k)
    /\ views[v].pc = "store" => \A k \in views[v].want \ DOMAIN views[v].got : now <= source[k]
    /\ views[v].pc = "done" => \A k \in views[v].want \ DOMAIN views[v].shown : TooLate(v, k)

LabelsOK == cache = "labels" => StampedBefore /\ LookedInTime

\* A view asks for what it did not find: a value that is fresh was stored since.
Asking(v) == views[v].pc \in {"ask", "store"}
StoredSince ==
  \A v \in Views : \A k \in (views[v].want \ views[v].since) \cap DOMAIN held :
    Asking(v) => ~(Fresh(k) /\ held[k].value = "own")

CacheInv == CacheTypes /\ GotOwn /\ LabelsOK /\ StoredSince

LEMMA Bounds == Ttl \in Nat \ {0} /\ MaxNow \in Nat /\ Never \in Nat
BY CachesAssumption DEF Never

LEMMA NoEntries == <<>> \in Table /\ <<>> \in Entries /\ DOMAIN <<>> = {}
<1>1. DOMAIN <<>> = {}
  OBVIOUS
<1>2. <<>> = [k \in {} |-> k]
  OBVIOUS
<1>3. [k \in {} |-> k] \in [{} -> {"own", "none"}] /\ [k \in {} |-> k] \in [{} -> Held]
  OBVIOUS
<1>4. QED
  BY <1>1, <1>2, <1>3 DEF Table, Entries

LEMMA IdleFacts ==
  /\ Idle \in View /\ Idle.pc = "idle" /\ Idle.at = 0 /\ Idle.want = {}
  /\ DOMAIN Idle.got = {} /\ DOMAIN Idle.shown = {}
BY NoEntries DEF Idle, View

LEMMA TableFacts ==
  ASSUME NEW f \in Table
  PROVE  DOMAIN f \subseteq Keys /\ \A k \in DOMAIN f : f[k] \in {"own", "none"}
BY DEF Table

LEMMA EntriesFacts ==
  ASSUME NEW f \in Entries
  PROVE  /\ DOMAIN f \subseteq Keys
         /\ \A k \in DOMAIN f : f[k] \in Held /\ f[k].asked \in Nat /\ f[k].value \in {"own", "none"}
BY DEF Entries, Held

\* A view's record with one field written.
LEMMA SetPc ==
  ASSUME NEW r \in View, NEW x \in {"idle", "ask", "store", "done"}
  PROVE  LET s == [r EXCEPT !.pc = x]
         IN  /\ s \in View /\ s.pc = x
             /\ s.want = r.want /\ s.at = r.at /\ s.got = r.got /\ s.shown = r.shown /\ s.since = r.since
BY DEF View

LEMMA SetWant ==
  ASSUME NEW r \in View, NEW x \in SUBSET Keys
  PROVE  LET s == [r EXCEPT !.want = x]
         IN  /\ s \in View /\ s.want = x
             /\ s.pc = r.pc /\ s.at = r.at /\ s.got = r.got /\ s.shown = r.shown /\ s.since = r.since
BY DEF View

LEMMA SetAt ==
  ASSUME NEW r \in View, NEW x \in Nat
  PROVE  LET s == [r EXCEPT !.at = x]
         IN  /\ s \in View /\ s.at = x
             /\ s.pc = r.pc /\ s.want = r.want /\ s.got = r.got /\ s.shown = r.shown /\ s.since = r.since
BY DEF View

LEMMA SetGot ==
  ASSUME NEW r \in View, NEW x \in Table
  PROVE  LET s == [r EXCEPT !.got = x]
         IN  /\ s \in View /\ s.got = x
             /\ s.pc = r.pc /\ s.want = r.want /\ s.at = r.at /\ s.shown = r.shown /\ s.since = r.since
BY DEF View

LEMMA SetShown ==
  ASSUME NEW r \in View, NEW x \in Table
  PROVE  LET s == [r EXCEPT !.shown = x]
         IN  /\ s \in View /\ s.shown = x
             /\ s.pc = r.pc /\ s.want = r.want /\ s.at = r.at /\ s.got = r.got /\ s.since = r.since
BY DEF View

LEMMA SetSince ==
  ASSUME NEW r \in View, NEW x \in SUBSET Keys
  PROVE  LET s == [r EXCEPT !.since = x]
         IN  /\ s \in View /\ s.since = x
             /\ s.pc = r.pc /\ s.want = r.want /\ s.at = r.at /\ s.got = r.got /\ s.shown = r.shown
BY DEF View

-----------------------------------------------------------------------------
(***************************************************************************)
(* Each step keeps the invariant.                                          *)
(***************************************************************************)
LEMMA InitCaches == CachesInit => CacheInv
<1> SUFFICES ASSUME CachesInit PROVE CacheInv
  OBVIOUS
<1> USE DEF CachesInit
<1>1. CacheTypes
  BY Bounds, NoEntries, IdleFacts DEF CacheTypes
<1>2. held = <<>> /\ \A v \in Views : views[v] = Idle
  OBVIOUS
<1>3. GotOwn /\ StoredSince
  BY <1>2, IdleFacts, NoEntries DEF GotOwn, StoredSince
<1>4. StampedBefore /\ LookedInTime
  BY <1>2, IdleFacts, NoEntries DEF StampedBefore, LookedInTime
<1>5. QED
  BY <1>1, <1>3, <1>4 DEF CacheInv, LabelsOK

LEMMA TickStep == ASSUME CacheInv, Tick PROVE CacheInv'
<1> USE DEF CacheInv, CacheTypes
<1>1. /\ now' = now + 1 /\ UNCHANGED <<cache, held, source, views>>
      /\ cache = "labels" => \A v \in Views : views[v].pc # "store"
  BY DEF Tick
<1>2. \A k \in DOMAIN held : held[k].asked \in Nat
  BY EntriesFacts
<1>3. \A k \in DOMAIN held : Fresh(k)' => Fresh(k)
  BY <1>1, <1>2, Bounds DEF Fresh
<1>4. StoredSince'
  BY <1>1, <1>3 DEF StoredSince, Asking
<1>5. LabelsOK'
  BY <1>1, <1>2 DEF LabelsOK, StampedBefore, LookedInTime, TooLate, View
<1>6. QED
  BY <1>1, <1>4, <1>5 DEF GotOwn

LEMMA LearnStep == ASSUME CacheInv, NEW k \in Keys, Learn(k) PROVE CacheInv'
<1> USE DEF CacheInv, CacheTypes
<1>1. source' = [source EXCEPT ![k] = now] /\ UNCHANGED <<cache, held, now, views>> /\ cache = "labels"
  BY DEF Learn
<1>2. source' \in [Keys -> Nat] /\ source'[k] = now /\ \A j \in Keys : j # k => source'[j] = source[j]
  BY <1>1
<1>3. DOMAIN held \subseteq Keys /\ \A v \in Views :
        DOMAIN views[v].shown \subseteq Keys /\ views[v].want \subseteq Keys /\ views[v].at \in Nat
  BY EntriesFacts, TableFacts DEF View
<1>4. StampedBefore' /\ LookedInTime'
  <2>1. StampedBefore'
    BY <1>1, <1>2, <1>3, EntriesFacts DEF LabelsOK, StampedBefore
  <2>2. \A v \in Views, j \in Keys : TooLate(v, j) => TooLate(v, j)'
    BY <1>1, <1>2, <1>3, Bounds DEF LabelsOK, LookedInTime, TooLate
  <2>3. \A j \in Keys : now <= source[j] => now <= source'[j]
    BY <1>2
  <2>4. QED
    BY <1>1, <1>3, <2>1, <2>2, <2>3 DEF LabelsOK, LookedInTime
<1>5. StoredSince' /\ GotOwn'
  BY <1>1 DEF StoredSince, GotOwn, Asking, Fresh
<1>6. QED
  BY <1>1, <1>2, <1>4, <1>5 DEF LabelsOK

\* A step that moves the state of one view only.
LEMMA ViewMoves ==
  ASSUME CacheInv, NEW v \in Views, NEW next \in View,
         views' = [views EXCEPT ![v] = next], UNCHANGED <<cache, held, source, now>>,
         \A k \in DOMAIN next.got : next.got[k] = "own",
         cache = "labels" =>
           /\ next.at <= now
           /\ \A k \in DOMAIN next.shown : next.shown[k] # "own" => next.at < source[k] + Ttl
           /\ next.pc = "store" => \A k \in next.want \ DOMAIN next.got : now <= source[k]
           /\ next.pc = "done" => \A k \in next.want \ DOMAIN next.shown : next.at < source[k] + Ttl,
         next.pc \in {"ask", "store"} =>
           \A k \in (next.want \ next.since) \cap DOMAIN held : ~(Fresh(k) /\ held[k].value = "own")
  PROVE  CacheInv'
<1>1. /\ views' \in [Views -> View] /\ views'[v] = next
      /\ \A w \in Views : w # v => views'[w] = views[w]
  BY DEF CacheInv, CacheTypes
<1>2. CacheTypes'
  BY <1>1 DEF CacheInv, CacheTypes
<1>3. GotOwn'
  BY <1>1 DEF CacheInv, GotOwn
<1>4. LabelsOK'
  <2> SUFFICES ASSUME cache = "labels", NEW w \in Views
               PROVE  /\ views'[w].at <= now
                      /\ \A k \in DOMAIN views'[w].shown :
                           views'[w].shown[k] # "own" => views'[w].at < source[k] + Ttl
                      /\ views'[w].pc = "store" =>
                           \A k \in views'[w].want \ DOMAIN views'[w].got : now <= source[k]
                      /\ views'[w].pc = "done" =>
                           \A k \in views'[w].want \ DOMAIN views'[w].shown : views'[w].at < source[k] + Ttl
    BY DEF CacheInv, LabelsOK, StampedBefore, LookedInTime, TooLate
  <2>1. CASE w = v
    BY <1>1, <2>1
  <2>2. CASE w # v
    BY <1>1, <2>2 DEF CacheInv, LabelsOK, LookedInTime, TooLate
  <2>3. QED
    BY <2>1, <2>2
<1>5. StoredSince'
  <2>1. \A k : Fresh(k)' <=> Fresh(k)
    BY DEF Fresh
  <2>2. QED
    BY <1>1, <2>1 DEF CacheInv, StoredSince, Asking
<1>6. QED
  BY <1>2, <1>3, <1>4, <1>5 DEF CacheInv

LEMMA LookStep == ASSUME CacheInv, NEW v \in Views, Look(v) PROVE CacheInv'
<1>1. PICK wanted \in Wants : \E missing \in Missing(wanted) :
        LET fresh == {k \in wanted : Fresh(k)}
            asks == missing # {} /\ ~(cache = "traces" /\ unavailable)
        IN views' = [views EXCEPT ![v] =
             [Idle EXCEPT !.pc = IF asks THEN "ask" ELSE "done",
                          !.want = missing, !.at = now,
                          !.shown = [k \in fresh |-> held[k].value]]]
  BY DEF Look
<1> DEFINE fresh == {k \in wanted : Fresh(k)}
           shown == [k \in fresh |-> held[k].value]
<1>2. PICK missing \in Missing(wanted) :
        LET asks == missing # {} /\ ~(cache = "traces" /\ unavailable)
        IN views' = [views EXCEPT ![v] =
             [Idle EXCEPT !.pc = IF asks THEN "ask" ELSE "done",
                          !.want = missing, !.at = now, !.shown = shown]]
  BY <1>1
<1>3. wanted \subseteq Keys
  BY DEF Wants
<1>4. missing \subseteq {k \in wanted : ~Fresh(k)}
  BY DEF Missing, kSubset
<1>5. fresh \subseteq Keys /\ fresh \subseteq DOMAIN held /\ shown \in Table /\ DOMAIN shown = fresh
  <2>1. fresh \subseteq Keys /\ fresh \subseteq DOMAIN held
    BY <1>3 DEF Fresh
  <2>2. \A k \in fresh : held[k].value \in {"own", "none"}
    BY <2>1, EntriesFacts DEF CacheInv, CacheTypes
  <2>3. shown \in [fresh -> {"own", "none"}]
    BY <2>2
  <2>4. QED
    BY <2>1, <2>3 DEF Table
<1> DEFINE asks == missing # {} /\ ~(cache = "traces" /\ unavailable)
           next == [Idle EXCEPT !.pc = IF asks THEN "ask" ELSE "done",
                                !.want = missing, !.at = now, !.shown = shown]
<1>6. \A k \in fresh : shown[k] = held[k].value
  OBVIOUS
<1>7. \A k \in fresh : (cache = "labels" /\ shown[k] # "own") => now < source[k] + Ttl
  <2> SUFFICES ASSUME NEW k \in fresh, cache = "labels", held[k].value # "own"
               PROVE  now < source[k] + Ttl
    BY <1>6
  <2>1. now - held[k].asked < Ttl /\ held[k].asked \in Nat /\ held[k].asked <= source[k]
    BY <1>5, EntriesFacts DEF Fresh, CacheInv, CacheTypes, LabelsOK, StampedBefore
  <2>2. source[k] \in Nat /\ now \in Nat
    BY <1>5 DEF CacheInv, CacheTypes
  <2>3. QED
    BY <2>1, <2>2, Bounds
<1> HIDE DEF fresh, shown
<1>8. /\ views' = [views EXCEPT ![v] = next]
      /\ UNCHANGED <<cache, held, source, now>>
  BY <1>2 DEF Look
<1>9. /\ next \in View /\ next.pc = (IF asks THEN "ask" ELSE "done")
      /\ next.want = missing /\ next.at = now /\ next.shown = shown
      /\ next.got = Idle.got /\ next.since = Idle.since
  <2> DEFINE to == IF asks THEN "ask" ELSE "done"
             r1 == [Idle EXCEPT !.pc = to]
             r2 == [r1 EXCEPT !.want = missing]
             r3 == [r2 EXCEPT !.at = now]
             r4 == [r3 EXCEPT !.shown = shown]
  <2>1. next = r4
    OBVIOUS
  <2> HIDE DEF next, asks
  <2>2. now \in Nat /\ missing \in SUBSET Keys
    BY <1>3, <1>4 DEF CacheInv, CacheTypes
  <2>3. to \in {"idle", "ask", "store", "done"} /\ to = (IF asks THEN "ask" ELSE "done")
    OBVIOUS
  <2> HIDE DEF to
  <2>4. r1 \in View /\ r1.pc = to /\ r1.got = Idle.got /\ r1.since = Idle.since
    <3>1. Idle \in View /\ to \in {"idle", "ask", "store", "done"}
      BY <2>3, IdleFacts
    <3>2. QED
      BY <3>1, SetPc
  <2> HIDE DEF r1
  <2>5. /\ r2 \in View /\ r2.pc = r1.pc /\ r2.want = missing /\ r2.got = r1.got /\ r2.since = r1.since
    BY <2>2, <2>4, SetWant
  <2> HIDE DEF r2
  <2>6. /\ r3 \in View /\ r3.pc = r2.pc /\ r3.want = r2.want /\ r3.at = now
        /\ r3.got = r2.got /\ r3.since = r2.since
    BY <2>2, <2>5, SetAt
  <2> HIDE DEF r3
  <2>7. /\ r4 \in View /\ r4.pc = r3.pc /\ r4.want = r3.want /\ r4.at = r3.at /\ r4.shown = shown
        /\ r4.got = r3.got /\ r4.since = r3.since
    BY <1>5, <2>6, SetShown
  <2> HIDE DEF r4
  <2>8. QED
    BY <2>1, <2>4, <2>5, <2>6, <2>7, <2>3
<1>10. now \in Nat /\ DOMAIN next.got = {}
  BY <1>9, IdleFacts DEF CacheInv, CacheTypes
<1>11. (cache = "labels" /\ next.pc = "done") => missing = {}
  BY <1>9
<1>12. next.pc # "store"
  BY <1>9
<1> HIDE DEF next, asks
<1>13. cache = "labels" =>
         /\ next.at <= now
         /\ \A k \in DOMAIN next.shown : next.shown[k] # "own" => next.at < source[k] + Ttl
         /\ next.pc = "store" => \A k \in next.want \ DOMAIN next.got : now <= source[k]
         /\ next.pc = "done" => \A k \in next.want \ DOMAIN next.shown : next.at < source[k] + Ttl
  BY <1>5, <1>7, <1>9, <1>10, <1>11, <1>12
<1>14. \A k \in (next.want \ next.since) \cap DOMAIN held : ~(Fresh(k) /\ held[k].value = "own")
  BY <1>4, <1>9
<1>15. QED
  BY <1>8, <1>9, <1>10, <1>13, <1>14, ViewMoves

\* An answer of none for a label is one of now.
LEMMA AnswerStep == ASSUME CacheInv, NEW v \in Views, Answer(v) PROVE CacheInv'
<1> DEFINE got == [k \in Given(views[v].want) |-> "own"]
           asked == [views[v] EXCEPT !.pc = "store"]
           next == [asked EXCEPT !.got = got]
<1>1. views[v] \in View /\ views[v].pc = "ask"
  BY DEF Answer, CacheInv, CacheTypes
<1>2. views' = [views EXCEPT ![v] = next] /\ UNCHANGED <<cache, held, source, now>>
  BY DEF Answer, CacheInv, CacheTypes
<1>3. DOMAIN got = Given(views[v].want) /\ Given(views[v].want) \subseteq Keys /\ got \in Table
  <2>1. Given(views[v].want) \in SUBSET Keys
    BY <1>1 DEF Given, View
  <2>2. got \in [Given(views[v].want) -> {"own", "none"}]
    OBVIOUS
  <2>3. QED
    BY <2>1, <2>2 DEF Table
<1>4. \A k \in views[v].want \ DOMAIN got : now <= source[k]
  BY <1>1, <1>3 DEF Given, Has, View, CacheInv, CacheTypes
<1>5. \A k \in DOMAIN got : got[k] = "own"
  OBVIOUS
<1> HIDE DEF got
<1>6. /\ next \in View /\ next.pc = "store" /\ next.got = got /\ next.want = views[v].want
      /\ next.at = views[v].at /\ next.shown = views[v].shown /\ next.since = views[v].since
  <2>1. /\ asked \in View /\ asked.pc = "store" /\ asked.want = views[v].want
        /\ asked.at = views[v].at /\ asked.shown = views[v].shown /\ asked.since = views[v].since
    BY <1>1, SetPc
  <2> HIDE DEF asked
  <2>2. QED
    BY <1>3, <2>1, SetGot
<1> HIDE DEF next, asked
<1>7. QED
  BY <1>1, <1>2, <1>3, <1>4, <1>5, <1>6, ViewMoves
  DEF CacheInv, LabelsOK, LookedInTime, TooLate, StoredSince, Asking

LEMMA OtherSteps ==
  ASSUME CacheInv, NEW v \in Views, Unreachable(v) \/ TraceFails(v) \/ Close(v)
  PROVE  CacheInv'
<1>1. views[v] \in View
  BY DEF CacheInv, CacheTypes
<1>2. CASE Close(v)
  <2>1. views' = [views EXCEPT ![v] = Idle] /\ UNCHANGED <<cache, held, source, now>> /\ 0 <= now
    BY <1>2 DEF Close, CacheInv, CacheTypes
  <2>2. QED
    BY <2>1, ViewMoves, IdleFacts
<1>3. CASE Unreachable(v) \/ TraceFails(v)
  <2> DEFINE to == IF cache = "signatures" THEN "store" ELSE "done"
             next == [views[v] EXCEPT !.pc = to]
  <2>1. /\ views' = [views EXCEPT ![v] = next] /\ UNCHANGED <<cache, held, source, now>>
        /\ cache # "labels" /\ views[v].pc = "ask"
    BY <1>3 DEF Unreachable, TraceFails, CacheInv, CacheTypes
  <2>2. /\ next \in View /\ next.pc = to /\ next.want = views[v].want /\ next.since = views[v].since
        /\ next.got = views[v].got
    BY <1>1 DEF View
  <2> HIDE DEF next, to
  <2>3. \A k \in DOMAIN next.got : next.got[k] = "own"
    BY <2>2 DEF CacheInv, GotOwn
  <2>4. \A k \in (next.want \ next.since) \cap DOMAIN held : ~(Fresh(k) /\ held[k].value = "own")
    BY <2>1, <2>2 DEF CacheInv, StoredSince, Asking
  <2>5. QED
    BY <2>1, <2>2, <2>3, <2>4, ViewMoves
<1>4. QED
  BY <1>2, <1>3

\* What a store leaves: entries kept, and what the view asked for.
LEMMA StoreFacts ==
  ASSUME CacheInv, NEW v \in Views, Store(v)
  PROVE  LET got == views[v].got
         IN  /\ views[v].pc = "store" /\ held' \in Entries
             /\ \A k \in DOMAIN held' :
                  \/ /\ k \in views[v].want \cup DOMAIN got
                     /\ held'[k].value = (IF k \in DOMAIN got THEN "own" ELSE "none")
                     /\ cache = "labels" => k \in views[v].want /\ held'[k].asked = now
                     /\ cache = "traces" => k \in DOMAIN got
                  \/ k \in DOMAIN held /\ held'[k] = held[k]
<1> DEFINE got == views[v].got
           S == Stored(v)
           E(k) == [value |-> IF k \in DOMAIN got THEN got[k] ELSE "none",
                    asked |-> CASE cache = "traces" -> 0
                                [] cache = "labels" -> now
                                [] cache = "signatures" -> views[v].at]
<1>1. /\ views[v] \in View /\ views[v].pc = "store"
      /\ got \in Table /\ DOMAIN got \subseteq Keys /\ views[v].want \subseteq Keys
      /\ views[v].at \in Nat /\ now \in Nat /\ cache \in Kinds
      /\ \A k \in DOMAIN got : got[k] = "own"
      /\ held \in Entries
  BY TableFacts DEF Store, CacheInv, CacheTypes, View, GotOwn
<1>2. held' = IF S = {} THEN held
              ELSE [k \in Kept \cup S |-> IF k \in S THEN E(k) ELSE held[k]]
  BY DEF Store
<1>3. Kept \subseteq DOMAIN held /\ DOMAIN held \subseteq Keys /\ \A k \in DOMAIN held : held[k] \in Held
  BY <1>1, EntriesFacts DEF Kept
<1>4. /\ S \subseteq Keys /\ S \subseteq views[v].want \cup DOMAIN got
      /\ cache = "labels" => S = views[v].want
      /\ cache = "traces" => S = DOMAIN got
  BY <1>1 DEF Stored
<1> HIDE DEF S
<1>5. \A k \in S : /\ E(k) \in Held
                   /\ E(k).value = (IF k \in DOMAIN got THEN "own" ELSE "none")
                   /\ cache = "labels" => E(k).asked = now
  BY <1>1 DEF Kinds, Held
<1> HIDE DEF E
<1>6. CASE S = {}
  BY <1>1, <1>2, <1>6
<1>7. CASE S # {}
  <2>1. /\ DOMAIN held' = Kept \cup S
        /\ \A k \in Kept \cup S : held'[k] = IF k \in S THEN E(k) ELSE held[k]
    BY <1>2, <1>7
  <2>2. held' \in [Kept \cup S -> Held]
    BY <1>2, <1>3, <1>5, <1>7
  <2>3. held' \in Entries
    BY <1>3, <1>4, <2>2 DEF Entries
  <2>4. QED
    BY <1>1, <1>3, <1>4, <1>5, <2>1, <2>3
<1>8. QED
  BY <1>6, <1>7

LEMMA StoreStep == ASSUME CacheInv, NEW v \in Views, Store(v) PROVE CacheInv'
<1> DEFINE got == views[v].got
           shown == [k \in DOMAIN views[v].shown \cup DOMAIN got |->
                       IF k \in DOMAIN got THEN got[k] ELSE views[v].shown[k]]
           done == [views[v] EXCEPT !.pc = "done"]
           spent == [done EXCEPT !.got = <<>>]
           fresh == [spent EXCEPT !.since = {}]
           mine == [fresh EXCEPT !.shown = shown]
           theirs(w) == [views[w] EXCEPT !.since = views[w].since \cup (DOMAIN got \cap views[w].want)]
<1>1. /\ views \in [Views -> View] /\ \A w \in Views : views[w] \in View
      /\ cache \in Kinds /\ held \in Entries /\ source \in [Keys -> Nat] /\ now \in Nat
      /\ DOMAIN got \subseteq Keys /\ DOMAIN views[v].shown \subseteq Keys /\ views[v].want \subseteq Keys
      /\ \A k \in DOMAIN got : got[k] = "own"
      /\ \A k \in DOMAIN views[v].shown : views[v].shown[k] \in {"own", "none"}
      /\ UNCHANGED <<cache, source, now>>
  BY TableFacts DEF Store, CacheInv, CacheTypes, View, GotOwn
<1>2. shown \in [DOMAIN views[v].shown \cup DOMAIN got -> {"own", "none"}] /\ shown \in Table
  <2>1. shown \in [DOMAIN views[v].shown \cup DOMAIN got -> {"own", "none"}]
    BY <1>1
  <2>2. QED
    BY <1>1, <2>1 DEF Table
<1>3. /\ DOMAIN shown = DOMAIN views[v].shown \cup DOMAIN got
      /\ \A k \in DOMAIN shown : shown[k] = IF k \in DOMAIN got THEN got[k] ELSE views[v].shown[k]
  OBVIOUS
<1>4. /\ done \in View /\ done.pc = "done" /\ done.want = views[v].want
      /\ done.at = views[v].at /\ done.shown = views[v].shown
  BY <1>1, SetPc
<1>5. /\ spent \in View /\ spent.pc = "done" /\ spent.want = views[v].want
      /\ spent.at = views[v].at /\ spent.shown = views[v].shown /\ spent.got = <<>>
  <2> HIDE DEF done
  <2>1. QED
    BY <1>4, NoEntries, SetGot
<1>6. /\ fresh \in View /\ fresh.pc = "done" /\ fresh.want = views[v].want
       /\ fresh.at = views[v].at /\ fresh.shown = views[v].shown /\ fresh.got = <<>>
  <2> HIDE DEF spent
  <2>1. QED
    BY <1>5, SetSince
<1>7. views' = [w \in Views |-> IF w = v THEN mine ELSE IF Asking(w) THEN theirs(w) ELSE views[w]]
  BY <1>6 DEF Store, Asking
<1>8. /\ mine \in View /\ mine.pc = "done" /\ DOMAIN mine.got = {} /\ mine.want = views[v].want
       /\ mine.at = views[v].at /\ mine.shown = shown
  <2> HIDE DEF fresh, shown
  <2>1. QED
    BY <1>2, <1>6, NoEntries, SetShown
<1>9. \A w \in Views : /\ theirs(w) \in View
                       /\ theirs(w).pc = views[w].pc /\ theirs(w).want = views[w].want
                       /\ theirs(w).at = views[w].at /\ theirs(w).got = views[w].got
                       /\ theirs(w).shown = views[w].shown
                       /\ theirs(w).since = views[w].since \cup (DOMAIN got \cap views[w].want)
  <2> SUFFICES ASSUME NEW w \in Views
               PROVE  /\ theirs(w) \in View
                      /\ theirs(w).pc = views[w].pc /\ theirs(w).want = views[w].want
                      /\ theirs(w).at = views[w].at /\ theirs(w).got = views[w].got
                      /\ theirs(w).shown = views[w].shown
                      /\ theirs(w).since = views[w].since \cup (DOMAIN got \cap views[w].want)
    OBVIOUS
  <2>1. views[w].since \cup (DOMAIN got \cap views[w].want) \in SUBSET Keys
    BY <1>1 DEF View
  <2>2. QED
    BY <1>1, <2>1, SetSince
<1> HIDE DEF shown, mine, theirs
<1>10. /\ views' \in [Views -> View] /\ views'[v] = mine
      /\ \A w \in Views : w # v => views'[w] = IF Asking(w) THEN theirs(w) ELSE views[w]
  BY <1>1, <1>9, <1>7, <1>8
<1>11. /\ \A w \in Views : w # v =>
           /\ views'[w].pc = views[w].pc /\ views'[w].want = views[w].want /\ views'[w].at = views[w].at
           /\ views'[w].got = views[w].got /\ views'[w].shown = views[w].shown
           /\ Asking(w) => views'[w].since = views[w].since \cup (DOMAIN got \cap views[w].want)
  BY <1>9, <1>10
<1>12. CacheTypes'
  BY <1>1, <1>10, StoreFacts DEF CacheTypes
<1>13. GotOwn'
  BY <1>8, <1>10, <1>11 DEF CacheInv, GotOwn
<1>14. LabelsOK'
  <2> SUFFICES ASSUME cache = "labels" PROVE StampedBefore' /\ LookedInTime'
    BY <1>1 DEF LabelsOK
  <2>1. StampedBefore /\ LookedInTime
    BY DEF CacheInv, LabelsOK
  <2>2. \A k \in views[v].want \ DOMAIN got : now <= source[k]
    BY <2>1, StoreFacts DEF LookedInTime
  <2>3. StampedBefore'
    <3> SUFFICES ASSUME NEW k \in DOMAIN held'
                 PROVE  held'[k].asked <= now /\ (held'[k].value # "own" => held'[k].asked <= source[k])
      BY <1>1 DEF StampedBefore
    <3>1. CASE k \in DOMAIN held /\ held'[k] = held[k]
      BY <2>1, <3>1 DEF StampedBefore
    <3>2. CASE /\ k \in views[v].want /\ held'[k].asked = now
               /\ held'[k].value = (IF k \in DOMAIN got THEN "own" ELSE "none")
      BY <1>1, <2>2, <3>2
    <3>3. QED
      BY <3>1, <3>2, StoreFacts
  <2>4. views[v].at \in Nat /\ \A k \in views[v].want \ DOMAIN got : views[v].at < source[k] + Ttl
    BY <1>1, <2>1, <2>2, Bounds DEF LookedInTime, View
  <2>5. ASSUME NEW w \in Views
        PROVE  /\ views'[w].at <= now
               /\ \A k \in DOMAIN views'[w].shown :
                    views'[w].shown[k] # "own" => views'[w].at < source[k] + Ttl
               /\ views'[w].pc = "store" =>
                    \A k \in views'[w].want \ DOMAIN views'[w].got : now <= source[k]
               /\ views'[w].pc = "done" =>
                    \A k \in views'[w].want \ DOMAIN views'[w].shown : views'[w].at < source[k] + Ttl
    <3>1. CASE w = v
      BY <1>1, <1>3, <1>8, <1>10, <2>1, <2>4, <3>1 DEF LookedInTime, TooLate
    <3>2. CASE w # v
      BY <1>11, <2>1, <3>2 DEF LookedInTime, TooLate
    <3>3. QED
      BY <3>1, <3>2
  <2>6. QED
    BY <1>1, <2>3, <2>5 DEF LookedInTime, TooLate
<1>15. StoredSince'
  <2> SUFFICES ASSUME NEW w \in Views, NEW k \in (views'[w].want \ views'[w].since) \cap DOMAIN held',
                      Asking(w)', Fresh(k)', held'[k].value = "own"
               PROVE  FALSE
    BY DEF StoredSince
  <2>1. w # v /\ Asking(w) /\ k \in views[w].want \ views[w].since /\ k \notin DOMAIN got
    BY <1>8, <1>10, <1>11 DEF Asking
  <2>2. k \in DOMAIN held /\ held'[k] = held[k]
    BY <2>1, StoreFacts
  <2>3. Fresh(k)
    BY <1>1, <2>2 DEF Fresh
  <2>4. QED
    BY <2>1, <2>2, <2>3 DEF CacheInv, StoredSince
<1>16. QED
  BY <1>12, <1>13, <1>14, <1>15 DEF CacheInv

\* Every view's steps, and time, keep the invariant.
THEOREM CachesInvariant == CachesSpec => []CacheInv
<1>1. CachesInit => CacheInv
  BY InitCaches
<1>2. CacheInv /\ [CachesNext]_cacheVars => CacheInv'
  <2> SUFFICES ASSUME CacheInv, [CachesNext]_cacheVars PROVE CacheInv'
    OBVIOUS
  <2>1. CASE Tick
    BY <2>1, TickStep
  <2>2. CASE \E k \in Keys : Learn(k)
    BY <2>2, LearnStep
  <2>3. ASSUME NEW v \in Views, Step(v) PROVE CacheInv'
    BY <2>3, LookStep, AnswerStep, OtherSteps, StoreStep DEF Step
  <2>4. CASE UNCHANGED cacheVars
    BY <2>4 DEF cacheVars, CacheInv, CacheTypes, GotOwn, LabelsOK, StampedBefore, LookedInTime, TooLate,
                StoredSince, Asking, Fresh
  <2>5. QED
    BY <2>1, <2>2, <2>3, <2>4 DEF CachesNext
<1>3. QED
  BY <1>1, <1>2, PTL DEF CachesSpec

\* web.rs LABEL_TTL: a token is tagged within it, whatever views looked before it
\* was indexed and store their answer late.
THEOREM TokensTaggedInTime == CachesSpec => []TaggedInTime
<1>1. CacheInv => TaggedInTime
  <2> SUFFICES ASSUME CacheInv, cache = "labels", NEW v \in Views, NEW k \in Keys,
                      views[v].pc = "done", k \in DOMAIN views[v].shown \cup views[v].want,
                      source[k] + Ttl <= views[v].at
               PROVE  k \in DOMAIN views[v].shown /\ views[v].shown[k] = "own"
    BY DEF TaggedInTime
  <2>1. source[k] \in Nat /\ views[v].at \in Nat
    BY DEF CacheInv, CacheTypes, View
  <2>2. ~TooLate(v, k)
    BY <2>1, Bounds DEF TooLate
  <2>3. QED
    BY <2>2 DEF CacheInv, LabelsOK, LookedInTime
<1>2. QED
  BY <1>1, CachesInvariant, PTL

\* A fresh name or label gives way to none only when a view stores what it asked
\* before that name was stored (signatures.rs resolve, web.rs cached_label).
THEOREM FreshIsKept == CachesSpec => OnlyOlderLooksForget
<1> DEFINE Forgets ==
      \A k \in DOMAIN held \cap DOMAIN held' :
         (Fresh(k) /\ held[k].value = "own" /\ held'[k].value = "none") =>
            \E v \in Views : views[v].pc = "store" /\ views'[v].pc = "done" /\ k \in views[v].since
<1>1. CacheInv /\ [CachesNext]_cacheVars => [Forgets]_cacheVars
  <2> SUFFICES ASSUME CacheInv, CachesNext,
                      NEW k \in DOMAIN held \cap DOMAIN held', Fresh(k),
                      held[k].value = "own", held'[k].value = "none"
               PROVE  \E v \in Views : views[v].pc = "store" /\ views'[v].pc = "done" /\ k \in views[v].since
    OBVIOUS
  <2>1. held' # held
    OBVIOUS
  <2>2. PICK v \in Views : Store(v)
    BY <2>1 DEF CachesNext, Step, Tick, Learn, Look, Answer, Unreachable, TraceFails, Close
  <2>3. /\ views[v].pc = "store" /\ k \in views[v].want /\ k \notin DOMAIN views[v].got
    BY <2>2, StoreFacts
  <2>4. k \in views[v].since
    BY <2>3 DEF CacheInv, StoredSince, Asking
  <2>5. views'[v].pc = "done"
    BY <2>2 DEF Store, CacheInv, CacheTypes, View
  <2>6. QED
    BY <2>3, <2>4, <2>5
<1>2. QED
  BY <1>1, CachesInvariant, PTL DEF CachesSpec, OnlyOlderLooksForget
=============================================================================
