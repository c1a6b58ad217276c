----------------------------- MODULE FlowGraph -------------------------------
(***************************************************************************)
(* What the edits of BlockGraph promise: a directed multigraph with an     *)
(* entry block, and for each edit the edges it takes away and adds.        *)
(***************************************************************************)
EXTENDS Integers

CONSTANT Blocks

VARIABLES
    blocks,
    entry,
    edges   \* how many edges lead from the first block to the second

vars == <<blocks, entry, edges>>

Pair == Blocks \X Blocks

\* Edges p become edges q, one of each.
Moved(e, p, q) == [[e EXCEPT ![p] = @ - 1] EXCEPT ![q] = @ + 1]

\* What enters b enters to; b's own edges are gone.
Bypassed(e, b, to) == [p \in Pair |->
    IF b \in {p[1], p[2]} THEN 0
    ELSE IF p[2] = to THEN e[p] + e[<<p[1], b>>] ELSE e[p]]

\* What leaves to leaves b; to's own edges are gone.
Absorbed(e, b, to) == [p \in Pair |->
    IF to \in {p[1], p[2]} THEN 0
    ELSE IF p[1] = b THEN e[<<to, p[2]>>] ELSE e[p]]

Pred(b) == {a \in Blocks : edges[<<a, b>>] > 0}
Succ(b) == {a \in Blocks : edges[<<b, a>>] > 0}

\* Blocks no edge enters from outside.
Unentered(e, dead) == \A p \in Pair : p[2] \in dead /\ e[p] > 0 => p[1] \in dead
Without(e, dead) ==
    [p \in Pair |-> IF {p[1], p[2]} \cap dead # {} THEN 0 ELSE e[p]]

Init == /\ blocks \in SUBSET Blocks /\ entry \in blocks
        /\ edges = [p \in Pair |-> 0]

Connect(p) ==
    /\ edges'[p] = edges[p] + 1 /\ UNCHANGED <<blocks, entry>>
    /\ edges' = [edges EXCEPT ![p] = @ + 1]

\* A new entry in front of an entry with predecessors.
Front(n) ==
    /\ Pred(entry) # {} /\ n \notin blocks /\ entry' = n
    /\ LET e == [edges EXCEPT ![<<n, entry>>] = 1]
           dead == (blocks \cup {n}) \ blocks'
       IN  n \notin dead /\ Unentered(e, dead) /\ edges' = Without(e, dead)

DropUnreachable ==
    LET dead == blocks \ blocks'
    IN  /\ dead # {} /\ blocks' \subseteq blocks /\ UNCHANGED entry
        /\ entry \notin dead /\ Unentered(edges, dead)
        /\ edges' = Without(edges, dead)

RemoveBranch(p) ==
    /\ edges[p] > 0 /\ edges'[p] = edges[p] - 1 /\ UNCHANGED <<blocks, entry>>
    /\ edges' = [edges EXCEPT ![p] = @ - 1]

Bypass(b, to) ==
    /\ b # to /\ Succ(b) = {to} /\ edges[<<b, to>>] = 1
    /\ blocks' = blocks \ {b} /\ UNCHANGED entry
    /\ edges' = Bypassed(edges, b, to)

Absorb(b, to) ==
    /\ Succ(b) = {to} /\ Pred(to) = {b} /\ edges[<<b, to>>] = 1 /\ to # entry
    /\ blocks' = blocks \ {to} /\ UNCHANGED entry
    /\ edges' = Absorbed(edges, b, to)

\* The edges of b1 and b2 to x and y give way to one of each from n.
Join(b1, b2, x, y, n) ==
    /\ b1 # b2 /\ x # y /\ {b1, b2} \subseteq Pred(x) \cap Pred(y)
    /\ edges' = [p \in Pair |->
           edges[p] - (IF p \in {b1, b2} \X {x, y} THEN 1 ELSE 0)
                    + (IF p \in {<<b1, n>>, <<b2, n>>, <<n, x>>, <<n, y>>} THEN 1 ELSE 0)]

\* One edge from a to b leads to the copy n, which has no edges out.
Split(a, b, n) == Succ(b) = {} /\ edges' = Moved(edges, <<a, b>>, <<a, n>>)

\* b goes; the edge from i1 leads on to o1, that from i2 to o2.
Through(b, i1, o1, i2, o2) ==
    LET times(x, y, z) == (IF x = y THEN 1 ELSE 0) + (IF x = z THEN 1 ELSE 0)
    IN  /\ b \notin Pred(b)
        /\ \A x \in Blocks : /\ edges[<<x, b>>] = times(x, i1, i2)
                             /\ edges[<<b, x>>] = times(x, o1, o2)
        /\ edges' = [p \in Pair |-> IF b \in {p[1], p[2]} THEN 0
                                    ELSE edges[p] + times(p, <<i1, o1>>, <<i2, o2>>)]

\* b keeps its edge to the switch n, which takes over the other one.
Push(b, to, n) ==
    /\ to \in Succ(b) /\ n \in Succ(b) /\ to \notin Succ(n)
    /\ UNCHANGED <<blocks, entry>>
    /\ edges' = Moved(edges, <<b, to>>, <<n, to>>)

Next ==
    \/ \E p \in Pair : Connect(p) \/ RemoveBranch(p)
    \/ \E n \in Blocks : Front(n)
    \/ DropUnreachable
    \/ \E a, b \in Blocks : Bypass(a, b) \/ Absorb(a, b)
    \/ \E a, b, n \in Blocks : Push(a, b, n)
    \/ \E n \in Blocks \ blocks :
           /\ blocks' = blocks \cup {n} /\ UNCHANGED entry
           /\ \/ \E b \in Blocks : \E a \in Pred(b) : Split(a, b, n)
              \/ \E b1, b2, x, y \in Blocks : Join(b1, b2, x, y, n)
    \/ \E b \in blocks :
           /\ blocks' = blocks \ {b} /\ UNCHANGED entry
           /\ \E i1, i2 \in Pred(b), o1, o2 \in Succ(b) : Through(b, i1, o1, i2, o2)

Spec == Init /\ [][Next]_vars
=============================================================================
