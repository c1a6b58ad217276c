----------------------------- MODULE BlockGraph ------------------------------
(***************************************************************************)
(* The control-flow graph of a function (src/block.rs) and the edits the   *)
(* decompiler makes to it (src/funcdata.rs).  An edge is stored twice, in  *)
(* a slot of its source's out list and a slot of its target's in list,     *)
(* each half holding the slot number of the other (reverse_index); the     *)
(* bank keeps a copy of every list that other code reads (edge shadows);   *)
(* and slot i of a MULTIEQUAL is the value that arrives along in-edge i.   *)
(* Every edit slides slots, so it has all three to keep in step.           *)
(*                                                                         *)
(* Slots count from 1.  The MULTIEQUALs of a block are edited alike: one   *)
(* stands for all, and an input is the block at whose end its value is     *)
(* read.  The edits are operators from graph to graph, because the code    *)
(* builds one out of another; an action is one call.                       *)
(***************************************************************************)
EXTENDS Integers, FiniteSets, SequencesExt

CONSTANTS
    MaxBlocks,  \* bound: blocks made, slots of the bank
    MaxBasic,   \* bound: basic blocks flow following makes
    MaxEdges,   \* bound: edges flow following makes
    MaxOut,     \* bound: out-edges of a block
    Parallel    \* edits applied to a block entered twice from one block:
                \* a subset of {"remove", "split"}

ASSUME GraphAssumption ==
    /\ MaxBlocks \in Nat /\ MaxBasic \in 1..MaxBlocks
    /\ MaxEdges \in Nat /\ MaxOut \in Nat
    /\ Parallel \subseteq {"remove", "split"}

VARIABLES
    g,      \* the graph
    phase,  \* "connect", then "flow" (generated), then "ssa" (phis placed)
    source  \* the block connect_basic is adding the edges of, 0 afterwards

vars == <<g, phase, source>>

Blocks == 1..MaxBlocks  \* by slot of the bank

Edge == [point : Blocks, rev : Nat]

\* split_basic makes the blocks in op order, the entry block first.
FreshGraph(n) ==
    [list  |-> 1..n,                    \* BlockGraph.blocks
     made  |-> n,                       \* slots of the bank, never freed
     entry |-> 1,                       \* carries f_entry_point
     in    |-> [x \in Blocks |-> <<>>],
     out   |-> [x \in Blocks |-> <<>>],
     sin   |-> [x \in Blocks |-> <<>>], \* edge shadows
     sout  |-> [x \in Blocks |-> <<>>],
     phi   |-> [x \in Blocks |-> <<>>]] \* <<>>: no MULTIEQUAL

\* The first slot that leads to b, 0 when none does (find_out_index,
\* find_in_index).
FirstSlot(edges, b) == SelectInSeq(edges, LAMBDA e : e.point = b)
Points(edges) == FoldLeft(LAMBDA q, e : Append(q, e.point), <<>>, edges)

-----------------------------------------------------------------------------
(* FlowBlock: one block's lists.                                           *)

SyncOut(h, b) == [h EXCEPT !.sout[b] = h.out[b]]
SyncIn(h, b) == [h EXCEPT !.sin[b] = h.in[b]]
SyncBoth(h, b) == SyncIn(SyncOut(h, b), b)

AddInEdge(h, b, e) == SyncIn([h EXCEPT !.in[b] = Append(@, e)], b)
AddOutEdge(h, b, e) == SyncOut([h EXCEPT !.out[b] = Append(@, e)], b)

\* The entries of a list behind slot k slide left: the slots their other
\* halves are in.
Reciprocals(edges, k) ==
    {<<edges[j].point, edges[j].rev>> : j \in k + 1..Len(edges)}

\* decrement_reciprocal_reverse_index, for each of those halves.
Decrement(lists, slots) ==
    FoldSet(LAMBDA s, l : [l EXCEPT ![s[1]][s[2]].rev = @ - 1], lists, slots)

SyncTouched(shadow, lists, slots) ==
    FoldSet(LAMBDA s, f : [f EXCEPT ![s[1]] = lists[s[1]]], shadow, slots)

HalfDeleteInEdge(h, b, k) ==
    LET slots == Reciprocals(h.in[b], k)
        outs == Decrement(h.out, slots)
    IN  SyncBoth([h EXCEPT !.in[b] = RemoveAt(@, k), !.out = outs,
                           !.sout = SyncTouched(@, outs, slots)], b)

\* Mutant: the other halves of the entries that slide are left as they are.
SlideWithoutRepair(h, b, k) == SyncBoth([h EXCEPT !.out[b] = RemoveAt(@, k)], b)

HalfDeleteOutEdge(h, b, k) ==
    LET slots == Reciprocals(h.out[b], k)
        ins == Decrement(h.in, slots)
    IN  SyncBoth([h EXCEPT !.out[b] = RemoveAt(@, k), !.in = ins,
                           !.sin = SyncTouched(@, ins, slots)], b)

\* The two out-edges trade slots; each target is told the new one.
SwapEdges(h, b) ==
    LET out == <<h.out[b][2], h.out[b][1]>>
        Tell(f, k) ==
            SyncIn([f EXCEPT !.in[out[k].point][out[k].rev].rev = k], out[k].point)
    IN  IF Len(h.out[b]) # 2 THEN h
        ELSE SyncBoth(Tell(Tell([h EXCEPT !.out[b] = out], 1), 2), b)

\* In-edge i and out-edge o of b become one edge between their other ends,
\* in the slots those ends already have.  The ends' shadows are not
\* refreshed here.
ReplaceEdgesThru(h, b, i, o) ==
    LET from == h.in[b][i]
        to == h.out[b][o]
        rewired == [h EXCEPT
            !.out[from.point][from.rev] = [point |-> to.point, rev |-> to.rev],
            !.in[to.point][to.rev] = [point |-> from.point, rev |-> from.rev]]
    IN  HalfDeleteOutEdge(HalfDeleteInEdge(rewired, b, i), b, o)

-----------------------------------------------------------------------------
(* BlockGraph: edges and blocks.                                           *)

\* Mutant: the block is listed and not registered with the bank.
ListOnly(h) == [h EXCEPT !.list = @ \cup {h.made + 1}]

AddBlock(h) == [h EXCEPT !.list = @ \cup {h.made + 1}, !.made = @ + 1]

AddEdge(h, a, b) ==
    LET outEdge == [point |-> b, rev |-> Len(h.in[b]) + 1]
        inEdge == [point |-> a, rev |-> Len(h.out[a]) + 1]
    IN  AddInEdge(AddOutEdge(h, a, outEdge), b, inEdge)

RemoveEdge(h, a, b) ==
    LET k == FirstSlot(h.in[b], a)
    IN  IF k = 0 THEN h
        ELSE HalfDeleteOutEdge(HalfDeleteInEdge(h, b, k), a, h.in[b][k].rev)

RemoveBlock(h, b) ==
    LET NoIn(f, x) == IF f.in[b] = <<>> THEN f ELSE RemoveEdge(f, f.in[b][1].point, b)
        NoOut(f, x) == IF f.out[b] = <<>> THEN f ELSE RemoveEdge(f, b, f.out[b][1].point)
    IN  [FoldLeft(NoOut, FoldLeft(NoIn, h, h.in[b]), h.out[b])
            EXCEPT !.list = @ \ {b}]

\* Out-edge k of b leaves n instead; its target keeps its in slot.
MoveOutEdge(h, b, k, n) ==
    IF k > Len(h.out[b]) THEN h
    ELSE LET to == h.out[b][k].point
             i == h.out[b][k].rev
             cut == HalfDeleteOutEdge(h, b, h.in[to][i].rev)
             kept == [cut EXCEPT !.in[to][i] =
                          [point |-> n, rev |-> Len(cut.out[n]) + 1]]
         IN  AddOutEdge(SyncIn(kept, to), n, [point |-> to, rev |-> i])

\* The first out-edge of a to b leads to n instead, keeping its out slot.
SwitchEdge(h, a, b, n) ==
    LET k == FirstSlot(h.out[a], b)
        cut == HalfDeleteInEdge(h, b, h.out[a][k].rev)
        kept == [cut EXCEPT !.out[a][k] =
                     [point |-> n, rev |-> Len(cut.in[n]) + 1]]
    IN  IF k = 0 THEN h
        ELSE AddInEdge(SyncOut(kept, a), n, [point |-> a, rev |-> k])

\* Mutant: the labels are cleared and the shadows left to the next edit.
ResetWithoutSync(h) == h

\* Its first step, find_spanning_tree, clears the labels of every listed
\* block's edges and so refreshes all their shadows.
StructureReset(h) ==
    [h EXCEPT !.sin = [b \in Blocks |-> IF b \in h.list THEN h.in[b] ELSE @[b]],
              !.sout = [b \in Blocks |-> IF b \in h.list THEN h.out[b] ELSE @[b]]]

Reachable(h) ==
    LET next(bs) == UNION {Range(Points(h.out[b])) : b \in bs}
        r[n \in Nat] == IF n = 0 THEN {h.entry} ELSE r[n - 1] \cup next(r[n - 1])
    IN  r[Cardinality(Blocks)]

-----------------------------------------------------------------------------
(* Funcdata: the edits, with the MULTIEQUALs.                              *)

\* op_zero_multi: with one input or none it is a COPY from now on.
ZeroMulti(p) == IF Len(p) <= 1 THEN <<>> ELSE p

RemoveInput(h, b, i) ==
    IF h.phi[b] = <<>> THEN h
    ELSE [h EXCEPT !.phi[b] = ZeroMulti(RemoveAt(@, i))]

\* The value an input read at the end of b is read at the end of n.
Retag(h, b, n) ==
    LET tag(p) == FoldLeft(LAMBDA q, x : Append(q, IF x = b THEN n ELSE x), <<>>, p)
    IN  [h EXCEPT !.phi = [x \in Blocks |-> tag(@[x])]]

BranchRemoveInternal(h, b, k) ==
    LET to == h.out[b][k].point
    IN  RemoveInput(RemoveEdge(h, b, to), to, FirstSlot(h.in[to], b))

\* push_multiequals: readers of b's MULTIEQUAL beyond its out block need one
\* in the out block.
PushMultiequals(h, to) ==
    IF h.phi[to] # <<>> THEN h ELSE [h EXCEPT !.phi[to] = Points(h.in[to])]

\* Mutant: the new inputs go where the old one was.
SpliceInPlace(h, b, to, own) ==
    LET k == FirstSlot(h.in[to], b)
    IN  IF h.phi[to] = <<>> THEN h
        ELSE [h EXCEPT !.phi[to] = ZeroMulti(SubSeq(@, 1, k - 1)
                  \o Points(h.in[b]) \o SubSeq(@, k + 1, Len(@)))]

\* b's slot in the out block's MULTIEQUAL gives way to one slot per in-edge
\* of b: the inputs of b's own MULTIEQUAL when the slot read it (own), the
\* same value again otherwise.
SpliceInputs(h, b, to, own) ==
    LET inputs == IF own THEN SubSeq(h.phi[b], 1, Len(h.in[b]))
                         ELSE Points(h.in[b])
        kept == RemoveAt(h.phi[to], FirstSlot(h.in[to], b))
    IN  IF h.phi[to] = <<>> THEN h
        ELSE [h EXCEPT !.phi[to] = ZeroMulti(kept \o inputs)]

\* Mutant: removing the block takes its edges away, and that is all.
CutFromFlow(h, b) == h

\* From the last out slot on: drop the edge, send every in-edge of b to its
\* target (the first target takes them all).
RemoveFromFlow(h, b) ==
    LET Redirect(f, to) ==
            FoldLeft(LAMBDA e, x : SwitchEdge(e, e.in[b][1].point, b, to),
                     RemoveEdge(f, b, to), RemoveEdge(f, b, to).in[b])
    IN  FoldLeft(Redirect, h, Reverse(Points(h.out[b])))

\* The ops of b are destroyed, its MULTIEQUAL with them.
BlockRemoveInternal(h, b) ==
    RemoveBlock([RemoveFromFlow(h, b) EXCEPT !.phi[b] = <<>>], b)

RemoveUnreachableBlocks(h) ==
    LET dead == SetToSeq(h.list \ Reachable(h))
        Sever(f, b) == FoldLeft(LAMBDA e, x : BranchRemoveInternal(e, b, 1),
                                f, f.out[b])
    IN  StructureReset(FoldLeft(BlockRemoveInternal, FoldLeft(Sever, h, dead), dead))

RemoveDoNothingBlock(h, b, push, own) ==
    LET to == h.out[b][1].point
        pushed == IF push THEN PushMultiequals(h, to) ELSE h
    IN  StructureReset(BlockRemoveInternal(SpliceInputs(pushed, b, to, own), b))

\* A successor that still starts with a MULTIEQUAL is refused, after one
\* more edge to it has been added.  The ops of the successor move to b.
SpliceBlockBasic(h, b) ==
    LET to == h.out[b][1].point
        moved == FoldLeft(LAMBDA f, x : MoveOutEdge(f, to, 1, b),
                          RemoveEdge(h, b, to), h.out[to])
    IN  IF h.phi[to] # <<>> THEN AddEdge(h, b, to)
        ELSE StructureReset(Retag(RemoveBlock(moved, to), to, b))

\* cut_down_multiequals: of the slots of the two joined blocks the higher
\* goes, the lower reads the joined value.  The slots are those of before.
CutDownMultiequals(h, exit, in1, in2, n) ==
    LET lo == IF in1 > in2 THEN in2 ELSE in1
        hi == IF in1 > in2 THEN in1 ELSE in2
    IN  IF h.phi[exit] = <<>> THEN h
        ELSE RemoveInput([h EXCEPT !.phi[exit][lo] = n], exit, hi)

\* The branches of b1 and b2 to the same two exits become one, of a new
\* block n.  Each out slot is looked up after the previous edge has moved.
NodeJoinEdges(h, b1, b2, exita, exitb, high1a, high1b, n) ==
    LET cuta == RemoveEdge(h, IF high1a THEN b1 ELSE b2, exita)
        cutb == RemoveEdge(cuta, IF high1b THEN b1 ELSE b2, exitb)
        swapa == IF high1a THEN b2 ELSE b1
        swapb == IF high1b THEN b2 ELSE b1
        mova == MoveOutEdge(cutb, swapa, FirstSlot(cutb.out[swapa], exita), n)
        movb == MoveOutEdge(mova, swapb, FirstSlot(mova.out[swapb], exitb), n)
    IN  AddEdge(AddEdge(movb, b1, n), b2, n)

NodeJoin(h, b1, b2, merge) ==
    LET n == h.made + 1
        a1 == h.out[b1][1]   a2 == h.out[b2][1]
        c1 == h.out[b1][2]   c2 == h.out[b2][2]
        joined == StructureReset(NodeJoinEdges(AddBlock(h), b1, b2,
                      a1.point, c1.point, a1.rev > a2.rev, c1.rev > c2.rev, n))
        phis == IF merge THEN [joined EXCEPT !.phi[n] = <<b1, b2>>] ELSE joined
    IN  CutDownMultiequals(CutDownMultiequals(phis, a1.point, a1.rev, a2.rev, n),
                           c1.point, c1.rev, c2.rev, n)

\* A copy n of b takes over its in-edge i; each MULTIEQUAL loses input i, the
\* copy of it being a COPY.
NodeSplit(h, b, i) ==
    LET n == h.made + 1
        switched == SwitchEdge(AddBlock(h), h.in[b][i].point, b, n)
        copied == FoldLeft(LAMBDA f, to : AddEdge(f, n, to), switched,
                           Points(h.out[b]))
    IN  StructureReset(RemoveInput(copied, b, i))

\* b, emptied by the caller, has two in-edges and two out-edges: two edges
\* past it.
RemoveFromFlowSplit(h, b, swap) ==
    LET first == IF swap THEN 1 ELSE 2
        through == ReplaceEdgesThru(ReplaceEdgesThru(h, b, first, 2), b, 1, 1)
        Reread(f, i, o) ==
            IF f.phi[h.out[b][o].point] = <<>> THEN f
            ELSE [f EXCEPT !.phi[h.out[b][o].point][h.out[b][o].rev] =
                      h.in[b][i].point]
        emptied == [through EXCEPT !.phi[b] = <<>>]
    IN  StructureReset(RemoveBlock(
            Reread(Reread(emptied, first, 2), 3 - first, 1), b))

\* The branch of b that misses the switch block n becomes one of n's.
PushBranch(h, b, k, n) ==
    LET to == h.out[b][k].point
        moved == MoveOutEdge(h, b, k, n)
    IN  IF h.phi[to] = <<>> THEN moved
        ELSE [moved EXCEPT !.phi[to][h.out[b][k].rev] = n]

-----------------------------------------------------------------------------
(* The calls.                                                              *)

Init ==
    /\ \E n \in 1..MaxBasic : g = FreshGraph(n)
    /\ phase = "connect" /\ source = 1

EdgeCount == FoldSet(LAMBDA b, n : n + Len(g.out[b]), 0, Blocks)

\* collect_edges found them block by block.
ConnectBasic(a, b) ==
    /\ phase = "connect" /\ {a, b} \subseteq g.list
    /\ Len(g.out[a]) < MaxOut /\ EdgeCount < MaxEdges
    /\ a >= source /\ source' = a
    /\ g' = AddEdge(g, a, b)
    /\ UNCHANGED phase

\* An entry block with predecessors gets an empty block in front; flow that
\* may have met unreachable code removes it.
GenerateBlocks(drop) ==
    LET n == g.made + 1
        front == [AddEdge(AddBlock(g), n, g.entry) EXCEPT !.entry = n]
        entered == IF g.in[g.entry] = <<>> THEN g ELSE front
    IN  /\ phase = "connect" /\ g.made < MaxBlocks
        /\ g' = IF drop THEN RemoveUnreachableBlocks(entered) ELSE entered
        /\ phase' = "flow" /\ source' = 0

\* A MULTIEQUAL, with an input per in-edge, wherever two edges meet.
Heritage ==
    /\ phase = "flow" /\ phase' = "ssa"
    /\ g' = [StructureReset(g) EXCEPT !.phi = [b \in Blocks |->
                IF Len(g.in[b]) > 1 THEN Points(g.in[b]) ELSE <<>>]]
    /\ UNCHANGED source

Edit(h) == /\ phase = "ssa" /\ g' = h
           /\ UNCHANGED <<phase, source>>

\* No block enters b twice.
SingleEdges(b) == IsInjective(Points(g.in[b]))

Unreachable == g.list # Reachable(g) /\ Edit(RemoveUnreachableBlocks(g))

RemoveBranch(b, k) ==
    /\ b \in g.list /\ Len(g.out[b]) > 1 /\ k \in DOMAIN g.out[b]
    /\ Edit(StructureReset(BranchRemoveInternal(g, b, k)))

FlipInPlace(b) ==
    /\ b \in g.list /\ Len(g.out[b]) = 2
    /\ Edit(SwapEdges(g, b))

DoNothing(b, push, own) ==
    /\ b \in g.list /\ Len(g.out[b]) = 1 /\ g.in[b] # <<>>
    /\ g.out[b][1].point # b
    /\ own => g.phi[b] # <<>>
    /\ push => own
    /\ "remove" \in Parallel \/ SingleEdges(b)
    /\ Edit(RemoveDoNothingBlock(g, b, push, own))

RedundBranch(b) ==
    /\ b \in g.list /\ Len(g.out[b]) = 1
    /\ LET to == g.out[b][1].point IN Len(g.sin[to]) = 1 /\ to # g.entry
    /\ Edit(SpliceBlockBasic(g, b))

ConditionalJoin(b1, b2, merge) ==
    /\ {b1, b2} \subseteq g.list /\ b1 # b2 /\ g.made < MaxBlocks
    /\ Len(g.out[b1]) = 2 /\ Points(g.out[b1]) = Points(g.out[b2])
    /\ IsInjective(Points(g.out[b1]))
    /\ Edit(NodeJoin(g, b1, b2, merge))

ReturnSplit(b, i) ==
    /\ b \in g.list /\ g.made < MaxBlocks
    /\ g.out[b] = <<>> /\ Len(g.in[b]) > 1 /\ i \in DOMAIN g.in[b]
    /\ "split" \in Parallel \/ SingleEdges(b)
    /\ Edit(NodeSplit(g, b, i))

ConditionalExecution(b, swap) ==
    /\ b \in g.list /\ Len(g.in[b]) = 2 /\ Len(g.out[b]) = 2
    /\ b \notin Range(Points(g.in[b]))
    /\ Edit(RemoveFromFlowSplit(g, b, swap))

FoldInGuard(b, k) ==
    /\ b \in g.list /\ Len(g.out[b]) = 2 /\ k \in {1, 2}
    /\ LET n == g.out[b][3 - k].point IN
           /\ n # b /\ FirstSlot(g.out[n], g.out[b][k].point) = 0
           /\ Edit(PushBranch(g, b, k, n))

Next ==
    \/ \E a, b \in Blocks : ConnectBasic(a, b)
    \/ \E drop \in BOOLEAN : GenerateBlocks(drop)
    \/ Heritage
    \/ Unreachable
    \/ \E b \in Blocks : FlipInPlace(b) \/ RedundBranch(b)
    \/ \E b \in Blocks, k \in 1..MaxEdges : RemoveBranch(b, k) \/ FoldInGuard(b, k)
    \/ \E b \in Blocks, push, own \in BOOLEAN : DoNothing(b, push, own)
    \/ \E b1, b2 \in Blocks, merge \in BOOLEAN : ConditionalJoin(b1, b2, merge)
    \/ \E b \in Blocks, i \in 1..MaxEdges : ReturnSplit(b, i)
    \/ \E b \in Blocks, swap \in BOOLEAN : ConditionalExecution(b, swap)

Spec == Init /\ [][Next]_vars

-----------------------------------------------------------------------------
(* Properties.                                                             *)

\* Type invariant; the entry block is in the list.
TypeOK ==
    /\ g.made \in Blocks /\ g.list \subseteq 1..g.made /\ g.entry \in g.list
    /\ \A f \in {g.in, g.out, g.sin, g.sout} : f \in [Blocks -> Seq(Edge)]
    /\ g.phi \in [Blocks -> Seq(Blocks)]
    /\ phase \in {"connect", "flow", "ssa"}
    /\ source \in 0..MaxBlocks

\* The halves of every edge name each other (check_edges): the slot a half
\* records, in the block it names, holds the half that records it.
EdgesReciprocal ==
    \A b \in Blocks :
        /\ \A k \in DOMAIN g.out[b] : LET e == g.out[b][k] IN
               /\ e.rev \in DOMAIN g.in[e.point]
               /\ g.in[e.point][e.rev] = [point |-> b, rev |-> k]
        /\ \A k \in DOMAIN g.in[b] : LET e == g.in[b][k] IN
               /\ e.rev \in DOMAIN g.out[e.point]
               /\ g.out[e.point][e.rev] = [point |-> b, rev |-> k]

\* Between two calls the bank's copy of every edge list is the list: no edit
\* leaves a reader of the shadows an edge that moved.
ShadowsExact ==
    \A b \in 1..g.made : g.sin[b] = g.in[b] /\ g.sout[b] = g.out[b]

\* A MULTIEQUAL has at least two inputs, one per in-edge of its block, and
\* reads in each slot the value of the block that slot's edge comes from.
PhiSlotsMatch ==
    \A b \in Blocks : g.phi[b] # <<>> =>
        Len(g.phi[b]) > 1 /\ g.phi[b] = Points(g.in[b])

From(a, b) == Cardinality({i \in DOMAIN g.in[b] : g.in[b][i].point = a})

Flow == INSTANCE FlowGraph WITH
    blocks <- g.list, entry <- g.entry,
    edges <- [p \in Blocks \X Blocks |-> From(p[1], p[2])]

\* Every call changes the graph as the multigraph of FlowGraph, which knows
\* no slots: each edge it does not mean to move stays.
ImplementsFlowGraph == Flow!Spec
=============================================================================
