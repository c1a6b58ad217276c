----------------------------- MODULE BlockOrder -----------------------------
(***************************************************************************)
(* Execution order inside basic blocks: BlockBasic's list of ops and the   *)
(* number SeqNum.order of each, kept so that two ops of a block compare by *)
(* one integer comparison (src/block.rs, src/funcdata.rs, src/flow.rs).    *)
(* An inserted op gets the midpoint of its neighbours' numbers; a block    *)
(* without room is renumbered.  Blocks are first filled by flow generation *)
(* and then edited, spliced and split by the analysis.                     *)
(***************************************************************************)
EXTENDS Integers, Sequences, FiniteSets

CONSTANTS
    Op, Block,
    Kind,     \* [Op -> {"phi", "ind", "flow", "plain"}]: MULTIEQUAL,
              \* INDIRECT, flow break, anything else
    Guarded,  \* [Op -> Op]: the op an INDIRECT is indirect for
    MaxOrd,   \* u32::MAX
    Gap       \* 0x0100_0000

Kinds == {"phi", "ind", "flow", "plain"}

ASSUME KindAssumption ==
    Kind \in [Op -> Kinds] /\ Guarded \in [Op -> Op]
ASSUME WidthAssumption ==
    /\ MaxOrd \in Nat /\ MaxOrd > 2 /\ Gap \in 2..MaxOrd
    /\ IsFiniteSet(Op) /\ 3 * Cardinality(Op) <= MaxOrd

VARIABLES
    ops,    \* [Block -> Seq(Op)]: BlockBasic.ops
    order,  \* [Op -> 0..MaxOrd]: SeqNum.order
    phase   \* "flow" until FlowInfo has split the ops into blocks

vars == <<ops, order, phase>>

Ord == 0..MaxOrd
Ran(s) == {s[i] : i \in 1..Len(s)}
InBlock(o) == \E b \in Block : o \in Ran(ops[b])
InsertedAt(s, p, o) ==
    [i \in 1..Len(s) + 1 |-> IF i < p THEN s[i] ELSE IF i = p THEN o ELSE s[i - 1]]
RemovedAt(s, p) == [i \in 1..Len(s) - 1 |-> IF i < p THEN s[i] ELSE s[i + 1]]

Init ==
    /\ ops = [b \in Block |-> <<>>]
    /\ order = [o \in Op |-> 0]
    /\ phase = "flow"
-----------------------------------------------------------------------------
(***************************************************************************)
(* Numbering.                                                              *)
(***************************************************************************)

\* u32 subtraction.
WrappingSub(a, b) == IF a >= b THEN a - b ELSE a - b + MaxOrd + 1

\* The number an append leaves room up to: before + Gap, or u32::MAX when
\* that wraps.
AppendLimit(before) == IF before + Gap > MaxOrd THEN MaxOrd ELSE before + Gap

Midpoint(before, after) == after \div 2 + before \div 2

Step(n) == (MaxOrd \div n) - 1

\* Mutant of Renumbered: the counter does not accumulate.
RenumberedFlat(s) == [o \in Op |-> IF o \in Ran(s) THEN Step(Len(s)) ELSE order[o]]

\* BlockBasic::set_order: multiples of the step, in block order.
Renumbered(s) ==
    [o \in Op |-> IF o \in Ran(s)
                  THEN (CHOOSE i \in 1..Len(s) : s[i] = o) * Step(Len(s))
                  ELSE order[o]]

OrderBefore(s, p) == IF p = 1 THEN 2 ELSE order[s[p - 1]]
OrderAfter(s, p) ==
    IF p = Len(s) + 1 THEN AppendLimit(OrderBefore(s, p)) ELSE order[s[p]]

\* Mutant of Insert: a block without room is not renumbered.
InsertCrowded(b, p, o) ==
    /\ ops' = [ops EXCEPT ![b] = InsertedAt(ops[b], p, o)]
    /\ order' = [order EXCEPT ![o] = WrappingSub(OrderAfter(ops[b], p), 1)]

\* BlockBasic::insert_op: op o goes to position p of block b.
Insert(b, p, o) ==
    LET before == OrderBefore(ops[b], p)
        after  == OrderAfter(ops[b], p)
    IN  /\ ops' = [ops EXCEPT ![b] = InsertedAt(ops[b], p, o)]
        /\ order' = IF WrappingSub(after, before) <= 1
                    THEN Renumbered(ops'[b])
                    ELSE [order EXCEPT ![o] = Midpoint(before, after)]
-----------------------------------------------------------------------------
(***************************************************************************)
(* Flow generation: FlowInfo::split_basic.                                 *)
(***************************************************************************)

\* block_insert_at_end: append with the midpoint formula, never renumbering.
FlowAppend(b, o) ==
    /\ phase = "flow" /\ ~InBlock(o) /\ Kind[o] \in {"plain", "flow"}
    /\ LET before == OrderBefore(ops[b], Len(ops[b]) + 1)
       IN  order' = [order EXCEPT ![o] = Midpoint(before, AppendLimit(before))]
    /\ ops' = [ops EXCEPT ![b] = Append(ops[b], o)]
    /\ UNCHANGED phase

FlowDone ==
    /\ phase = "flow"
    /\ phase' = "edit"
    /\ UNCHANGED <<ops, order>>
-----------------------------------------------------------------------------
(***************************************************************************)
(* The analysis: op_insert and its placements, for an op in no block.      *)
(***************************************************************************)

CanInsert(o) == phase = "edit" /\ ~InBlock(o)

\* The first position at or after p that does not hold a MULTIEQUAL.
PastPhis(s, p, q) ==
    /\ q \in p..Len(s) + 1
    /\ \A i \in p..q - 1 : Kind[s[i]] = "phi"
    /\ q <= Len(s) => Kind[s[q]] # "phi"

\* op_insert_before; callers never put an ordinary op before a MULTIEQUAL,
\* nor a MULTIEQUAL anywhere but at the head.
InsertBefore(o, b, p) ==
    /\ CanInsert(o) /\ p \in 1..Len(ops[b])
    /\ Kind[o] # "phi" /\ Kind[ops[b][p]] # "phi"
    /\ \E q \in 1..p :
          /\ IF Kind[o] = "ind" THEN q = p
             ELSE /\ \A i \in q..p - 1 : Kind[ops[b][i]] = "ind"
                  /\ q > 1 => Kind[ops[b][q - 1]] # "ind"
          /\ Insert(b, q, o)
    /\ UNCHANGED phase

\* The op that op_insert_after really follows: an INDIRECT stands for the op
\* it guards as long as that is alive.
IsEffective(prev, e) ==
    e = IF Kind[prev] = "ind" /\ InBlock(Guarded[prev]) THEN Guarded[prev] ELSE prev

\* Mutant of InsertAfter: the MULTIEQUAL group is not skipped.
InsertRightAfter(o, prev, b, p) ==
    /\ CanInsert(o) /\ InBlock(prev) /\ Kind[o] # "phi"
    /\ p \in 1..Len(ops[b]) /\ IsEffective(prev, ops[b][p])
    /\ Insert(b, p + 1, o)
    /\ UNCHANGED phase

\* op_insert_after, of an op other than a MULTIEQUAL.
InsertAfter(o, prev, b, p) ==
    /\ CanInsert(o) /\ InBlock(prev) /\ Kind[o] # "phi"
    /\ p \in 1..Len(ops[b]) /\ IsEffective(prev, ops[b][p])
    /\ \E q \in 1..Len(ops[b]) + 1 : PastPhis(ops[b], p + 1, q) /\ Insert(b, q, o)
    /\ UNCHANGED phase

\* op_insert_begin: MULTIEQUALs at the very head, others after them.
InsertBegin(o, b) ==
    /\ CanInsert(o)
    /\ IF Kind[o] = "phi" THEN Insert(b, 1, o)
       ELSE \E q \in 1..Len(ops[b]) + 1 : PastPhis(ops[b], 1, q) /\ Insert(b, q, o)
    /\ UNCHANGED phase

\* op_insert_end: before a final flow break.
InsertEnd(o, b) ==
    /\ CanInsert(o) /\ Kind[o] # "phi"
    /\ LET n == Len(ops[b]) IN
       Insert(b, IF n > 0 /\ Kind[ops[b][n]] = "flow" THEN n ELSE n + 1, o)
    /\ UNCHANGED phase

\* op_uninsert, op_destroy: numbers are left alone.
RemoveOp(b, p) ==
    /\ phase = "edit" /\ p \in 1..Len(ops[b])
    /\ ops' = [ops EXCEPT ![b] = RemovedAt(ops[b], p)]
    /\ UNCHANGED <<order, phase>>
-----------------------------------------------------------------------------
(***************************************************************************)
(* Blocks.                                                                 *)
(***************************************************************************)

\* The ops of b without a final branch.
Unbranched(s) ==
    IF Len(s) > 0 /\ Kind[s[Len(s)]] = "flow" THEN RemovedAt(s, Len(s)) ELSE s

\* Mutant of SpliceBlockBasic: c keeps the ops it handed over.
SpliceCopies(b, c) ==
    /\ phase = "edit" /\ b # c
    /\ ops' = [ops EXCEPT ![b] = Unbranched(ops[b]) \o ops[c]]
    /\ order' = Renumbered(ops'[b])
    /\ UNCHANGED phase

\* splice_block_basic: c, the only successor of b, is appended to b, which is
\* then renumbered - unless c begins with a MULTIEQUAL, when only the branch
\* is gone.
SpliceBlockBasic(b, c) ==
    /\ phase = "edit" /\ b # c
    /\ LET s == Unbranched(ops[b]) IN
       IF Len(ops[c]) > 0 /\ Kind[ops[c][1]] = "phi"
       THEN ops' = [ops EXCEPT ![b] = s] /\ UNCHANGED order
       ELSE /\ ops' = [ops EXCEPT ![b] = s \o ops[c], ![c] = <<>>]
            /\ order' = Renumbered(s \o ops[c])
    /\ UNCHANGED phase

\* split_block_at_case_dest: the ops from p on move to the new block c.
SplitBlock(b, p, c) ==
    /\ phase = "edit" /\ b # c /\ ops[c] = <<>>
    /\ p \in 2..Len(ops[b]) /\ Kind[ops[b][p]] # "phi"
    /\ ops' = [ops EXCEPT ![b] = SubSeq(ops[b], 1, p - 1),
                          ![c] = SubSeq(ops[b], p, Len(ops[b]))]
    /\ UNCHANGED <<order, phase>>

Placement ==
    \E o \in Op, b \in Block :
        \/ InsertBegin(o, b) \/ InsertEnd(o, b)
        \/ \E p \in 1..Len(ops[b]) :
               InsertBefore(o, b, p) \/ \E prev \in Op : InsertAfter(o, prev, b, p)

Next ==
    \/ \E o \in Op, b \in Block : FlowAppend(b, o)
    \/ FlowDone
    \/ Placement
    \/ \E b \in Block : \E p \in 1..Len(ops[b]) : RemoveOp(b, p)
    \/ \E b, c \in Block : SpliceBlockBasic(b, c)
                           \/ \E p \in 1..Len(ops[b]) : SplitBlock(b, p, c)

Spec == Init /\ [][Next]_vars
-----------------------------------------------------------------------------
(***************************************************************************)
(* Properties.                                                             *)
(***************************************************************************)

\* Type invariant; an op is in one block at most, once.
TypeOK ==
    /\ ops \in [Block -> Seq(Op)]
    /\ \A b, c \in Block : \A i \in 1..Len(ops[b]), j \in 1..Len(ops[c]) :
           ops[b][i] = ops[c][j] => b = c /\ i = j
    /\ order \in [Op -> Ord]
    /\ phase \in {"flow", "edit"}

\* The numbers never contradict the block: through midpoints, the saturating
\* append, renumbering, splices and splits they never decrease along it.
OrderMonotone ==
    \A b \in Block : \A i, j \in 1..Len(ops[b]) :
        i < j => order[ops[b][i]] <= order[ops[b][j]]

\* The MULTIEQUALs of a block stay in front of everything else, whatever is
\* inserted after one of them, spliced or split off.
PhisFirst ==
    \A b \in Block : \A i, j \in 1..Len(ops[b]) :
        i < j /\ Kind[ops[b][j]] = "phi" => Kind[ops[b][i]] = "phi"

\* Two ops that stay in a block keep the result of comparing their numbers.
ComparisonStable ==
    [][\A b \in Block : \A x, y \in Ran(ops[b]) \cap Ran(ops'[b]) :
           order[x] < order[y] => order'[x] < order'[y]]_vars

=============================================================================
