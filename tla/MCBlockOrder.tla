---------------------------- MODULE MCBlockOrder ----------------------------
\* Instances of BlockOrder with narrow order numbers.
EXTENDS BlockOrder, TLC

CONSTANTS p1, p2, i1, a1, f1, b1, b2

\* Two MULTIEQUALs, an INDIRECT guarding a1, an ordinary op, a branch.
MCOp == {p1, p2, i1, a1, f1}
MCKind == [o \in MCOp |-> CASE o \in {p1, p2} -> "phi" [] o = i1 -> "ind"
                            [] o = f1 -> "flow" [] OTHER -> "plain"]
MCGuarded == [o \in MCOp |-> a1]
MCSymmetry == Permutations({b1, b2}) \cup Permutations({p1, p2})

\* The number of an op that is in no block is never read.
MCView == <<ops, [o \in {x \in Op : InBlock(x)} |-> order[o]], phase>>
=============================================================================
