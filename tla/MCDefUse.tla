------------------------------ MODULE MCDefUse -------------------------------
(* A register, its upper half and a constant; the instances of DefUse.      *)
EXTENDS DefUse, TLC

CONSTANTS o1, o2, o3

Reg == <<"reg", 0, 2>>
High == <<"reg", 1, 1>>
Val == <<"const", 7, 2>>

ThreeOps == {o1, o2, o3}
MCStorage == {Reg, High, Val}
MCLocked == {High}
MCPinned == {}

Sym == Permutations(Op)
=============================================================================
