---------------------------- MODULE MCPcodeOpBank ----------------------------
(* Four ops, two listed opcodes and one that is not. *)
EXTENDS PcodeOpBank, TLC

CONSTANTS o1, o2, o3, o4, Store, Load

MCSymmetry == Permutations(Id) \cup Permutations(Listed)
=============================================================================
