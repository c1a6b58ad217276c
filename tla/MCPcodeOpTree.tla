---------------------------- MODULE MCPcodeOpTree ----------------------------
(* Four ops, two of them with the same SeqNum. *)
EXTENDS PcodeOpTree

MCKeyOf == [i \in 1..4 |-> IF i = 4 THEN 2 ELSE i]
=============================================================================
