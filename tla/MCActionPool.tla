---------------------------- MODULE MCActionPool ----------------------------
(* Small instances of ActionPool: three keys, two opcodes, two rules; rule  *)
(* r2 is registered for both opcodes, r1 for one of them.                   *)
EXTENDS ActionPool

CONSTANTS copy, add, r1, r2

MCOp == 1..3
MCPerOp == [c \in {copy, add} |-> IF c = copy THEN <<r1, r2>> ELSE <<r2>>]

\* One opcode, both rules registered for it.
MCPerCopy == [c \in {copy} |-> <<r1, r2>>]

\* A state as far as the next steps and the properties tell states apart: the
\* locals of process_op while it runs, the version only against the memo.
MCView ==
    <<optree, dead, opcode, born, cursor, counts, debug, pc, work, result, ghosts,
      IF pc \in {"rules", "tail"} THEN <<code, memoVer = version, memoNext>>
                                  ELSE <<>> >>
=============================================================================
