------------------------------- MODULE OpLists -------------------------------
(***************************************************************************)
(* What PcodeOpBank promises: seven lists of ops with the operations of    *)
(* std::list (src/arena.rs calls its chains isomorphic to them).  An op is *)
(* alive, dead or retired, in one of those three lists; an op of a listed  *)
(* opcode that is not retired is also in the list of its opcode.           *)
(***************************************************************************)
EXTENDS Integers, Sequences

CONSTANTS Id, OpCode, Listed, Copy

VARIABLES
    lists,  \* [InsChain \cup Listed -> Seq(Id)]
    opcode, \* [Id -> OpCode]
    sweep   \* destroy_dead is in its loop

InsChain == {"alive", "dead", "gone"}
Chain == InsChain \cup Listed

Ran(s) == {s[i] : i \in 1..Len(s)}
In(c, id) == id \in Ran(lists[c])
At(s, id) == CHOOSE i \in 1..Len(s) : s[i] = id
\* The list s with its element id erased, if it has it.
Without(s, id) ==
    IF id \notin Ran(s) THEN s ELSE
    [i \in 1..Len(s) - 1 |-> IF i < At(s, id) THEN s[i] ELSE s[i + 1]]
\* The list s with the sequence t put in after its element at.
After(s, at, t) ==
    LET p == At(s, at) IN
    SubSeq(s, 1, p) \o t \o SubSeq(s, p + 1, Len(s))

\* Of the lists in over, id is taken out, and appended where to says.
Relisted(id, over, to) ==
    [c \in Chain |-> IF c \notin over THEN lists[c]
                     ELSE IF c \in to THEN Append(Without(lists[c], id), id)
                     ELSE Without(lists[c], id)]

Init ==
    /\ lists = [c \in Chain |-> <<>>] /\ opcode = [id \in Id |-> Copy]
    /\ sweep = FALSE

Create(id, c, opc) ==
    /\ \A d \in Chain : ~In(d, id)
    /\ lists' = Relisted(id, Chain, {c} \cup ({opc} \cap Listed))
    /\ opcode' = [opcode EXCEPT ![id] = opc]

\* From alive to dead or back: the list of the opcode is left alone.
Revive(id, from, to) ==
    /\ In(from, id)
    /\ lists' = Relisted(id, {from, to}, {to})
    /\ UNCHANGED opcode

Retire(id) ==
    /\ In("alive", id) \/ In("dead", id)
    /\ lists' = Relisted(id, Chain, {"gone"})
    /\ UNCHANGED opcode

SetOpcode(id, opc) ==
    /\ In("alive", id) \/ In("dead", id)
    /\ lists' = Relisted(id, Listed, {opc} \cap Listed)
    /\ opcode' = [opcode EXCEPT ![id] = opc]

\* The ops from position i to j of the dead list are moved after op at,
\* which is not one of them.
MoveDead(i, j, at) ==
    LET s == lists["dead"] IN
    /\ i <= j /\ In("dead", at) /\ \A k \in i..j : s[k] # at
    /\ lists' = [lists EXCEPT !["dead"] =
                     After(SubSeq(s, 1, i - 1) \o SubSeq(s, j + 1, Len(s)), at,
                           SubSeq(s, i, j))]
    /\ UNCHANGED opcode

Clear == lists' = [c \in Chain |-> <<>>] /\ opcode' = [id \in Id |-> Copy]

\* destroy_dead promises an empty dead list: it retires the ops in order and
\* stops with the last one.
SweepStarts == ~sweep /\ sweep' = TRUE /\ UNCHANGED <<lists, opcode>>
SweepRetires ==
    /\ sweep /\ lists["dead"] # <<>>
    /\ Retire(lists["dead"][1])
    /\ sweep' = (lists'["dead"] # <<>>)
SweepOfNone ==
    /\ sweep /\ lists["dead"] = <<>>
    /\ sweep' = FALSE /\ UNCHANGED <<lists, opcode>>

Edit ==
    \/ \E id \in Id :
        \/ \E opc \in OpCode : Create(id, "alive", opc) \/ SetOpcode(id, opc)
        \/ Create(id, "dead", Copy)
        \/ Revive(id, "dead", "alive") \/ Revive(id, "alive", "dead")
        \/ Retire(id)
        \/ \E i, j \in 1..Len(lists["dead"]) : MoveDead(i, j, id)
    \/ Clear

Next ==
    \/ ~sweep /\ Edit /\ UNCHANGED sweep
    \/ SweepStarts \/ SweepRetires \/ SweepOfNone

Spec == Init /\ [][Next]_<<lists, opcode, sweep>>
=============================================================================
