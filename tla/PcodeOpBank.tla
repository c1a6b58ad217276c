---------------------------- MODULE PcodeOpBank ----------------------------
(***************************************************************************)
(* PcodeOpBank (src/op.rs) on its intrusive lists (IdList, src/arena.rs).  *)
(* Seven chains run through two pairs of link fields in the arena cells:   *)
(* alive, dead and retired ops share ins_prev / ins_next, the four lists   *)
(* by opcode share code_prev / code_next.  A chain knows its head, tail    *)
(* and length; whether it holds an op it reads off the op's links.  Cells  *)
(* also carry copies of the op's opcode and dead flag.                     *)
(*                                                                         *)
(* SeqNums are unique here (PcodeOpTree has the duplicates), so that an op *)
(* is in the tree from its creation until it is destroyed.  Callers follow *)
(* the discipline of Linked's documentation: nothing is done to a retired  *)
(* op.                                                                     *)
(***************************************************************************)
EXTENDS Integers, Sequences, FiniteSets

CONSTANTS
    Id,      \* ops, named by their arena handle
    OpCode,
    Listed,  \* the opcodes with a list: STORE, LOAD, RETURN, CALLOTHER
    Copy,    \* the opcode ops are born with
    Nil      \* SENTINEL, None

InsChain == {"alive", "dead", "gone"}

ASSUME BankAssumption ==
    /\ IsFiniteSet(Id) /\ Nil \notin Id
    /\ Listed \subseteq OpCode /\ Copy \in OpCode \ Listed
    \* Nil also stands for no chain; chains are told apart by their names.
    /\ Nil \notin InsChain \cup OpCode /\ Listed \cap InsChain = {}

VARIABLES
    intree, gone,      \* ops in optree; ops retired since the last clear
    opcode, dead,      \* fields of PcodeOp
    cellOpcode, cellDead,  \* their copies in the cells
    ins, code,         \* the chains over either pair of links
    sweep              \* destroy_dead is in its loop

fields == <<opcode, dead, cellOpcode, cellDead>>
vars == <<intree, gone, fields, ins, code, sweep>>

Detached == [id \in Id |-> Nil]
Empty(chains) ==
    [prev |-> Detached, next |-> Detached, head |-> [c \in chains |-> Nil],
     tail |-> [c \in chains |-> Nil], len |-> [c \in chains |-> 0]]

Init ==
    /\ intree = {} /\ gone = {}
    /\ opcode = [id \in Id |-> Copy] /\ cellOpcode = opcode
    /\ dead = [id \in Id |-> FALSE] /\ cellDead = dead
    /\ ins = Empty(InsChain) /\ code = Empty(Listed)
    /\ sweep = FALSE
-----------------------------------------------------------------------------
(***************************************************************************)
(* IdList: chain c of the links l.                                         *)
(***************************************************************************)

Contains(l, c, id) == l.prev[id] # Nil \/ l.next[id] # Nil \/ l.head[c] = id

InsertAfter(l, c, pos, id) ==
    LET nxt == IF pos = Nil THEN l.head[c] ELSE l.next[pos] IN
    [prev |-> [i \in Id |-> IF i = nxt THEN id ELSE IF i = id THEN pos ELSE l.prev[i]],
     next |-> [i \in Id |-> IF i = pos THEN id ELSE IF i = id THEN nxt ELSE l.next[i]],
     head |-> IF pos = Nil THEN [l.head EXCEPT ![c] = id] ELSE l.head,
     tail |-> IF nxt = Nil THEN [l.tail EXCEPT ![c] = id] ELSE l.tail,
     len  |-> [l.len EXCEPT ![c] = @ + 1]]

PushBack(l, c, id) == InsertAfter(l, c, l.tail[c], id)

\* An op that is not a member is left alone.
Unlink(l, c, id) ==
    LET p == l.prev[id]  n == l.next[id] IN
    IF ~Contains(l, c, id) THEN l ELSE
    [prev |-> [i \in Id |-> IF i = id THEN Nil ELSE IF i = n THEN p ELSE l.prev[i]],
     next |-> [i \in Id |-> IF i = id THEN Nil ELSE IF i = p THEN n ELSE l.next[i]],
     head |-> IF p = Nil THEN [l.head EXCEPT ![c] = n] ELSE l.head,
     tail |-> IF n = Nil THEN [l.tail EXCEPT ![c] = p] ELSE l.tail,
     len  |-> [l.len EXCEPT ![c] = @ - 1]]

\* Links l with the range first..last taken out of chain c.
Cut(l, c, first, last) ==
    LET p == l.prev[first]  n == l.next[last] IN
    [l EXCEPT !.prev = [i \in Id |-> IF i = n THEN p ELSE @[i]],
              !.next = [i \in Id |-> IF i = p THEN n ELSE @[i]],
              !.head = IF p = Nil THEN [@ EXCEPT ![c] = n] ELSE @,
              !.tail = IF n = Nil THEN [@ EXCEPT ![c] = p] ELSE @]

\* Mutant of SpliceAfter: a range moved after its own last op.
SpliceAfterItself(l, c, pos, first, last) ==
    LET cut == Cut(l, c, first, last)  n == cut.next[pos] IN
    IF l.next[pos] = first THEN l ELSE
    [cut EXCEPT !.prev = [i \in Id |-> IF i = n THEN last ELSE IF i = first THEN pos
                                       ELSE @[i]],
                !.next = [i \in Id |-> IF i = pos THEN first ELSE IF i = last THEN n
                                       ELSE @[i]],
                !.tail = IF n = Nil THEN [@ EXCEPT ![c] = last] ELSE @]

\* The range first..last moved right after pos; a no-op when pos is last or
\* the range is there already.
SpliceAfter(l, c, pos, first, last) ==
    LET cut == Cut(l, c, first, last)  n == cut.next[pos] IN
    IF pos = last \/ l.next[pos] = first THEN l ELSE
    [cut EXCEPT !.prev = [i \in Id |-> IF i = n THEN last ELSE IF i = first THEN pos
                                       ELSE @[i]],
                !.next = [i \in Id |-> IF i = pos THEN first ELSE IF i = last THEN n
                                       ELSE @[i]],
                !.tail = IF n = Nil THEN [@ EXCEPT ![c] = last] ELSE @]

\* The ops read by following the links from id; a walk in a ring stops after
\* Cardinality(Id) + 1 ops.
Follow(link, id) ==
    LET step == [i \in Id \cup {Nil} |-> IF i = Nil THEN Nil ELSE link[i]]
        w[n \in 0..Cardinality(Id)] == IF n = 0 THEN id ELSE step[w[n - 1]]
        len == CHOOSE k \in 0..Cardinality(Id) + 1 :
                   /\ \A n \in 0..k - 1 : w[n] # Nil
                   /\ k <= Cardinality(Id) => w[k] = Nil
    IN  [n \in 1..len |-> w[n - 1]]

Walk(l, c) == Follow(l.next, l.head[c])
WalkBack(l, c) == Follow(l.prev, l.tail[c])
Ran(s) == {s[i] : i \in 1..Len(s)}
-----------------------------------------------------------------------------
(***************************************************************************)
(* PcodeOpBank.                                                            *)
(***************************************************************************)

AddToCodeList(l, id, opc) == IF opc \in Listed THEN PushBack(l, opc, id) ELSE l
RemoveFromCodeList(l, id, opc) == IF opc \in Listed THEN Unlink(l, opc, id) ELSE l

\* A fresh cell, with the op's fields copied.
Slot(id, opc, isDead) ==
    /\ id \notin intree \cup gone
    /\ intree' = intree \cup {id}
    /\ opcode' = [opcode EXCEPT ![id] = opc]
    /\ cellOpcode' = [cellOpcode EXCEPT ![id] = opc]
    /\ dead' = [dead EXCEPT ![id] = isDead]
    /\ cellDead' = [cellDead EXCEPT ![id] = isDead]
    /\ UNCHANGED <<gone, sweep>>

\* create, create_with_seq: alive from the start.
Create(id, opc) ==
    /\ Slot(id, opc, FALSE)
    /\ code' = AddToCodeList(code, id, opc)
    /\ ins' = PushBack(ins, "alive", id)

\* create_seq: a dead COPY.
CreateSeq(id) ==
    /\ Slot(id, Copy, TRUE)
    /\ ins' = PushBack(ins, "dead", id)
    /\ UNCHANGED code

MarkAlive(id) ==
    /\ id \in intree /\ dead[id]
    /\ dead' = [dead EXCEPT ![id] = FALSE]
    /\ cellDead' = [cellDead EXCEPT ![id] = FALSE]
    /\ ins' = PushBack(Unlink(ins, "dead", id), "alive", id)
    /\ UNCHANGED <<intree, gone, opcode, cellOpcode, code, sweep>>

\* Mutant of MarkDead: the cell is not told.
MarkDeadFlagOnly(id) ==
    /\ id \in intree /\ ~dead[id]
    /\ dead' = [dead EXCEPT ![id] = TRUE]
    /\ ins' = PushBack(Unlink(ins, "alive", id), "dead", id)
    /\ UNCHANGED <<intree, gone, opcode, cellOpcode, cellDead, code, sweep>>

MarkDead(id) ==
    /\ id \in intree /\ ~dead[id]
    /\ dead' = [dead EXCEPT ![id] = TRUE]
    /\ cellDead' = [cellDead EXCEPT ![id] = TRUE]
    /\ ins' = PushBack(Unlink(ins, "alive", id), "dead", id)
    /\ UNCHANGED <<intree, gone, opcode, cellOpcode, code, sweep>>

ChangeOpcode(id, opc) ==
    /\ id \in intree
    /\ opcode' = [opcode EXCEPT ![id] = opc]
    /\ cellOpcode' = [cellOpcode EXCEPT ![id] = opc]
    /\ code' = AddToCodeList(RemoveFromCodeList(code, id, opcode[id]), id, opc)
    /\ UNCHANGED <<intree, gone, dead, cellDead, ins, sweep>>

\* Mutant of Retire: the op keeps its entry in the tree.
RetireStaysInTree(id) ==
    /\ gone' = gone \cup {id}
    /\ ins' = PushBack(Unlink(ins, IF dead[id] THEN "dead" ELSE "alive", id), "gone", id)
    /\ code' = RemoveFromCodeList(code, id, opcode[id])
    /\ UNCHANGED <<intree, fields>>

\* destroy: out of the tree and its lists, retained until clear.
Retire(id) ==
    /\ intree' = intree \ {id} /\ gone' = gone \cup {id}
    /\ ins' = PushBack(Unlink(ins, IF dead[id] THEN "dead" ELSE "alive", id), "gone", id)
    /\ code' = RemoveFromCodeList(code, id, opcode[id])
    /\ UNCHANGED fields

Destroy(id) == id \in intree /\ Retire(id) /\ UNCHANGED sweep

\* destroy_dead enters its loop.
DestroyDead ==
    /\ sweep' = TRUE
    /\ UNCHANGED <<intree, gone, fields, ins, code>>

\* Mutant of DestroyNext: the successor is read after the op was destroyed.
DestroyNextLate ==
    /\ ins.head["dead"] # Nil
    /\ Retire(ins.head["dead"])
    /\ sweep' = (ins'.next[ins.head["dead"]] # Nil)

\* One turn of the loop: the head goes; the loop ends with the op that had
\* no successor.
DestroyNext ==
    /\ ins.head["dead"] # Nil
    /\ sweep' = (ins.next[ins.head["dead"]] # Nil)
    /\ Retire(ins.head["dead"])

DestroyNone ==
    /\ ins.head["dead"] = Nil
    /\ sweep' = FALSE
    /\ UNCHANGED <<intree, gone, fields, ins, code>>

\* prev is another op than id.
InsertAfterDead(id, prev) ==
    /\ id # prev /\ {id, prev} \subseteq intree /\ dead[id] /\ dead[prev]
    /\ Contains(ins, "dead", id) /\ Contains(ins, "dead", prev)
    /\ ins' = InsertAfter(Unlink(ins, "dead", id), "dead", prev, id)
    /\ UNCHANGED <<intree, gone, fields, code, sweep>>

\* prev is not in the range, or is its last op.
MoveSequenceDead(first, last, prev) ==
    LET range == Follow(ins.next, first) IN
    /\ {first, last, prev} \subseteq intree /\ dead[first] /\ dead[last] /\ dead[prev]
    /\ \A id \in {first, last, prev} : Contains(ins, "dead", id)
    /\ \E k \in 1..Len(range) :
           range[k] = last /\ \A i \in 1..k - 1 : range[i] # prev /\ range[i] # last
    /\ ins' = SpliceAfter(ins, "dead", prev, first, last)
    /\ UNCHANGED <<intree, gone, fields, code, sweep>>

\* Every chain is unlinked, then the tree and with it the cells are freed.
Clear ==
    /\ intree' = {} /\ gone' = {}
    /\ opcode' = [id \in Id |-> Copy] /\ cellOpcode' = opcode'
    /\ dead' = [id \in Id |-> FALSE] /\ cellDead' = dead'
    /\ ins' = Empty(InsChain) /\ code' = Empty(Listed)
    /\ UNCHANGED sweep

Next ==
    \/ /\ ~sweep
       /\ \/ \E id \in Id, opc \in OpCode : Create(id, opc) \/ ChangeOpcode(id, opc)
          \/ \E id \in Id : CreateSeq(id) \/ MarkAlive(id) \/ MarkDead(id) \/ Destroy(id)
          \/ \E id, prev \in Id : InsertAfterDead(id, prev)
          \/ \E first, last, prev \in Id : MoveSequenceDead(first, last, prev)
          \/ DestroyDead \/ Clear
    \/ sweep /\ (DestroyNext \/ DestroyNone)

Spec == Init /\ [][Next]_vars
-----------------------------------------------------------------------------
(***************************************************************************)
(* Properties.                                                             *)
(***************************************************************************)

\* The chains an op belongs to by its fields; Nil: none.
InsClass == [id \in Id |-> IF id \in gone THEN "gone" ELSE IF id \notin intree THEN Nil
                           ELSE IF dead[id] THEN "dead" ELSE "alive"]
CodeClass == [id \in Id |-> IF id \in intree /\ opcode[id] \in Listed
                            THEN opcode[id] ELSE Nil]

Links(chains) ==
    [prev : [Id -> Id \cup {Nil}], next : [Id -> Id \cup {Nil}],
     head : [chains -> Id \cup {Nil}], tail : [chains -> Id \cup {Nil}],
     len : [chains -> Nat]]

\* Type invariant; a length never goes below zero.
TypeOK ==
    /\ intree \subseteq Id /\ gone \subseteq Id /\ intree \cap gone = {}
    /\ opcode \in [Id -> OpCode] /\ cellOpcode \in [Id -> OpCode]
    /\ dead \in [Id -> BOOLEAN] /\ cellDead \in [Id -> BOOLEAN]
    /\ ins \in Links(InsChain) /\ code \in Links(Listed)
    /\ sweep \in BOOLEAN

\* Neighbours name each other and are of one class, the ends of a class are
\* the ends of its chain, and an op of no class is detached.
Sound(l, chains, class) ==
    /\ \A id \in Id : class[id] \in chains =>
           /\ IF l.next[id] = Nil THEN l.tail[class[id]] = id
              ELSE class[l.next[id]] = class[id] /\ l.prev[l.next[id]] = id
           /\ IF l.prev[id] = Nil THEN l.head[class[id]] = id
              ELSE class[l.prev[id]] = class[id] /\ l.next[l.prev[id]] = id
    /\ \A id \in Id : class[id] = Nil => l.prev[id] = Nil /\ l.next[id] = Nil
    /\ \A c \in chains :
           /\ l.head[c] # Nil => class[l.head[c]] = c /\ l.prev[l.head[c]] = Nil
           /\ l.tail[c] # Nil => class[l.tail[c]] = c /\ l.next[l.tail[c]] = Nil

\* A chain walked either way yields its class, each op once, and as many as
\* its length says: no op is lost from a chain, and no ring is left beside it.
Whole(l, chains, class) ==
    \A c \in chains :
        LET s == Walk(l, c)  t == WalkBack(l, c) IN
        /\ Ran(s) = {id \in Id : class[id] = c}
        /\ Len(s) = l.len[c] /\ Len(t) = Len(s)
        /\ \A i \in 1..Len(s) : t[i] = s[Len(s) + 1 - i]

\* Three chains share one pair of links and four the other, yet the links of
\* an op are always those of the one chain its flag, its place in the tree
\* and its opcode say it is in (what contains() trusts), and each chain is
\* whole: no transition loses an op or leaves a ring.
LinksSound ==
    /\ Sound(ins, InsChain, InsClass) /\ Sound(code, Listed, CodeClass)
    /\ Whole(ins, InsChain, InsClass) /\ Whole(code, Listed, CodeClass)

\* What the rule pools read from the cells without a lock is what the ops
\* hold.
ShadowsAgree ==
    \A id \in intree \cup gone : cellOpcode[id] = opcode[id] /\ cellDead[id] = dead[id]

\* The lists read along the links; the links implement them.
ListsRead == [c \in InsChain \cup Listed |->
                  IF c \in InsChain THEN Walk(ins, c) ELSE Walk(code, c)]
Lists == INSTANCE OpLists WITH lists <- ListsRead

\* Read along their links, the chains behave as seven std::lists under every
\* operation of the bank; destroy_dead retires the dead ops in their order
\* and, although each leaves the chain it walks, stops with none left.
ImplementsLists == Lists!Spec
=============================================================================
