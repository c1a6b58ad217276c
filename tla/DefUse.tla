------------------------------- MODULE DefUse --------------------------------
(***************************************************************************)
(* The data-flow graph of a function: ops whose input slots and output     *)
(* point at varnodes, varnodes that point back (descend: one entry per     *)
(* reading slot; def: the writer), and the VarnodeBank that keeps every    *)
(* varnode in a tree sorted by storage and definition.  Each link is       *)
(* stored at both ends and each tree key is a copy of fields that change,  *)
(* so every edit of src/funcdata.rs has several places to keep in step.    *)
(*                                                                         *)
(* The edits are operators from a state of the graph to the next one,      *)
(* because the code builds one out of another; an action is one call.      *)
(* loc_tree and def_tree hold the same entries under permuted keys: one    *)
(* tree here.  The NULL slot is the sentinel varnode of src/op.rs.         *)
(***************************************************************************)
EXTENDS Integers, FiniteSets, SequencesExt

CONSTANTS
    Op, NoOp,
    Pinned,     \* ops op_destroy_recursive spares: calls, INDIRECT sources
    Storage,    \* <<space, offset, size>>; space "const" holds constants
    Locked,     \* storage of locked inputs, kept without readers
    MaxVn,      \* bound: varnodes created
    MaxIn,      \* bound: input slots of an op
    MaxSlots    \* bound: input slots of all ops together

ASSUME GraphAssumption ==
    /\ NoOp \notin Op /\ IsFiniteSet(Op) /\ Pinned \subseteq Op
    /\ Storage # {} /\ Locked \subseteq Storage
    /\ MaxVn \in Nat /\ MaxIn \in Nat /\ MaxSlots \in Nat

Vn == 0..MaxVn - 1   \* by create_index
Null == -1

VARIABLE fd

Key == Storage \X {"free", "input", "written"} \X (Op \cup {NoOp})
               \X (Vn \cup {Null})

Fresh ==
    [loc     |-> [v \in Vn |-> CHOOSE l \in Storage : TRUE],
     state   |-> [v \in Vn |-> "free"],     \* the INPUT and WRITTEN flags
     def     |-> [v \in Vn |-> NoOp],
     descend |-> [v \in Vn |-> <<>>],
     key     |-> [v \in Vn |-> Null],       \* VnCell: key last entered under
     tree    |-> {},                        \* <<key, varnode>>
     made    |-> 0,                         \* create_index
     inrefs  |-> [o \in Op |-> <<>>],
     output  |-> [o \in Op |-> Null],
     dead    |-> {},
     abort   |-> "no"]                      \* what the last call panicked on

IsConstant(s, v) == s.loc[v][1] = "const"
IsFree(s, v) == s.state[v] = "free"
InBank(s, v) == \E e \in s.tree : e[2] = v
Bank(s) == {e[2] : e \in s.tree}
Count(q, x) == Cardinality({i \in DOMAIN q : q[i] = x})
\* op_get_slot: the first slot of o that holds v, 0 when none does.
Slot(s, o, v) == SelectInSeq(s.inrefs[o], LAMBDA x : x = v)

\* The body of a loop, run n times from x.
Repeat(n, x, Body(_, _)) ==
    LET run[i \in 0..n] == IF i = 0 THEN x ELSE Body(run[i - 1], i)
    IN  run[n]

-----------------------------------------------------------------------------
(* Varnode: the list of readers.                                           *)

\* A free varnode may have one reader; the panic ends the function.
AddDescend(s, v, o) ==
    IF IsFree(s, v) /\ s.descend[v] # <<>>
    THEN [s EXCEPT !.abort = IF @ # "no" THEN @
                             ELSE IF IsConstant(s, v) THEN "constant" ELSE "free"]
    ELSE [s EXCEPT !.descend[v] = Append(@, o)]

EraseDescend(s, v, o) == [s EXCEPT !.descend[v] = RemoveFirst(@, o)]

DestroyDescend(s, v) == [s EXCEPT !.descend[v] = <<>>]

-----------------------------------------------------------------------------
(* VarnodeBank.                                                            *)

\* Inputs of one storage share a key, so do outputs of one op; each free
\* varnode has a key of its own.
KeyOf(s, v) ==
    <<s.loc[v], s.state[v],
      IF s.state[v] = "written" THEN s.def[v] ELSE NoOp,
      IF IsFree(s, v) THEN v ELSE Null>>

\* Insert-if-absent, then the copy of the key in the cell.
TreeInsert(s, v) ==
    LET k == KeyOf(s, v) IN
    [s EXCEPT !.tree = IF \E e \in @ : e[1] = k THEN @ ELSE @ \cup {<<k, v>>}]

RefreshKey(s, v) == [s EXCEPT !.key[v] = KeyOf(s, v)]

\* By the stored key, else by the live key, else by a scan; never another
\* varnode's entry.
Erase(s, v) ==
    LET by(k) == {e \in s.tree : e[1] = k /\ e[2] = v}
        old == IF by(s.key[v]) # {} THEN by(s.key[v])
               ELSE IF by(KeyOf(s, v)) # {} THEN by(KeyOf(s, v))
               ELSE {e \in s.tree : e[2] = v}
    IN [s EXCEPT !.tree = @ \ old]

\* Mutant of Allocate: the counter stays.
AllocateAgain(s, l) ==
    IF s.made = MaxVn THEN [s EXCEPT !.abort = "bound"]
    ELSE [s EXCEPT !.loc[s.made] = l]

\* The next varnode is always s.made; "bound" disables the call.
Allocate(s, l) ==
    IF s.made = MaxVn THEN [s EXCEPT !.abort = "bound"]
    ELSE [s EXCEPT !.loc[s.made] = l, !.made = @ + 1]

\* Create ends in a free varnode in the tree.
Create(s, l) ==
    LET t == Allocate(s, l) IN
    IF t.abort = "bound" THEN t
    ELSE RefreshKey(TreeInsert(t, s.made), s.made)

\* Every reader of old is moved to new, except the op that writes new.
MoveRead(t, old, new, o) ==
    LET u == AddDescend(EraseDescend(t, old, o), new, o)
    IN IF t.output[o] = new THEN t
       ELSE [u EXCEPT !.inrefs[o][Slot(t, o, old)] = new]

Replace(s, old, new) ==
    LET q == s.descend[old]
        Move(t, n) == MoveRead(t, old, new, q[n])
    IN DestroyDescend(Repeat(Len(q), s, Move), old)

\* The canonical varnode of v's key: v, entered now, or the one that is
\* there, which takes over v's readers.
Canonical(s, v) ==
    IF \E e \in s.tree : e[1] = KeyOf(s, v)
    THEN (CHOOSE e \in s.tree : e[1] = KeyOf(s, v))[2] ELSE v

Xref(s, v) ==
    IF Canonical(s, v) # v THEN Replace(s, v, Canonical(s, v))
    ELSE RefreshKey(TreeInsert(s, v), v)

BankSetInput(s, v) == Xref([Erase(s, v) EXCEPT !.state[v] = "input"], v)

\* The only input looked at is the last one below the end of v: v is left
\* free when it has v's storage.  An overlap is only warned about.
SetInputVarnode(s, v) ==
    LET l == s.loc[v]
        below == {w \in Bank(s) : /\ s.state[w] = "input" /\ s.loc[w][1] = l[1]
                                  /\ s.loc[w][2] < l[2] + l[3]}
        last == {w \in below : \A x \in below :
                    \/ s.loc[x][2] < s.loc[w][2]
                    \/ s.loc[x][2] = s.loc[w][2] /\ s.loc[x][3] <= s.loc[w][3]}
    IN IF \E w \in last : s.loc[w] = l THEN s ELSE BankSetInput(s, v)

\* Mutant of MakeFree: the fields change while the varnode is in the tree.
MakeFreeInPlace(s, v) == [s EXCEPT !.def[v] = NoOp, !.state[v] = "free"]

MakeFree(s, v) ==
    LET t == [Erase(s, v) EXCEPT !.def[v] = NoOp, !.state[v] = "free"]
    IN RefreshKey(TreeInsert(t, v), v)

\* set_def of a free varnode, and the varnode it becomes.
Defined(s, v, o) == [Erase(s, v) EXCEPT !.def[v] = o, !.state[v] = "written"]

-----------------------------------------------------------------------------
(* Funcdata: edits of the graph.                                           *)

OpUnsetInput(s, o, i) ==
    LET v == s.inrefs[o][i]
        t == IF v # Null /\ Contains(s.descend[v], o)
             THEN EraseDescend(s, v, o) ELSE s
    IN [t EXCEPT !.inrefs[o][i] = Null]

OpUnsetInputs(s, o) ==
    Repeat(Len(s.inrefs[o]), s, LAMBDA t, i : OpUnsetInput(t, o, i))

OpUnsetOutput(s, o) ==
    LET v == s.output[o] IN
    IF v = Null THEN s ELSE MakeFree([s EXCEPT !.output[o] = Null], v)

\* Mutant of OpSetInput: the varnode that was in the slot keeps its reader.
OpSetInputKeepsOld(s, o, v, i) ==
    LET q == s.inrefs[o]
        fresh == IsConstant(s, v) /\ s.descend[v] # <<>>
        t == IF fresh THEN Create(s, s.loc[v]) ELSE s
        w == IF fresh THEN s.made ELSE v
    IN IF i <= Len(q) /\ q[i] = v THEN s
       ELSE IF t.abort = "bound" THEN t
       ELSE [AddDescend(t, w, o) EXCEPT
                !.inrefs[o] = IF i = Len(q) + 1 THEN Append(@, w)
                              ELSE [@ EXCEPT ![i] = w]]

\* A constant that has a reader is not shared: the slot gets a fresh copy.
OpSetInput(s, o, v, i) ==
    LET q == s.inrefs[o]
        fresh == IsConstant(s, v) /\ s.descend[v] # <<>>
        t == IF fresh THEN Create(s, s.loc[v]) ELSE s
        w == IF fresh THEN s.made ELSE v
        u == IF i <= Len(q) /\ q[i] # Null /\ Contains(t.descend[q[i]], o)
             THEN EraseDescend(t, q[i], o) ELSE t
    IN IF i <= Len(q) /\ q[i] = v THEN s
       ELSE IF t.abort = "bound" THEN t
       ELSE [AddDescend(u, w, o) EXCEPT
                !.inrefs[o] = IF i = Len(q) + 1 THEN Append(@, w)
                              ELSE [@ EXCEPT ![i] = w]]

\* The tail is split off, the slot is appended, the tail put back.
OpInsertInput(s, o, v, i) ==
    LET q == s.inrefs[o]
        t == OpSetInput([s EXCEPT !.inrefs[o] = SubSeq(q, 1, i - 1)], o, v, i)
    IN [t EXCEPT !.inrefs[o] = @ \o SubSeq(q, i, Len(q))]

OpRemoveInput(s, o, i) ==
    [OpUnsetInput(s, o, i) EXCEPT !.inrefs[o] = RemoveAt(@, i)]

OpSwapInput(s, o, i, j) ==
    [s EXCEPT !.inrefs[o] = [@ EXCEPT ![i] = s.inrefs[o][j],
                                      ![j] = s.inrefs[o][i]]]

OpSetAllInput(s, o, vs) ==
    LET t == [OpUnsetInputs(s, o) EXCEPT !.inrefs[o] = <<>>]
        Set(u, i) == IF u.abort = "no" THEN OpSetInput(u, o, vs[i], i) ELSE u
    IN Repeat(Len(vs), t, Set)

OpSetOutput(s, o, v) ==
    LET t == OpUnsetOutput(s, o)
        u == IF t.def[v] # NoOp THEN OpUnsetOutput(t, t.def[v]) ELSE t
        d == Defined(u, v, o)
    IN IF s.output[o] = v THEN s
       ELSE [Xref(d, v) EXCEPT !.output[o] = Canonical(d, v)]

\* new_unique_out and new_varnode_out_full: created under its final key.
NewVarnodeOut(s, o, l) ==
    LET v == s.made
        t == Allocate(s, l)
        d == [t EXCEPT !.def[v] = o, !.state[v] = "written"]
    IN IF t.abort = "bound" THEN t
       ELSE [Xref(d, v) EXCEPT !.output[o] = Canonical(d, v)]

\* The slots are looked up for all readers before the first one is unset.
DestroyVarnode(s, v) ==
    LET q == s.descend[v]
        Unset(u, n) == IF Slot(s, q[n], v) = 0 THEN u
                       ELSE OpUnsetInput(u, q[n], Slot(s, q[n], v))
        t == Repeat(Len(q), s, Unset)
        d == IF t.def[v] # NoOp THEN OpUnsetOutput(t, t.def[v]) ELSE t
    IN Erase(DestroyDescend(d, v), v)

OpDestroy(s, o) ==
    LET t == IF s.output[o] # Null THEN DestroyVarnode(s, s.output[o]) ELSE s
    IN [OpUnsetInputs(t, o) EXCEPT !.dead = @ \cup {o}]

\* Mutant of Unread: writers that have other readers too.
UnreadHere(s, o) ==
    LET q == s.inrefs[o]
        Lone(v) == v # Null /\ s.state[v] = "written" /\ s.def[v] \notin Pinned
    IN Repeat(Len(q), <<>>, LAMBDA ops, i :
           IF Lone(q[i]) THEN Append(ops, s.def[q[i]]) ELSE ops)

\* The writers an op's destruction leaves without readers, in slot order.
Unread(s, o) ==
    LET q == s.inrefs[o]
        Lone(v) == /\ v # Null /\ s.state[v] = "written"
                   /\ Len(s.descend[v]) = 1 /\ s.def[v] \notin Pinned
    IN Repeat(Len(q), <<>>, LAMBDA ops, i :
           IF Lone(q[i]) THEN Append(ops, s.def[q[i]]) ELSE ops)

\* The worklist grows while it is walked; an op is put on it at most once
\* by its reader, and once more when it reads its own output.
OpDestroyRecursive(s, o) ==
    LET Walk(p, n) ==
          IF n > Len(p[2]) THEN p
          ELSE <<OpDestroy(p[1], p[2][n]), p[2] \o Unread(p[1], p[2][n])>>
    IN Repeat(2 * Cardinality(Op) + 1, <<s, <<o>>>>, Walk)[1]

OpDestroyRaw(s, o) ==
    LET t == Repeat(Len(s.inrefs[o]), s,
                    LAMBDA u, i : DestroyVarnode(u, u.inrefs[o][i]))
        d == IF t.output[o] # Null THEN DestroyVarnode(t, t.output[o]) ELSE t
    IN [d EXCEPT !.dead = @ \cup {o}]

OpUnlink(s, o) == OpUnsetInputs(OpUnsetOutput(s, o), o)

\* The slot of each reader is looked up when the reader is rewritten.
TotalReplace(s, v, w) ==
    LET q == s.descend[v]
        Set(t, n) == IF t.abort # "no" THEN t
                     ELSE IF Slot(t, q[n], v) = 0 THEN EraseDescend(t, v, q[n])
                     ELSE OpSetInput(t, q[n], w, Slot(t, q[n], v))
    IN Repeat(Len(q), s, Set)

\* Varnodes without readers: an input that is not locked becomes free, a
\* free one leaves the bank.
ClearDeadVarnodes(s) ==
    LET unread == {v \in Bank(s) : s.descend[v] = <<>>}
        inputs == {v \in unread : s.state[v] = "input" /\ s.loc[v] \notin Locked}
        Each(vs, x, Edit(_, _)) ==
            Repeat(Cardinality(vs), x, LAMBDA t, n : Edit(t, SetToSeq(vs)[n]))
        freed == Each(inputs, s, MakeFree)
    IN Each({v \in unread : IsFree(freed, v)}, freed, Erase)

-----------------------------------------------------------------------------
(* One action per call.  A panic ends the function: the worker drops its   *)
(* data and goes on with the next one.                                     *)

\* The last reference to a varnode outside the bank may be a slot; without
\* one it is dropped.
Held(s) == Bank(s) \cup UNION {ToSet(s.inrefs[o]) : o \in Op}
Dropped(s) ==
    LET keep(f, g) == [v \in Vn |-> IF v \in Held(s) THEN f[v] ELSE g[v]] IN
    [s EXCEPT !.loc = keep(@, Fresh.loc), !.state = keep(@, Fresh.state),
              !.key = keep(@, Fresh.key)]

Did(t) ==
    /\ t.abort # "bound"
    /\ fd' = IF t.abort # "no" THEN [Fresh EXCEPT !.abort = t.abort]
             ELSE IF Bank(fd) \subseteq Bank(t) THEN t ELSE Dropped(t)

SlotsUsed == Cardinality(UNION {{o} \X DOMAIN fd.inrefs[o] : o \in Op})
Room(o, n) ==
    n <= MaxIn /\ SlotsUsed - Len(fd.inrefs[o]) + n <= MaxSlots

Now == [fd EXCEPT !.abort = "no"]
Live == Op \ fd.dead

NewVarnode(l) == Did(Create(Now, l))

DoNewVarnodeOut(o, l) ==
    /\ fd.output[o] = Null /\ l[1] # "const"
    /\ Did(NewVarnodeOut(Now, o, l))

DoSetInputVarnode(v) ==
    /\ IsFree(fd, v) /\ ~IsConstant(fd, v)
    /\ Did(SetInputVarnode(Now, v))

DeleteVarnode(v) ==
    /\ fd.def[v] = NoOp /\ fd.descend[v] = <<>>
    /\ Did(Erase(Now, v))

DoOpSetInput(o, v, i) ==
    /\ i <= Len(fd.inrefs[o]) + 1 /\ Room(o, i)
    /\ Did(OpSetInput(Now, o, v, i))

DoOpInsertInput(o, v, i) ==
    /\ i <= Len(fd.inrefs[o]) + 1 /\ Room(o, Len(fd.inrefs[o]) + 1)
    /\ Did(OpInsertInput(Now, o, v, i))

DoOpRemoveInput(o, i) == Did(OpRemoveInput(Now, o, i))
DoOpUnsetInput(o, i) == Did(OpUnsetInput(Now, o, i))
DoOpSwapInput(o, i, j) == i < j /\ Did(OpSwapInput(Now, o, i, j))
DoOpSetAllInput(o, vs) == Room(o, Len(vs)) /\ Did(OpSetAllInput(Now, o, vs))

\* set_def refuses inputs and constants; the callers never pass one.
DoOpSetOutput(o, v) ==
    /\ fd.state[v] # "input" /\ ~IsConstant(fd, v)
    /\ Did(OpSetOutput(Now, o, v))

DoOpUnsetOutput(o) == fd.output[o] # Null /\ Did(OpUnsetOutput(Now, o))
DoOpDestroy(o) == Did(OpDestroy(Now, o))
DoOpDestroyRecursive(o) == Did(OpDestroyRecursive(Now, o))

\* Flow generation only: none of the op's varnodes is linked elsewhere.
DoOpDestroyRaw(o) ==
    /\ \A i \in DOMAIN fd.inrefs[o] : LET v == fd.inrefs[o][i] IN
        v # Null /\ InBank(fd, v) /\ fd.descend[v] = <<o>> /\ fd.def[v] = NoOp
    /\ fd.output[o] # Null => fd.descend[fd.output[o]] = <<>>
    /\ Did(OpDestroyRaw(Now, o))

DoOpUnlink(o) == Did(OpUnlink(Now, o))
DoTotalReplace(v, w) == fd.descend[v] # <<>> /\ Did(TotalReplace(Now, v, w))
DoClearDeadVarnodes == Did(ClearDeadVarnodes(Now))
\* Funcdata::clear, for a restart.
Clear == Did(Fresh)

Init == fd = Fresh

Next ==
    \/ \E l \in Storage : NewVarnode(l)
    \/ \E v \in Bank(fd) : DoSetInputVarnode(v) \/ DeleteVarnode(v)
    \/ \E v, w \in Bank(fd) : DoTotalReplace(v, w)
    \/ DoClearDeadVarnodes \/ Clear
    \/ \E o \in Live :
        \/ \E l \in Storage : DoNewVarnodeOut(o, l)
        \/ \E v \in Bank(fd) : DoOpSetOutput(o, v)
        \/ \E v \in Bank(fd), i \in 1..MaxIn :
              DoOpSetInput(o, v, i) \/ DoOpInsertInput(o, v, i)
        \/ \E i \in DOMAIN fd.inrefs[o] : DoOpRemoveInput(o, i) \/ DoOpUnsetInput(o, i)
        \/ \E i, j \in DOMAIN fd.inrefs[o] : DoOpSwapInput(o, i, j)
        \/ \E n \in 0..MaxIn : \E vs \in [1..n -> Bank(fd)] : DoOpSetAllInput(o, vs)
        \/ DoOpUnsetOutput(o) \/ DoOpDestroy(o) \/ DoOpDestroyRecursive(o)
        \/ DoOpDestroyRaw(o) \/ DoOpUnlink(o)

Spec == Init /\ [][Next]_fd

-----------------------------------------------------------------------------
\* The type of the graph: varnodes in the bank have been created, the links
\* are to varnodes and ops.
TypeOK ==
    /\ fd.made \in 0..MaxVn
    /\ fd.loc \in [Vn -> Storage] /\ fd.def \in [Vn -> Op \cup {NoOp}]
    /\ fd.state \in [Vn -> {"free", "input", "written"}]
    /\ fd.tree \subseteq Key \X (0..fd.made - 1)
    /\ \A v \in Vn : ToSet(fd.descend[v]) \subseteq Op
    /\ \A o \in Op : /\ Len(fd.inrefs[o]) <= MaxIn
                     /\ ToSet(fd.inrefs[o]) \subseteq Vn \cup {Null}
                     /\ fd.output[o] \in Vn \cup {Null}
    /\ fd.dead \subseteq Op /\ fd.abort \in {"no", "free", "constant"}

\* A varnode of the bank lists each op as often as the op has it in a slot.
ReadsInverse ==
    \A v \in Bank(fd), o \in Op : Count(fd.descend[v], o) = Count(fd.inrefs[o], v)

\* No op keeps an output another op took over, no varnode a writer that
\* dropped it, and an output is in the bank.
WritesInverse ==
    \A o \in Op :
        /\ \A v \in Bank(fd) : (fd.state[v] = "written" /\ fd.def[v] = o)
                                    <=> fd.output[o] = v
        /\ fd.output[o] # Null => fd.output[o] \in Bank(fd)

\* Passing a constant never trips the "Free varnode has multiple
\* descendants" panic: op_set_input makes a copy for each reader, through
\* op_set_all_input and total_replace too.
ConstantsShareable == fd.abort # "constant"

\* The two ends of every read and of every write agree, whatever mixture of
\* edits came before (repeated operands, replaced inputs, stolen outputs,
\* recursive destruction, clearing), and linking a constant never panics.
DefUseSound == ReadsInverse /\ WritesInverse /\ ConstantsShareable

\* Each varnode is in the tree once and under the key its fields give now,
\* with the copy in its cell the same, and no two varnodes share a key: one
\* input per storage.  Transitions change the fields only between an erase
\* and an insert.
BankCanonical ==
    /\ \A e \in fd.tree : e[1] = KeyOf(fd, e[2]) /\ e[1] = fd.key[e[2]]
    /\ \A d, e \in fd.tree : d[1] = e[1] \/ d[2] = e[2] => d = e

\* A recursive destruction takes, besides the op it was called for, only
\* ops that were read, and only by ops that go with them.
DestroysUnreadOnly ==
    [][LET gone == fd'.dead \ fd.dead
           readers(o) == IF fd.output[o] = Null THEN {}
                         ELSE ToSet(fd.descend[fd.output[o]])
       IN gone # {} => \E r \in gone : \A o \in gone \ {r} :
              readers(o) # {} /\ readers(o) \subseteq gone]_fd

\* Every slot is empty or holds a varnode of the bank: destroying a varnode
\* clears the slots of its readers (the comment of destroy_varnode).
NoDanglingRead ==
    \A o \in Op : ToSet(fd.inrefs[o]) \subseteq Bank(fd) \cup {Null}
=============================================================================
