----------------------------- MODULE PcodeOpTree -----------------------------
(***************************************************************************)
(* PcodeOpTree (src/op.rs): the map from SeqNum to op, kept together with  *)
(* an intrusive list of the same entries in key order, so that the cursor  *)
(* of a rule pool advances by one link instead of a search.  Cells outlive *)
(* their entry; a cursor parked on an erased cell falls back to a search   *)
(* of the map.  The version counter lets a client trust a successor it     *)
(* computed earlier.                                                       *)
(***************************************************************************)
EXTENDS Integers

CONSTANTS
    Id,         \* ops, named by their arena handle
    KeyOf,      \* the SeqNum key of each op: fixed, totally ordered
    Nil,        \* SENTINEL, None
    MaxVersion  \* bound on the number of mutations

ASSUME KeyAssumption == KeyOf \in [Id -> Nat] /\ Nil \notin Id

VARIABLES
    slotted,  \* ops that own an arena cell
    inner,    \* the values of the map; the key of a value is KeyOf
    prev, next, intree, head, tail,  \* the list, and its membership bits
    version,
    pc, arg, hit,  \* remove in progress: where, its op, the entry taken out
    cur, memoVer, memoNext   \* a client: a parked cursor and its memo

list == <<prev, next, intree, head, tail>>
client == <<cur, memoVer, memoNext>>
call == <<pc, arg, hit>>
vars == <<slotted, inner, list, version, call, client>>

(***************************************************************************)
(* Searches of the map.                                                    *)
(***************************************************************************)

\* s is what inner.range((Excluded(k), Unbounded)).next() yields.
IsSucc(map, k, s) ==
    \/ s = Nil /\ \A j \in map : KeyOf[j] <= k
    \/ s \in map /\ KeyOf[s] > k
       /\ \A j \in map : KeyOf[j] > k => KeyOf[s] <= KeyOf[j]

IsPred(map, k, p) ==
    \/ p = Nil /\ \A j \in map : KeyOf[j] >= k
    \/ p \in map /\ KeyOf[p] < k
       /\ \A j \in map : KeyOf[j] < k => KeyOf[j] <= KeyOf[p]

Init ==
    /\ slotted = {} /\ inner = {}
    /\ prev = [i \in Id |-> Nil] /\ next = [i \in Id |-> Nil]
    /\ intree = {} /\ head = Nil /\ tail = Nil
    /\ version = 0
    /\ pc = "idle" /\ arg = Nil /\ hit = Nil
    /\ cur = Nil /\ memoVer = -1 /\ memoNext = Nil
-----------------------------------------------------------------------------
(***************************************************************************)
(* The list splices.                                                       *)
(***************************************************************************)

\* link_into_order: between s and whatever precedes s.
LinkIntoOrder(id, s) ==
    LET p == IF s = Nil THEN tail ELSE prev[s] IN
    /\ next' = [i \in Id |-> IF i = id THEN s ELSE IF i = p THEN id ELSE next[i]]
    /\ prev' = [i \in Id |-> IF i = id THEN p ELSE IF i = s THEN id ELSE prev[i]]
    /\ intree' = intree \cup {id}
    /\ head' = IF p = Nil THEN id ELSE head
    /\ tail' = IF s = Nil THEN id ELSE tail

\* Mutant of UnlinkFromOrder: only the forward links are spliced.
UnlinkForwardOnly(id) ==
    LET p == prev[id]
        n == next[id] IN
    /\ next' = [i \in Id |-> IF i = p THEN n ELSE next[i]]
    /\ intree' = intree \ {id}
    /\ head' = IF p = Nil THEN n ELSE head
    /\ tail' = IF n = Nil THEN p ELSE tail
    /\ UNCHANGED prev

\* unlink_from_order: the erased cell keeps its own links.
UnlinkFromOrder(id) ==
    LET p == prev[id]
        n == next[id] IN
    /\ next' = [i \in Id |-> IF i = p THEN n ELSE next[i]]
    /\ prev' = [i \in Id |-> IF i = n THEN p ELSE prev[i]]
    /\ intree' = intree \ {id}
    /\ head' = IF p = Nil THEN n ELSE head
    /\ tail' = IF n = Nil THEN p ELSE tail

Vacant(id) == \A j \in inner : KeyOf[j] # KeyOf[id]

\* Mutant of InsertVacant: the version is not bumped.
InsertSameVersion(id) ==
    /\ pc = "idle" /\ Vacant(id)
    /\ slotted' = slotted \cup {id} /\ inner' = inner \cup {id}
    /\ \E s \in inner \cup {Nil} :
           IsSucc(inner, KeyOf[id], s) /\ LinkIntoOrder(id, s)
    /\ UNCHANGED <<version, call, client>>

\* insert of a key the map does not hold: entry, links, version.
InsertVacant(id) ==
    /\ pc = "idle" /\ version < MaxVersion
    /\ Vacant(id)
    /\ slotted' = slotted \cup {id}
    /\ inner' = inner \cup {id}
    /\ \E s \in inner \cup {Nil} :
           IsSucc(inner, KeyOf[id], s) /\ LinkIntoOrder(id, s)
    /\ version' = version + 1
    /\ UNCHANGED <<call, client>>

\* insert of an occupied key keeps the first entry, but the op gets a cell;
\* so does slot_only.
SlotOnly(id) ==
    /\ pc = "idle"
    /\ slotted' = slotted \cup {id}
    /\ UNCHANGED <<inner, list, version, call, client>>

\* remove, stored-key path: the op's own entry is found, and remove returns.
RemoveOwn(id) ==
    /\ pc = "idle" /\ version < MaxVersion
    /\ id \in slotted /\ id \in inner
    /\ inner' = inner \ {id}
    /\ UnlinkFromOrder(id)
    /\ version' = version + 1
    /\ UNCHANGED <<slotted, call, client>>

\* remove, stored-key path: the key leads to another op's entry.
RemoveForeign(id, rid) ==
    /\ pc = "idle" /\ version + 2 <= MaxVersion
    /\ id \in slotted
    /\ rid \in inner /\ rid # id /\ KeyOf[rid] = KeyOf[id]
    /\ inner' = inner \ {rid}
    /\ UnlinkFromOrder(rid)
    /\ version' = version + 1
    /\ pc' = "restore" /\ arg' = id /\ hit' = rid
    /\ UNCHANGED <<slotted, client>>

\* ... which is put back before the live-key path.
RemoveRestores ==
    /\ pc = "restore"
    /\ inner' = inner \cup {hit}
    /\ \E s \in inner \cup {Nil} :
           IsSucc(inner, KeyOf[hit], s) /\ LinkIntoOrder(hit, s)
    /\ pc' = "live"
    /\ UNCHANGED <<slotted, version, arg, hit, client>>

\* remove, stored-key path: no cell, or no entry under the key.
RemoveUnstored(id) ==
    /\ pc = "idle" /\ version < MaxVersion
    /\ id \notin slotted \/ Vacant(id)
    /\ pc' = "live" /\ arg' = id /\ hit' = Nil
    /\ UNCHANGED <<slotted, inner, list, version, client>>

\* remove, live-key path: whatever is under the key is erased, so the
\* entry that was just restored goes after all.
RemoveLive(rid) ==
    /\ pc = "live"
    /\ rid \in inner /\ KeyOf[rid] = KeyOf[arg]
    /\ inner' = inner \ {rid}
    /\ UnlinkFromOrder(rid)
    /\ version' = version + 1
    /\ pc' = "idle"
    /\ UNCHANGED <<slotted, arg, hit, client>>

RemoveNothing ==
    /\ pc = "live" /\ Vacant(arg)
    /\ pc' = "idle"
    /\ UNCHANGED <<slotted, inner, list, version, arg, hit, client>>

\* Mutant of Clear: the arena is reclaimed, the map is not.
ClearKeepsMap ==
    /\ pc = "idle" /\ version < MaxVersion
    /\ slotted' = {} /\ intree' = {}
    /\ head' = Nil /\ tail' = Nil
    /\ prev' = [i \in Id |-> Nil] /\ next' = [i \in Id |-> Nil]
    /\ version' = version + 1
    /\ UNCHANGED <<inner, call, client>>

Clear ==
    /\ pc = "idle" /\ version < MaxVersion
    /\ slotted' = {} /\ inner' = {} /\ intree' = {}
    /\ head' = Nil /\ tail' = Nil
    /\ prev' = [i \in Id |-> Nil] /\ next' = [i \in Id |-> Nil]
    /\ version' = version + 1
    /\ UNCHANGED <<call, client>>
-----------------------------------------------------------------------------
\* Mutant of IsNextIdAfter: the frozen link of an erased cell is followed.
NextByLink(c, j) == j = next[c]

\* next_id_after: the link while the cell is in the tree, else a search.
IsNextIdAfter(c, j) ==
    \/ c \in intree /\ j = next[c]
    \/ c \notin intree /\ IsSucc(inner, KeyOf[c], j)

\* The pool: park the cursor on a cell and memoise its successor.
Park(c) ==
    /\ pc = "idle" /\ c \in slotted
    /\ cur' = c /\ memoVer' = version
    /\ \E j \in Id \cup {Nil} : IsNextIdAfter(c, j) /\ memoNext' = j
    /\ UNCHANGED <<slotted, inner, list, version, call>>

Next ==
    \/ \E id \in Id : InsertVacant(id) \/ SlotOnly(id) \/ RemoveOwn(id)
                      \/ RemoveUnstored(id) \/ RemoveLive(id) \/ Park(id)
    \/ \E id, rid \in Id : RemoveForeign(id, rid)
    \/ RemoveRestores \/ RemoveNothing \/ Clear

Spec == Init /\ [][Next]_vars
-----------------------------------------------------------------------------
\* Type invariant.
TypeOK ==
    /\ slotted \subseteq Id /\ inner \subseteq slotted /\ intree \subseteq Id
    /\ prev \in [Id -> Id \cup {Nil}] /\ next \in [Id -> Id \cup {Nil}]
    /\ head \in Id \cup {Nil} /\ tail \in Id \cup {Nil}
    /\ version \in Nat
    /\ pc \in {"idle", "restore", "live"}
    /\ arg \in Id \cup {Nil} /\ hit \in Id \cup {Nil}
    /\ pc # "idle" => arg \in Id
    /\ pc = "restore" => hit \in slotted
    /\ cur \in Id \cup {Nil} /\ memoVer \in Nat \cup {-1}
    /\ memoNext \in Id \cup {Nil}

\* The list is the map: it links exactly the entries, no two of which share
\* a key, each to its strict neighbours in key order, between head and tail.
ListIsMap ==
    /\ intree = inner
    /\ \A i, j \in inner : KeyOf[i] = KeyOf[j] => i = j
    /\ \A i \in inner : IsSucc(inner, KeyOf[i], next[i])
                        /\ IsPred(inner, KeyOf[i], prev[i])
    /\ IsSucc(inner, -1, head)
    /\ \/ tail = Nil /\ inner = {}
       \/ tail \in inner /\ \A j \in inner : KeyOf[j] <= KeyOf[tail]

\* A cursor parked anywhere, on an entry or on a cell erased long ago,
\* advances to the strict successor of its key in the map as it is now.
NextIsSuccessor ==
    \A c \in slotted, j \in Id \cup {Nil} :
        IsNextIdAfter(c, j) <=> IsSucc(inner, KeyOf[c], j)

\* A successor memoised at the current version is still the successor.
MemoFresh ==
    cur # Nil /\ memoVer = version => IsSucc(inner, KeyOf[cur], memoNext)
=============================================================================
