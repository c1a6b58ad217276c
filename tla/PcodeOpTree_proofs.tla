------------------------- MODULE PcodeOpTree_proofs -------------------------
(***************************************************************************)
(* Proofs about PcodeOpTree, for every set of ops and every assignment of  *)
(* SeqNum keys, duplicate keys included.                                   *)
(***************************************************************************)
EXTENDS PcodeOpTree, TLAPS

\* The inductive invariant: the list is the map, the memo is never ahead of
\* the version, and between taking out an entry by mistake and putting it
\* back, its key is free and the memo stale.
IInv ==
    /\ TypeOK
    /\ ListIsMap
    /\ memoVer <= version
    /\ MemoFresh
    /\ pc = "restore" => Vacant(hit) /\ memoVer < version

KeysUnique == \A i, j \in inner : KeyOf[i] = KeyOf[j] => i = j
NextOrdered == \A i \in inner : IsSucc(inner, KeyOf[i], next[i])
PrevOrdered == \A i \in inner : IsPred(inner, KeyOf[i], prev[i])
HeadFirst == IsSucc(inner, -1, head)
TailLast == \/ tail = Nil /\ inner = {}
            \/ tail \in inner /\ \A j \in inner : KeyOf[j] <= KeyOf[tail]

LEMMA ListParts ==
    ListIsMap <=> /\ intree = inner /\ KeysUnique /\ NextOrdered /\ PrevOrdered
                  /\ HeadFirst /\ TailLast
    BY DEF ListIsMap, KeysUnique, NextOrdered, PrevOrdered, HeadFirst, TailLast

\* link_into_order, at the place the search found, keeps the list in step
\* with a map that gained the entry.
LEMMA LinkLemma ==
    ASSUME NEW id \in Id, NEW s \in inner \cup {Nil},
           TypeOK, ListIsMap, Vacant(id), IsSucc(inner, KeyOf[id], s),
           LinkIntoOrder(id, s), inner' = inner \cup {id}
    PROVE  ListIsMap'
<1> DEFINE p == IF s = Nil THEN tail ELSE prev[s]
           k == KeyOf[id]
<1>1. /\ inner \subseteq Id /\ Nil \notin inner /\ id \notin inner /\ id # Nil
      /\ k \in Nat /\ \A j \in inner : KeyOf[j] \in Nat /\ KeyOf[j] # k
    BY KeyAssumption DEF TypeOK, Vacant
<1>2. /\ intree = inner /\ KeysUnique /\ NextOrdered /\ PrevOrdered
      /\ HeadFirst /\ TailLast
    BY ListParts
<1>3. IsPred(inner, k, p)
  <2>1. CASE s = Nil
    BY <1>1, <1>2, <2>1 DEF IsSucc, IsPred, TailLast
  <2>2. CASE s # Nil
    <3>1. s \in inner /\ IsPred(inner, KeyOf[s], p) /\ k < KeyOf[s]
      BY <1>1, <1>2, <2>2 DEF IsSucc, PrevOrdered
    <3>2. \A j \in inner : KeyOf[j] < KeyOf[s] <=> KeyOf[j] < k
      BY <1>1, <2>2, <3>1 DEF IsSucc
    <3> QED
      BY <1>1, <3>1, <3>2 DEF IsPred
  <2> QED
    BY <2>1, <2>2
<1>4. /\ next' = [i \in Id |-> IF i = id THEN s ELSE IF i = p THEN id ELSE next[i]]
      /\ prev' = [i \in Id |-> IF i = id THEN p ELSE IF i = s THEN id ELSE prev[i]]
      /\ intree' = intree \cup {id}
      /\ head' = (IF p = Nil THEN id ELSE head)
      /\ tail' = (IF s = Nil THEN id ELSE tail)
    BY DEF LinkIntoOrder
<1>5. p \in inner \cup {Nil} /\ p # id
    BY <1>1, <1>3 DEF IsPred
<1> HIDE DEF p, k
<1>6. intree' = inner' /\ KeysUnique'
  <2>1. KeyOf[id] = k
    BY DEF k
  <2> QED
    BY <1>1, <1>2, <1>4, <2>1 DEF KeysUnique
<1>7. ASSUME NEW i \in inner' PROVE IsSucc(inner', KeyOf[i], next'[i])
  <2>0. KeyOf[id] = k /\ inner' = inner \cup {id}
    BY DEF k
  <2>1. CASE i = id
    <3>1. next'[i] = s /\ KeyOf[i] = k
      BY <1>4, <2>0, <2>1
    <3>2. IsSucc(inner, k, s)
      BY <2>0
    <3> QED
      BY <1>1, <2>0, <3>1, <3>2 DEF IsSucc
  <2>2. CASE i = p /\ i # id
    <3>1. next'[i] = id /\ i \in inner
      BY <1>1, <1>4, <2>0, <2>2
    <3>2. \A j \in inner : KeyOf[j] > KeyOf[i] => k <= KeyOf[j]
      BY <1>1, <1>3, <2>2, <3>1 DEF IsPred
    <3>3. k > KeyOf[i]
      BY <1>1, <1>3, <2>2, <3>1 DEF IsPred
    <3> QED
      BY <1>1, <2>0, <3>1, <3>2, <3>3 DEF IsSucc
  <2>3. CASE i # p /\ i # id
    <3>1. next'[i] = next[i] /\ i \in inner /\ IsSucc(inner, KeyOf[i], next[i])
      BY <1>1, <1>2, <1>4, <2>0, <2>3 DEF NextOrdered
    <3>2. CASE KeyOf[i] > k
      BY <1>1, <2>0, <3>1, <3>2 DEF IsSucc
    <3>3. CASE KeyOf[i] < k
      <4>1. p \in inner /\ KeyOf[p] < k /\ KeyOf[i] < KeyOf[p]
        BY <1>1, <1>2, <1>3, <2>3, <3>1, <3>3 DEF IsPred, KeysUnique
      <4>2. next[i] \in inner /\ KeyOf[next[i]] <= KeyOf[p]
        BY <1>1, <3>1, <4>1 DEF IsSucc
      <4> QED
        BY <1>1, <2>0, <3>1, <4>1, <4>2 DEF IsSucc
    <3> QED
      BY <1>1, <3>1, <3>2, <3>3
  <2> QED
    BY <2>1, <2>2, <2>3
<1>8. ASSUME NEW i \in inner' PROVE IsPred(inner', KeyOf[i], prev'[i])
  <2>0. KeyOf[id] = k /\ inner' = inner \cup {id} /\ IsSucc(inner, k, s)
    BY DEF k
  <2>1. CASE i = id
    <3>1. prev'[i] = p /\ KeyOf[i] = k
      BY <1>4, <2>0, <2>1
    <3> QED
      BY <1>1, <1>3, <2>0, <3>1 DEF IsPred
  <2>2. CASE i = s /\ i # id
    <3>1. prev'[i] = id /\ i \in inner
      BY <1>1, <1>4, <2>0, <2>2
    <3>2. \A j \in inner : KeyOf[j] < KeyOf[i] => KeyOf[j] <= k
      BY <1>1, <2>0, <2>2, <3>1 DEF IsSucc
    <3>3. k < KeyOf[i]
      BY <1>1, <2>0, <2>2, <3>1 DEF IsSucc
    <3> QED
      BY <1>1, <2>0, <3>1, <3>2, <3>3 DEF IsPred
  <2>3. CASE i # s /\ i # id
    <3>1. prev'[i] = prev[i] /\ i \in inner /\ IsPred(inner, KeyOf[i], prev[i])
      BY <1>1, <1>2, <1>4, <2>0, <2>3 DEF PrevOrdered
    <3>2. CASE KeyOf[i] < k
      BY <1>1, <2>0, <3>1, <3>2 DEF IsPred
    <3>3. CASE KeyOf[i] > k
      <4>1. s \in inner /\ KeyOf[s] > k /\ KeyOf[i] > KeyOf[s]
        BY <1>1, <1>2, <2>0, <2>3, <3>1, <3>3 DEF IsSucc, KeysUnique
      <4>2. prev[i] \in inner /\ KeyOf[prev[i]] >= KeyOf[s]
        BY <1>1, <3>1, <4>1 DEF IsPred
      <4> QED
        BY <1>1, <2>0, <3>1, <4>1, <4>2 DEF IsPred
    <3> QED
      BY <1>1, <3>1, <3>2, <3>3
  <2> QED
    BY <2>1, <2>2, <2>3
<1>9. HeadFirst'
  <2>0. KeyOf[id] = k /\ inner' = inner \cup {id}
    BY DEF k
  <2>1. CASE p = Nil
    <3>1. \A j \in inner : KeyOf[j] >= k
      BY <1>1, <1>3, <2>1 DEF IsPred
    <3> QED
      BY <1>1, <1>4, <2>0, <2>1, <3>1 DEF HeadFirst, IsSucc
  <2>2. CASE p # Nil
    <3>1. p \in inner /\ KeyOf[p] < k /\ head' = head
      BY <1>1, <1>3, <1>4, <2>2 DEF IsPred
    <3>2. head \in inner /\ KeyOf[head] <= KeyOf[p]
      BY <1>1, <1>2, <3>1 DEF HeadFirst, IsSucc
    <3> QED
      BY <1>1, <1>2, <2>0, <3>1, <3>2 DEF HeadFirst, IsSucc
  <2> QED
    BY <2>1, <2>2
<1>10. TailLast'
  <2>0. KeyOf[id] = k /\ inner' = inner \cup {id} /\ IsSucc(inner, k, s)
    BY DEF k
  <2>1. CASE s = Nil
    <3>1. \A j \in inner : KeyOf[j] <= k
      BY <1>1, <2>0, <2>1 DEF IsSucc
    <3> QED
      BY <1>1, <1>4, <2>0, <2>1, <3>1 DEF TailLast
  <2>2. CASE s # Nil
    <3>1. s \in inner /\ KeyOf[s] > k /\ tail' = tail
      BY <1>1, <1>4, <2>0, <2>2 DEF IsSucc
    <3>2. tail \in inner /\ KeyOf[tail] >= KeyOf[s]
      BY <1>1, <1>2, <3>1 DEF TailLast
    <3> QED
      BY <1>1, <1>2, <2>0, <3>1, <3>2 DEF TailLast
  <2> QED
    BY <2>1, <2>2
<1> QED
  <2>1. NextOrdered' /\ PrevOrdered'
    BY <1>7, <1>8 DEF NextOrdered, PrevOrdered
  <2> QED
    BY <1>6, <1>9, <1>10, <2>1
    DEF ListIsMap, KeysUnique, NextOrdered, PrevOrdered, HeadFirst, TailLast

\* unlink_from_order keeps the list in step with a map that lost the entry.
LEMMA UnlinkLemma ==
    ASSUME NEW id \in inner, TypeOK, ListIsMap, UnlinkFromOrder(id),
           inner' = inner \ {id}
    PROVE  ListIsMap'
<1> DEFINE p == prev[id]
           n == next[id]
           k == KeyOf[id]
<1>1. /\ inner \subseteq Id /\ Nil \notin inner
      /\ k \in Nat /\ \A j \in inner : KeyOf[j] \in Nat
    BY KeyAssumption DEF TypeOK
<1>2. /\ intree = inner /\ KeysUnique /\ NextOrdered /\ PrevOrdered
      /\ HeadFirst /\ TailLast
    BY ListParts
<1>3. IsPred(inner, k, p) /\ IsSucc(inner, k, n)
    BY <1>2 DEF NextOrdered, PrevOrdered
<1>4. /\ next' = [i \in Id |-> IF i = p THEN n ELSE next[i]]
      /\ prev' = [i \in Id |-> IF i = n THEN p ELSE prev[i]]
      /\ intree' = intree \ {id}
      /\ head' = (IF p = Nil THEN n ELSE head)
      /\ tail' = (IF n = Nil THEN p ELSE tail)
    BY DEF UnlinkFromOrder
<1>5. p # id /\ n # id
    BY <1>1, <1>3 DEF IsPred, IsSucc
<1>6. \A j \in inner : KeyOf[j] = k => j = id
    BY <1>2 DEF KeysUnique
<1>7. intree' = inner' /\ KeysUnique'
    BY <1>2, <1>4 DEF KeysUnique
<1> HIDE DEF p, n, k
<1>8. ASSUME NEW i \in inner' PROVE IsSucc(inner', KeyOf[i], next'[i])
  <2>0. KeyOf[id] = k /\ inner' = inner \ {id} /\ i \in inner /\ i # id
    BY DEF k
  <2>1. CASE i = p
    <3>1. next'[i] = n /\ KeyOf[i] < k
      BY <1>1, <1>3, <1>4, <2>0, <2>1 DEF IsPred
    <3>2. \A j \in inner' : KeyOf[j] > KeyOf[i] => KeyOf[j] > k
      BY <1>1, <1>3, <1>6, <2>0, <2>1 DEF IsPred
    <3> QED
      BY <1>1, <1>3, <1>5, <2>0, <3>1, <3>2 DEF IsSucc
  <2>2. CASE i # p
    <3>1. next'[i] = next[i] /\ IsSucc(inner, KeyOf[i], next[i])
      BY <1>1, <1>2, <1>4, <2>0, <2>2 DEF NextOrdered
    <3>2. next[i] # id
      <4>1. SUFFICES ASSUME next[i] = id PROVE FALSE
        OBVIOUS
      <4>2. KeyOf[i] < k /\ \A j \in inner : KeyOf[j] > KeyOf[i] => k <= KeyOf[j]
        BY <1>1, <2>0, <3>1, <4>1 DEF IsSucc
      <4>3. p \in inner /\ KeyOf[p] < k /\ KeyOf[i] <= KeyOf[p]
        BY <1>1, <1>3, <2>0, <4>2 DEF IsPred
      <4> QED
        BY <1>1, <1>2, <2>0, <2>2, <4>2, <4>3 DEF KeysUnique
    <3> QED
      BY <1>1, <2>0, <3>1, <3>2 DEF IsSucc
  <2> QED
    BY <2>1, <2>2
<1>9. ASSUME NEW i \in inner' PROVE IsPred(inner', KeyOf[i], prev'[i])
  <2>0. KeyOf[id] = k /\ inner' = inner \ {id} /\ i \in inner /\ i # id
    BY DEF k
  <2>1. CASE i = n
    <3>1. prev'[i] = p /\ KeyOf[i] > k
      BY <1>1, <1>3, <1>4, <2>0, <2>1 DEF IsSucc
    <3>2. \A j \in inner' : KeyOf[j] < KeyOf[i] => KeyOf[j] < k
      BY <1>1, <1>3, <1>6, <2>0, <2>1 DEF IsSucc
    <3> QED
      BY <1>1, <1>3, <1>5, <2>0, <3>1, <3>2 DEF IsPred
  <2>2. CASE i # n
    <3>1. prev'[i] = prev[i] /\ IsPred(inner, KeyOf[i], prev[i])
      BY <1>1, <1>2, <1>4, <2>0, <2>2 DEF PrevOrdered
    <3>2. prev[i] # id
      <4>1. SUFFICES ASSUME prev[i] = id PROVE FALSE
        OBVIOUS
      <4>2. KeyOf[i] > k /\ \A j \in inner : KeyOf[j] < KeyOf[i] => KeyOf[j] <= k
        BY <1>1, <2>0, <3>1, <4>1 DEF IsPred
      <4>3. n \in inner /\ KeyOf[n] > k /\ KeyOf[n] <= KeyOf[i]
        BY <1>1, <1>3, <2>0, <4>2 DEF IsSucc
      <4> QED
        BY <1>1, <1>2, <2>0, <2>2, <4>2, <4>3 DEF KeysUnique
    <3> QED
      BY <1>1, <2>0, <3>1, <3>2 DEF IsPred
  <2> QED
    BY <2>1, <2>2
<1>10. HeadFirst'
  <2>0. KeyOf[id] = k /\ inner' = inner \ {id}
    BY DEF k
  <2>1. CASE p = Nil
    <3>1. \A j \in inner' : KeyOf[j] > k
      BY <1>1, <1>3, <1>6, <2>0, <2>1 DEF IsPred
    <3>2. head' = n
      BY <1>4, <2>1
    <3> QED
      BY <1>1, <1>3, <1>5, <2>0, <3>1, <3>2 DEF HeadFirst, IsSucc
  <2>2. CASE p # Nil
    <3>1. p \in inner /\ KeyOf[p] < k /\ head' = head
      BY <1>1, <1>3, <1>4, <2>2 DEF IsPred
    <3>2. head \in inner /\ head # id
      BY <1>1, <1>2, <2>0, <3>1 DEF HeadFirst, IsSucc
    <3> QED
      BY <1>1, <1>2, <2>0, <3>1, <3>2 DEF HeadFirst, IsSucc
  <2> QED
    BY <2>1, <2>2
<1>11. TailLast'
  <2>0. KeyOf[id] = k /\ inner' = inner \ {id}
    BY DEF k
  <2>1. CASE n = Nil
    <3>1. \A j \in inner' : KeyOf[j] < k
      BY <1>1, <1>3, <1>6, <2>0, <2>1 DEF IsSucc
    <3>2. tail' = p
      BY <1>4, <2>1
    <3> QED
      BY <1>1, <1>3, <1>5, <2>0, <3>1, <3>2 DEF TailLast, IsPred
  <2>2. CASE n # Nil
    <3>1. n \in inner /\ KeyOf[n] > k /\ tail' = tail
      BY <1>1, <1>3, <1>4, <2>2 DEF IsSucc
    <3>2. tail \in inner /\ tail # id
      BY <1>1, <1>2, <2>0, <3>1 DEF TailLast
    <3> QED
      BY <1>1, <1>2, <2>0, <3>1, <3>2 DEF TailLast
  <2> QED
    BY <2>1, <2>2
<1> QED
  <2>1. NextOrdered' /\ PrevOrdered'
    BY <1>8, <1>9 DEF NextOrdered, PrevOrdered
  <2> QED
    BY <1>7, <1>10, <1>11, <2>1
    DEF ListIsMap, KeysUnique, NextOrdered, PrevOrdered, HeadFirst, TailLast

\* While the list is the map, next_id_after is a search of the map.
LEMMA NextLemma ==
    TypeOK /\ ListIsMap => NextIsSuccessor
<1> SUFFICES ASSUME TypeOK, ListIsMap, NEW c \in slotted, NEW j \in Id \cup {Nil}
             PROVE  IsNextIdAfter(c, j) <=> IsSucc(inner, KeyOf[c], j)
    BY DEF NextIsSuccessor
<1>1. /\ intree = inner /\ KeysUnique /\ NextOrdered
      /\ Nil \notin inner /\ KeyOf[c] \in Nat /\ \A i \in inner : KeyOf[i] \in Nat
    BY ListParts, KeyAssumption DEF TypeOK
<1>2. CASE c \in inner
  <2>1. IsSucc(inner, KeyOf[c], next[c])
    BY <1>1, <1>2 DEF NextOrdered
  <2>2. IsSucc(inner, KeyOf[c], j) => j = next[c]
    BY <1>1, <2>1 DEF IsSucc, KeysUnique
  <2> QED
    BY <1>1, <1>2, <2>1, <2>2 DEF IsNextIdAfter
<1>3. CASE c \notin inner
    BY <1>1, <1>3 DEF IsNextIdAfter
<1> QED
    BY <1>2, <1>3
-----------------------------------------------------------------------------
(***************************************************************************)
(* Every step keeps the invariant.                                         *)
(***************************************************************************)

\* Once the version has moved past the memo, nothing is claimed of it.
LEMMA MemoStale ==
    ASSUME TypeOK, memoVer <= version, version' = version + 1, UNCHANGED client
    PROVE  memoVer' <= version' /\ MemoFresh'
    BY DEF TypeOK, MemoFresh, client

\* The version only moves when the map does, and the links with it.
LEMMA InvStep == IInv /\ [Next]_vars => IInv'
<1> SUFFICES ASSUME IInv, [Next]_vars PROVE IInv'
    OBVIOUS
<1>0. TypeOK /\ ListIsMap /\ memoVer <= version /\ MemoFresh
    BY DEF IInv
<1> USE KeyAssumption DEF call, client
<1>1. ASSUME NEW id \in Id, InsertVacant(id) PROVE IInv'
  <2>1. PICK s \in inner \cup {Nil} :
            IsSucc(inner, KeyOf[id], s) /\ LinkIntoOrder(id, s)
    BY <1>1 DEF InsertVacant
  <2>2. ListIsMap'
    BY <1>0, <1>1, <2>1, LinkLemma DEF InsertVacant
  <2>3. TypeOK'
    BY <1>0, <1>1, <2>1 DEF InsertVacant, LinkIntoOrder, TypeOK
  <2>4. memoVer' <= version' /\ MemoFresh'
    BY <1>0, <1>1, MemoStale DEF InsertVacant
  <2> QED
    BY <1>1, <2>2, <2>3, <2>4 DEF IInv, InsertVacant
<1>2. ASSUME NEW id \in Id, SlotOnly(id) PROVE IInv'
    BY <1>2 DEF IInv, SlotOnly, TypeOK, ListIsMap, MemoFresh, IsSucc, IsPred, list
<1>3. ASSUME NEW id \in Id, RemoveOwn(id) PROVE IInv'
  <2>1. ListIsMap'
    BY <1>0, <1>3, UnlinkLemma DEF RemoveOwn
  <2>2. TypeOK'
    BY <1>0, <1>3 DEF RemoveOwn, UnlinkFromOrder, TypeOK
  <2>3. memoVer' <= version' /\ MemoFresh'
    BY <1>0, <1>3, MemoStale DEF RemoveOwn
  <2> QED
    BY <1>3, <2>1, <2>2, <2>3 DEF IInv, RemoveOwn
<1>4. ASSUME NEW id \in Id, RemoveUnstored(id) PROVE IInv'
    BY <1>4 DEF IInv, RemoveUnstored, TypeOK, ListIsMap, MemoFresh, IsSucc, IsPred,
                list
<1>5. ASSUME NEW rid \in Id, RemoveLive(rid) PROVE IInv'
  <2>1. ListIsMap'
    BY <1>0, <1>5, UnlinkLemma DEF RemoveLive
  <2>2. TypeOK'
    BY <1>0, <1>5 DEF RemoveLive, UnlinkFromOrder, TypeOK
  <2>3. memoVer' <= version' /\ MemoFresh'
    BY <1>0, <1>5, MemoStale DEF RemoveLive
  <2> QED
    BY <1>5, <2>1, <2>2, <2>3 DEF IInv, RemoveLive
<1>6. ASSUME NEW c \in Id, Park(c) PROVE IInv'
  <2>1. UNCHANGED <<slotted, inner, list, version, pc, arg, hit>>
    BY <1>6 DEF Park
  <2>2. TypeOK' /\ cur' = c /\ memoVer' = version
    BY <1>0, <1>6 DEF Park, TypeOK, list
  <2>3. ListIsMap'
    BY <1>0, <2>1 DEF ListIsMap, IsSucc, IsPred, list
  <2>4. IsNextIdAfter(c, memoNext') /\ c \in slotted /\ memoNext' \in Id \cup {Nil}
    BY <1>6 DEF Park
  <2>5. IsSucc(inner, KeyOf[c], memoNext')
    BY <1>0, <2>4, NextLemma DEF NextIsSuccessor
  <2>6. MemoFresh' /\ memoVer' <= version'
    BY <1>0, <2>1, <2>2, <2>5 DEF MemoFresh, IsSucc, TypeOK
  <2> QED
    BY <1>6, <2>1, <2>2, <2>3, <2>6 DEF IInv, Park
<1>7. ASSUME NEW id \in Id, NEW rid \in Id, RemoveForeign(id, rid) PROVE IInv'
  <2>1. ListIsMap'
    BY <1>0, <1>7, UnlinkLemma DEF RemoveForeign
  <2>2. TypeOK'
    BY <1>0, <1>7 DEF RemoveForeign, UnlinkFromOrder, TypeOK
  <2>3. memoVer' <= version' /\ MemoFresh'
    BY <1>0, <1>7, MemoStale DEF RemoveForeign
  <2>4. Vacant(hit)'
    <3>1. \A j \in inner : KeyOf[j] = KeyOf[rid] => j = rid
      BY <1>0, <1>7, ListParts DEF KeysUnique, RemoveForeign
    <3> QED
      BY <1>7, <3>1 DEF RemoveForeign, Vacant
  <2>5. memoVer' < version'
    BY <1>0, <1>7 DEF RemoveForeign, TypeOK
  <2> QED
    BY <2>1, <2>2, <2>3, <2>4, <2>5 DEF IInv
<1>8. CASE RemoveRestores
  <2>1. hit \in Id /\ Vacant(hit) /\ hit \in slotted
    BY <1>0, <1>8 DEF RemoveRestores, IInv, TypeOK
  <2>2. PICK s \in inner \cup {Nil} :
            IsSucc(inner, KeyOf[hit], s) /\ LinkIntoOrder(hit, s)
    BY <1>8 DEF RemoveRestores
  <2>3. ListIsMap'
    BY <1>0, <1>8, <2>1, <2>2, LinkLemma DEF RemoveRestores
  <2>4. TypeOK'
    BY <1>0, <1>8, <2>1, <2>2 DEF RemoveRestores, LinkIntoOrder, TypeOK
  <2>5. memoVer' < version' /\ MemoFresh' /\ memoVer' <= version'
    BY <1>0, <1>8 DEF RemoveRestores, IInv, TypeOK, MemoFresh
  <2> QED
    BY <1>8, <2>3, <2>4, <2>5 DEF IInv, RemoveRestores
<1>9. CASE RemoveNothing
    BY <1>9 DEF IInv, RemoveNothing, TypeOK, ListIsMap, MemoFresh, IsSucc, IsPred,
                list
<1>10. CASE Clear
  <2>1. ListIsMap' /\ TypeOK'
    BY <1>0, <1>10 DEF Clear, ListIsMap, IsSucc, TypeOK
  <2>2. memoVer' <= version' /\ MemoFresh'
    BY <1>0, <1>10, MemoStale DEF Clear
  <2> QED
    BY <1>10, <2>1, <2>2 DEF IInv, Clear
<1>11. CASE UNCHANGED vars
    BY <1>11 DEF vars, list, IInv, TypeOK, ListIsMap, MemoFresh, IsSucc, IsPred,
                 Vacant
<1> QED
    BY <1>1, <1>2, <1>3, <1>4, <1>5, <1>6, <1>7, <1>8, <1>9, <1>10, <1>11
    DEF Next

\* The invariant holds of an empty tree.
LEMMA InitInv == Init => IInv
    BY KeyAssumption DEF Init, IInv, TypeOK, ListIsMap, MemoFresh, IsSucc

\* Whatever is inserted and erased, in every intermediate state of remove.
THEOREM Invariance == Spec => []IInv
    BY InitInv, InvStep, PTL DEF Spec

\* The tree keeps its types.
THEOREM TypeCorrect == Spec => []TypeOK
<1>1. IInv => TypeOK
    BY DEF IInv
<1> QED
    BY Invariance, <1>1, PTL

\* The intrusive list and the map never disagree.
THEOREM ListMatchesMap == Spec => []ListIsMap
<1>1. IInv => ListIsMap
    BY DEF IInv
<1> QED
    BY Invariance, <1>1, PTL

\* Following a link, or searching from an erased cell, always yields the
\* strict successor.
THEOREM NextCorrect == Spec => []NextIsSuccessor
<1>1. IInv => NextIsSuccessor
    BY NextLemma DEF IInv
<1> QED
    BY Invariance, <1>1, PTL

\* An unchanged version vouches for a memoised successor.
THEOREM MemoCorrect == Spec => []MemoFresh
<1>1. IInv => MemoFresh
    BY DEF IInv
<1> QED
    BY Invariance, <1>1, PTL
=============================================================================
