------------------------- MODULE PcodeOpBank_proofs -------------------------
(***************************************************************************)
(* The chains of PcodeOpBank spell lists, for every finite set of ops and  *)
(* every set of opcodes.                                                   *)
(***************************************************************************)
EXTENDS PcodeOpBank, FiniteSetTheorems, NaturalsInduction, TLAPS

-----------------------------------------------------------------------------
(***************************************************************************)
(* Walking a chain.                                                        *)
(***************************************************************************)

\* A nonempty set of naturals has a least element.
LEMMA NatMin ==
    ASSUME NEW T \in SUBSET Nat, T # {}
    PROVE  \E x \in T : \A y \in T : x <= y
<1> DEFINE R == {ss \in Nat \X Nat : ss[1] < ss[2]}
<1>1. IsWellFoundedOn(R, Nat)
  BY NatLessThanWellFounded, Zenon DEF OpToRel
<1>2. PICK x \in T : \A y \in T : ~(<<y, x>> \in R)
  BY <1>1, WFMin, Zenon
<1>3. \A y \in T : ~(y < x)
  <2> TAKE y \in T
  <2>1. <<y, x>> \in Nat \X Nat /\ <<y, x>>[1] = y /\ <<y, x>>[2] = x
    OBVIOUS
  <2>2. ~(<<y, x>> \in R)
    BY <1>2
  <2>3. QED
    BY <2>1, <2>2
<1>4. QED
  BY <1>3

\* The sequence s has no element twice.
Distinct(s) == \A i, j \in 1..Len(s) : s[i] = s[j] => i = j

\* A sequence of ops without repetition is no longer than there are ops.
LEMMA DistinctBound ==
    ASSUME NEW s \in Seq(Id), Distinct(s)
    PROVE  Len(s) <= Cardinality(Id)
<1>1. s \in Injection(1..Len(s), Id)
  BY DEF Injection, Distinct, IsInjective
<1>2. Cardinality(1..Len(s)) <= Cardinality(Id)
  BY <1>1, FS_Injection, BankAssumption, Zenon
<1>3. Cardinality(1..Len(s)) = Len(s)
  <2>1. 1 \in Int /\ Len(s) \in Int /\ Len(s) >= 0
    OBVIOUS
  <2>2. Cardinality(1..Len(s)) = IF 1 > Len(s) THEN 0 ELSE Len(s) - 1 + 1
    BY <2>1, FS_Interval, Zenon
  <2>3. QED
    BY <2>1, <2>2
<1>4. QED
  BY <1>2, <1>3

\* The links f join the ops of s in order; First is where they are entered.
Joins(f, s) ==
    \A i \in 1..Len(s) : f[s[i]] = IF i = Len(s) THEN Nil ELSE s[i + 1]
First(s) == IF Len(s) = 0 THEN Nil ELSE s[1]

\* w is a walk of N steps along f; it reads s and then Nil.
IsWalk(w, N, f, id) == w[0] = id /\ \A n \in 1..N : w[n] = f[w[n - 1]]
Reads(w, N, s) == \A n \in 0..N : w[n] = IF n < Len(s) THEN s[n + 1] ELSE Nil

\* A walk along links that join the ops of s reads s.
LEMMA WalkReads ==
    ASSUME NEW N \in Nat, NEW s \in Seq(Id), NEW f, NEW w,
           IsWalk(w, N, f, First(s)), Joins(f, s), f[Nil] = Nil
    PROVE  Reads(w, N, s)
<1> USE DEF IsWalk, Joins, First
<1> SUFFICES \A n \in 0..N : w[n] = IF n < Len(s) THEN s[n + 1] ELSE Nil
  BY DEF Reads
<1> DEFINE T == {n \in Nat : n <= N /\ w[n] # IF n < Len(s) THEN s[n + 1] ELSE Nil}
<1>1. ASSUME T # {} PROVE FALSE
  <2>1. T \in SUBSET Nat
    OBVIOUS
  <2>2. PICK n \in T : \A m \in T : n <= m
    BY <1>1, <2>1, NatMin, Zenon
  <2>3. n \in 0..N /\ w[n] # IF n < Len(s) THEN s[n + 1] ELSE Nil
    OBVIOUS
  <2>4. n # 0
    BY <2>3
  <2>5. n - 1 \in 0..N /\ n \in 1..N
    BY <2>3, <2>4
  <2>6. n - 1 \notin T
    <3> HIDE DEF T
    <3>1. n \in Nat
      BY <2>3
    <3>2. QED
      BY <2>2, <3>1
  <2>7. w[n - 1] = IF n - 1 < Len(s) THEN s[n] ELSE Nil
    BY <2>5, <2>6
  <2>8. w[n] = f[w[n - 1]]
    BY <2>5
  <2>9. CASE n - 1 < Len(s)
    BY <2>3, <2>5, <2>7, <2>8, <2>9
  <2>10. CASE ~(n - 1 < Len(s))
    BY <2>3, <2>5, <2>7, <2>8, <2>10
  <2>11. QED
    BY <2>9, <2>10
<1>2. QED
  BY <1>1

\* Following links that join the ops of s in order reads s: the walk neither
\* stops early nor goes on.
LEMMA FollowSpells ==
    ASSUME NEW link \in [Id -> Id \cup {Nil}], NEW s \in Seq(Id), Distinct(s),
           Joins(link, s)
    PROVE  Follow(link, First(s)) = s
<1> DEFINE id == First(s)
           N == Cardinality(Id)
           step == [i \in Id \cup {Nil} |-> IF i = Nil THEN Nil ELSE link[i]]
           w[n \in 0..N] == IF n = 0 THEN id ELSE step[w[n - 1]]
           g == [n \in 0..N |-> IF n < Len(s) THEN s[n + 1] ELSE Nil]
           stop(k) == /\ \A n \in 0..k - 1 : w[n] # Nil
                      /\ k <= N => w[k] = Nil
           len == CHOOSE k \in 0..N + 1 : stop(k)
<1>1. N \in Nat /\ Len(s) \in Nat /\ Len(s) <= N
  BY DistinctBound, FS_CardinalityType, BankAssumption
<1>2. \A i \in 1..Len(s) : s[i] \in Id /\ s[i] # Nil
  BY BankAssumption
<1>3. \A n \in 1..N : g[n] = step[g[n - 1]]
  <2> SUFFICES ASSUME NEW n \in 1..N PROVE g[n] = step[g[n - 1]]
    OBVIOUS
  <2>1. n \in 0..N /\ n - 1 \in 0..N
    BY <1>1
  <2>2. CASE n - 1 < Len(s)
    <3>1. n \in 1..Len(s)
      BY <1>1, <2>2
    <3>2. step[s[n]] = IF n = Len(s) THEN Nil ELSE s[n + 1]
      BY <3>1, <1>2 DEF Joins
    <3>3. QED
      BY <1>1, <2>1, <2>2, <3>1, <3>2
  <2>3. CASE ~(n - 1 < Len(s))
    BY <1>1, <2>1, <2>3
  <2>4. QED
    BY <2>2, <2>3
<1>4. g[0] = id /\ g = [n \in 0..N |-> g[n]]
  BY <1>1 DEF First
<1>5. g = [n \in 0..N |-> IF n = 0 THEN id ELSE step[g[n - 1]]]
  <2> HIDE DEF g, step, N, id
  <2>1. \A n \in 0..N : n # 0 => n \in 1..N
    BY <1>1
  <2>2. \A n \in 0..N : g[n] = IF n = 0 THEN id ELSE step[g[n - 1]]
    BY <1>3, <1>4, <2>1, Zenon
  <2>3. QED
    BY <1>4, <2>2, Zenon
<1>6. w = [n \in 0..N |-> IF n = 0 THEN id ELSE step[w[n - 1]]]
  <2> HIDE DEF g, step, N, id
  <2>1. QED
    BY <1>5, Zenon
<1>7. \A n \in 0..N : w[n] = IF n = 0 THEN id ELSE step[w[n - 1]]
  <2> HIDE DEF w, step, N, id
  <2>1. QED
    BY <1>6, Zenon
<1>8. Reads(w, N, s)
  <2>1. Joins(step, s)
    BY <1>2 DEF Joins
  <2>2. step[Nil] = Nil
    OBVIOUS
  <2> HIDE DEF w, step, N, id
  <2>3. IsWalk(w, N, step, id)
    BY <1>1, <1>7 DEF IsWalk
  <2>4. IsWalk(w, N, step, First(s))
    BY <2>3 DEF id
  <2>5. N \in Nat
    BY <1>1
  <2>6. QED
    BY <2>1, <2>2, <2>4, <2>5, WalkReads, Zenon
<1> HIDE DEF w, N, id
<1>9. \A k \in 0..N + 1 : stop(k) <=> k = Len(s)
  <2> SUFFICES ASSUME NEW k \in 0..N + 1 PROVE stop(k) <=> k = Len(s)
    OBVIOUS
  <2>1. \A n \in 0..Len(s) - 1 : n \in 0..N /\ n + 1 \in 1..Len(s) /\ w[n] # Nil
    BY <1>1, <1>2, <1>8 DEF Reads
  <2>2. w[Len(s)] = Nil
    BY <1>1, <1>8 DEF Reads
  <2>3. CASE k < Len(s)
    BY <1>1, <2>1, <2>3
  <2>4. CASE k > Len(s)
    BY <1>1, <2>2, <2>4
  <2>5. CASE k = Len(s)
    BY <1>1, <2>1, <2>2, <2>5
  <2>6. QED
    BY <1>1, <2>3, <2>4, <2>5
<1>10. len = Len(s)
  <2> HIDE DEF stop
  <2>1. Len(s) \in 0..N + 1
    BY <1>1
  <2>2. QED
    BY <1>9, <2>1
<1>11. Follow(link, id) = [n \in 1..len |-> w[n - 1]]
  BY Zenon DEF Follow, w, N, id
<1>12. [n \in 1..len |-> w[n - 1]] = s
  <2> HIDE DEF len
  <2>1. QED
    BY <1>1, <1>8, <1>10 DEF Reads
<1>13. QED
  BY <1>11, <1>12 DEF id
-----------------------------------------------------------------------------
(***************************************************************************)
(* Chains that spell lists, and what the operations of IdList do to them.  *)
(***************************************************************************)

JoinsBack(f, s) == \A i \in 1..Len(s) : f[s[i]] = IF i = 1 THEN Nil ELSE s[i - 1]
Last(s) == IF Len(s) = 0 THEN Nil ELSE s[Len(s)]
Occurs(id, s) == \E i \in 1..Len(s) : s[i] = id

\* Chain c of the links l spells the list s.
SpellsChain(l, c, s) ==
    /\ l.head[c] = First(s) /\ l.tail[c] = Last(s) /\ l.len[c] = Len(s)
    /\ Joins(l.next, s) /\ JoinsBack(l.prev, s)

\* The lists L partition the ops by their class.
Partition(chains, class, L) ==
    /\ class \in [Id -> chains \cup {Nil}] /\ Nil \notin chains
    /\ L \in [chains -> Seq(Id)]
    /\ \A c \in chains : Distinct(L[c])
    /\ \A c \in chains : \A id \in Id : class[id] = c <=> Occurs(id, L[c])

\* Every chain spells its list, and an op of no class is detached.
Spells(l, chains, class, L) ==
    /\ l \in Links(chains)
    /\ Partition(chains, class, L)
    /\ \A c \in chains : SpellsChain(l, c, L[c])
    /\ \A id \in Id : class[id] = Nil => l.prev[id] = Nil /\ l.next[id] = Nil

\* The list s with id put in after position p; without position p.
Put(s, p, id) ==
    [i \in 1..Len(s) + 1 |-> IF i <= p THEN s[i] ELSE IF i = p + 1 THEN id ELSE s[i - 1]]
Drop(s, p) == [i \in 1..Len(s) - 1 |-> IF i < p THEN s[i] ELSE s[i + 1]]

\* What t is then.
IsPut(t, s, p, id) ==
    /\ t \in Seq(Id) /\ Len(t) = Len(s) + 1
    /\ \A i \in 1..Len(s) + 1 :
           t[i] = IF i <= p THEN s[i] ELSE IF i = p + 1 THEN id ELSE s[i - 1]
IsDrop(t, s, p) ==
    /\ t \in Seq(Id) /\ Len(t) = Len(s) - 1
    /\ \A i \in 1..Len(s) - 1 : t[i] = IF i < p THEN s[i] ELSE s[i + 1]

LEMMA PutType ==
    ASSUME NEW s \in Seq(Id), NEW p \in 0..Len(s), NEW id \in Id
    PROVE  IsPut(Put(s, p, id), s, p, id)
<1> DEFINE t == Put(s, p, id)
<1>1. \A i \in 1..Len(s) + 1 :
          t[i] = IF i <= p THEN s[i] ELSE IF i = p + 1 THEN id ELSE s[i - 1]
  BY DEF Put
<1>2. \A i \in 1..Len(s) + 1 : t[i] \in Id
  <2> SUFFICES ASSUME NEW i \in 1..Len(s) + 1 PROVE t[i] \in Id
    OBVIOUS
  <2>1. CASE i <= p
    BY <1>1, <2>1
  <2>2. CASE i = p + 1
    BY <1>1, <2>2
  <2>3. CASE i > p + 1
    BY <1>1, <2>3
  <2>4. QED
    BY <2>1, <2>2, <2>3
<1>3. t \in [1..Len(s) + 1 -> Id]
  BY <1>2 DEF Put
<1>4. t \in Seq(Id) /\ Len(t) = Len(s) + 1
  <2> HIDE DEF t
  <2>1. QED
    BY <1>3
<1>5. QED
  BY <1>1, <1>4 DEF IsPut

LEMMA DropType ==
    ASSUME NEW s \in Seq(Id), NEW p \in 1..Len(s)
    PROVE  IsDrop(Drop(s, p), s, p)
<1> DEFINE t == Drop(s, p)
<1>1. \A i \in 1..Len(s) - 1 : t[i] = IF i < p THEN s[i] ELSE s[i + 1]
  BY DEF Drop
<1>2. \A i \in 1..Len(s) - 1 : t[i] \in Id
  BY <1>1
<1>3. t \in [1..Len(s) - 1 -> Id] /\ Len(s) - 1 \in Nat
  BY <1>2 DEF Drop
<1>4. t \in Seq(Id) /\ Len(t) = Len(s) - 1
  <2> HIDE DEF t
  <2>1. QED
    BY <1>3
<1>5. QED
  BY <1>1, <1>4 DEF IsDrop

\* Adding an op of no class to a list makes it of that list's class.
LEMMA PutPartition ==
    ASSUME NEW chains, NEW class, NEW L, Partition(chains, class, L),
           NEW c \in chains, NEW p \in 0..Len(L[c]), NEW id \in Id, class[id] = Nil
    PROVE  Partition(chains, [class EXCEPT ![id] = c], [L EXCEPT ![c] = Put(L[c], p, id)])
<1> DEFINE s == L[c]
           t == Put(L[c], p, id)
           class2 == [class EXCEPT ![id] = c]
           L2 == [L EXCEPT ![c] = t]
<1>1. s \in Seq(Id) /\ Distinct(s) /\ ~Occurs(id, s)
  BY DEF Partition
<1>2. IsPut(t, s, p, id)
  BY <1>1, PutType, Zenon
<1>3. /\ class2 \in [Id -> chains \cup {Nil}] /\ L2 \in [chains -> Seq(Id)]
      /\ class2[id] = c /\ \A x \in Id \ {id} : class2[x] = class[x]
      /\ L2[c] = t /\ \A d \in chains \ {c} : L2[d] = L[d]
  <2>1. class \in [Id -> chains \cup {Nil}] /\ L \in [chains -> Seq(Id)]
    BY DEF Partition
  <2> HIDE DEF t
  <2>2. QED
    BY <1>2, <2>1 DEF IsPut
<1> HIDE DEF s, t, class2, L2
<1>4. p \in 0..Len(s) /\ Len(s) \in Nat
  BY <1>1 DEF s
<1>5. /\ p + 1 \in 1..Len(t) /\ t[p + 1] = id
      /\ \A i \in 1..Len(t) : i <= p => i \in 1..Len(s) /\ t[i] = s[i]
      /\ \A i \in 1..Len(t) : i > p + 1 => i - 1 \in 1..Len(s) /\ t[i] = s[i - 1]
  BY <1>2, <1>4 DEF IsPut
<1>6. Distinct(t)
  <2> SUFFICES ASSUME NEW i \in 1..Len(t), NEW j \in 1..Len(t), t[i] = t[j], i < j
               PROVE  FALSE
    BY <1>2 DEF Distinct, IsPut
  <2>1. \A k \in 1..Len(s) : s[k] # id
    BY <1>1 DEF Occurs
  <2>2. \A k, m \in 1..Len(s) : s[k] = s[m] => k = m
    BY <1>1 DEF Distinct
  <2>3. CASE i = p + 1 \/ j = p + 1
    <3>1. CASE i = p + 1
      BY <1>4, <1>5, <2>1, <3>1
    <3>2. CASE j = p + 1
      BY <1>4, <1>5, <2>1, <3>2
    <3>3. QED
      BY <2>3, <3>1, <3>2
  <2>4. CASE j <= p
    BY <1>4, <1>5, <2>2, <2>4
  <2>5. CASE i > p + 1
    BY <1>4, <1>5, <2>2, <2>5
  <2>6. CASE i <= p /\ j > p + 1
    BY <1>4, <1>5, <2>2, <2>6
  <2>7. QED
    BY <1>2, <1>4, <2>3, <2>4, <2>5, <2>6 DEF IsPut
<1>7. Occurs(id, t)
  BY <1>5 DEF Occurs
<1>8. \A x \in Id \ {id} : Occurs(x, t) <=> Occurs(x, s)
  <2> SUFFICES ASSUME NEW x \in Id \ {id} PROVE Occurs(x, t) <=> Occurs(x, s)
    OBVIOUS
  <2>1. ASSUME NEW i \in 1..Len(t), t[i] = x PROVE Occurs(x, s)
    <3>1. CASE i <= p
      BY <1>4, <1>5, <2>1, <3>1 DEF Occurs
    <3>2. CASE i > p
      <4>1. i - 1 \in 1..Len(s) /\ s[i - 1] = x
        BY <1>4, <1>5, <2>1, <3>2
      <4>2. QED
        BY <4>1 DEF Occurs
    <3>3. QED
      BY <1>2, <1>4, <3>1, <3>2 DEF IsPut
  <2>2. ASSUME NEW i \in 1..Len(s), s[i] = x PROVE Occurs(x, t)
    <3>1. CASE i <= p
      BY <1>1, <1>2, <2>2, <3>1 DEF Occurs, IsPut
    <3>2. CASE i > p
      <4>1. i + 1 \in 1..Len(t) /\ t[i + 1] = x
        BY <1>1, <1>2, <2>2, <3>2 DEF IsPut
      <4>2. QED
        BY <4>1 DEF Occurs
    <3>3. QED
      BY <1>1, <3>1, <3>2
  <2>3. QED
    BY <2>1, <2>2 DEF Occurs
<1>9. \A d \in chains : \A x \in Id : class2[x] = d <=> Occurs(x, L2[d])
  <2> SUFFICES ASSUME NEW d \in chains, NEW x \in Id
               PROVE  class2[x] = d <=> Occurs(x, L2[d])
    OBVIOUS
  <2>1. \A y \in Id : class[y] = d <=> Occurs(y, L[d])
    BY DEF Partition
  <2>2. Nil # d
    BY DEF Partition
  <2>3. CASE d = c
    BY <1>3, <1>7, <1>8, <2>1, <2>3 DEF s
  <2>4. CASE d # c
    BY <1>3, <2>1, <2>2, <2>4
  <2>5. QED
    BY <2>3, <2>4
<1>10. \A d \in chains : Distinct(L2[d])
  BY <1>3, <1>6 DEF Partition
<1>11. Partition(chains, class2, L2)
  BY <1>3, <1>9, <1>10 DEF Partition
<1>12. QED
  BY <1>11 DEF class2, L2, t

\* Taking an op out of its list leaves it without a class.
LEMMA DropPartition ==
    ASSUME NEW chains, NEW class, NEW L, Partition(chains, class, L),
           NEW c \in chains, NEW p \in 1..Len(L[c]), NEW id, id = L[c][p]
    PROVE  Partition(chains, [class EXCEPT ![id] = Nil], [L EXCEPT ![c] = Drop(L[c], p)])
<1> DEFINE s == L[c]
           t == Drop(L[c], p)
           class2 == [class EXCEPT ![id] = Nil]
           L2 == [L EXCEPT ![c] = t]
<1>1. s \in Seq(Id) /\ Distinct(s) /\ id \in Id
  BY DEF Partition
<1>2. IsDrop(t, s, p)
  BY <1>1, DropType, Zenon
<1>3. /\ class2 \in [Id -> chains \cup {Nil}] /\ L2 \in [chains -> Seq(Id)]
      /\ class2[id] = Nil /\ \A x \in Id \ {id} : class2[x] = class[x]
      /\ L2[c] = t /\ \A d \in chains \ {c} : L2[d] = L[d]
  <2>1. class \in [Id -> chains \cup {Nil}] /\ L \in [chains -> Seq(Id)]
    BY DEF Partition
  <2> HIDE DEF t
  <2>2. QED
    BY <1>1, <1>2, <2>1 DEF IsDrop
<1> HIDE DEF s, t, class2, L2
<1>4. p \in 1..Len(s) /\ Len(s) \in Nat /\ s[p] = id
  BY <1>1 DEF s
<1>5. /\ \A i \in 1..Len(t) : i < p => i \in 1..Len(s) /\ t[i] = s[i]
      /\ \A i \in 1..Len(t) : i >= p => i + 1 \in 1..Len(s) /\ t[i] = s[i + 1]
  BY <1>2, <1>4 DEF IsDrop
<1>6. \A k, m \in 1..Len(s) : s[k] = s[m] => k = m
  BY <1>1 DEF Distinct
<1>7. Distinct(t)
  <2> SUFFICES ASSUME NEW i \in 1..Len(t), NEW j \in 1..Len(t), t[i] = t[j], i < j
               PROVE  FALSE
    BY <1>2 DEF Distinct, IsDrop
  <2>1. CASE j < p
    BY <1>4, <1>5, <1>6, <2>1
  <2>2. CASE i >= p
    BY <1>4, <1>5, <1>6, <2>2
  <2>3. CASE i < p /\ j >= p
    BY <1>4, <1>5, <1>6, <2>3
  <2>4. QED
    BY <1>2, <1>4, <2>1, <2>2, <2>3 DEF IsDrop
<1>8. ~Occurs(id, t)
  <2> SUFFICES ASSUME NEW i \in 1..Len(t), t[i] = id PROVE FALSE
    BY DEF Occurs
  <2>1. CASE i < p
    BY <1>4, <1>5, <1>6, <2>1
  <2>2. CASE i >= p
    BY <1>4, <1>5, <1>6, <2>2
  <2>3. QED
    BY <1>2, <1>4, <2>1, <2>2 DEF IsDrop
<1>9. \A x \in Id \ {id} : Occurs(x, t) <=> Occurs(x, s)
  <2> SUFFICES ASSUME NEW x \in Id \ {id} PROVE Occurs(x, t) <=> Occurs(x, s)
    OBVIOUS
  <2>1. ASSUME NEW i \in 1..Len(t), t[i] = x PROVE Occurs(x, s)
    <3>1. CASE i < p
      BY <1>5, <2>1, <3>1 DEF Occurs
    <3>2. CASE i >= p
      BY <1>5, <2>1, <3>2 DEF Occurs
    <3>3. QED
      BY <1>2, <1>4, <3>1, <3>2 DEF IsDrop
  <2>2. ASSUME NEW i \in 1..Len(s), s[i] = x PROVE Occurs(x, t)
    <3>1. CASE i < p
      <4>1. i \in 1..Len(t) /\ t[i] = x
        BY <1>2, <1>4, <2>2, <3>1 DEF IsDrop
      <4>2. QED
        BY <4>1 DEF Occurs
    <3>2. CASE i > p
      <4>1. i - 1 \in 1..Len(t) /\ t[i - 1] = x
        BY <1>2, <1>4, <2>2, <3>2 DEF IsDrop
      <4>2. QED
        BY <4>1 DEF Occurs
    <3>3. i # p
      BY <1>4, <2>2
    <3>4. QED
      BY <1>4, <3>1, <3>2, <3>3
  <2>3. QED
    BY <2>1, <2>2 DEF Occurs
<1>10. \A d \in chains : \A x \in Id : class2[x] = d <=> Occurs(x, L2[d])
  <2> SUFFICES ASSUME NEW d \in chains, NEW x \in Id
               PROVE  class2[x] = d <=> Occurs(x, L2[d])
    OBVIOUS
  <2>1. /\ \A y \in Id : class[y] = d <=> Occurs(y, L[d])
        /\ class[id] = c <=> Occurs(id, L[c])
    BY <1>1 DEF Partition
  <2>2. Nil # d /\ Occurs(id, L[c])
    BY <1>4 DEF Partition, Occurs, s
  <2>3. CASE d = c
    BY <1>3, <1>8, <1>9, <2>1, <2>2, <2>3 DEF s
  <2>4. CASE d # c
    BY <1>3, <2>1, <2>2, <2>4
  <2>5. QED
    BY <2>3, <2>4
<1>11. \A d \in chains : Distinct(L2[d])
  BY <1>3, <1>7 DEF Partition
<1>12. Partition(chains, class2, L2)
  BY <1>3, <1>10, <1>11 DEF Partition
<1>13. QED
  BY <1>12 DEF class2, L2, t

\* The op before position p + 1 of s and the one after position p; Nil
\* beyond the ends.
Before(s, p) == IF p = 0 THEN Nil ELSE s[p]
Behind(s, p) == IF p = Len(s) THEN Nil ELSE s[p + 1]

\* insert_after makes the chain spell the longer list.
LEMMA InsertChain ==
    ASSUME NEW chains, NEW l \in Links(chains), NEW c \in chains,
           NEW s \in Seq(Id), Distinct(s), SpellsChain(l, c, s),
           NEW p \in 0..Len(s), NEW id \in Id, ~Occurs(id, s)
    PROVE  SpellsChain(InsertAfter(l, c, Before(s, p), id), c, Put(s, p, id))
<1> DEFINE pos == Before(s, p)
           nxt == Behind(s, p)
           new == InsertAfter(l, c, pos, id)
           t == Put(s, p, id)
<1>1. IsPut(t, s, p, id)
  BY PutType, Zenon
<1>2. nxt = IF pos = Nil THEN l.head[c] ELSE l.next[pos]
  <2>1. CASE p = 0
    BY <2>1 DEF SpellsChain, First, Before, Behind
  <2>2. CASE p # 0
    BY <2>2, BankAssumption DEF SpellsChain, Joins, Before, Behind
  <2>3. QED
    BY <2>1, <2>2
<1>3. /\ new.prev = [i \in Id |-> IF i = nxt THEN id ELSE IF i = id THEN pos
                                  ELSE l.prev[i]]
      /\ new.next = [i \in Id |-> IF i = pos THEN id ELSE IF i = id THEN nxt
                                  ELSE l.next[i]]
      /\ new.head = IF pos = Nil THEN [l.head EXCEPT ![c] = id] ELSE l.head
      /\ new.tail = IF nxt = Nil THEN [l.tail EXCEPT ![c] = id] ELSE l.tail
      /\ new.len = [l.len EXCEPT ![c] = @ + 1]
  <2> HIDE DEF pos, nxt
  <2>1. QED
    BY <1>2 DEF InsertAfter
<1> HIDE DEF new, t, nxt, pos
<1>4. /\ p + 1 \in 1..Len(t) /\ t[p + 1] = id /\ Len(t) = Len(s) + 1
      /\ \A i \in 1..Len(t) : i <= p => i \in 1..Len(s) /\ t[i] = s[i]
      /\ \A i \in 1..Len(t) : i > p + 1 => i - 1 \in 1..Len(s) /\ t[i] = s[i - 1]
  BY <1>1 DEF IsPut
<1>5. /\ \A i \in 1..Len(s) : s[i] \in Id /\ s[i] # id /\ s[i] # Nil
      /\ \A i, j \in 1..Len(s) : s[i] = s[j] => i = j
      /\ id # Nil
  BY BankAssumption DEF Occurs, Distinct
<1>6. /\ pos = Nil <=> p = 0
      /\ nxt = Nil <=> p = Len(s)
      /\ \A i \in 1..Len(s) : s[i] = pos <=> i = p
      /\ \A i \in 1..Len(s) : s[i] = nxt <=> i = p + 1
      /\ pos # id /\ nxt # id
  BY <1>5 DEF pos, nxt, Before, Behind
<1>7. Joins(new.next, t)
  <2> SUFFICES ASSUME NEW i \in 1..Len(t)
               PROVE  new.next[t[i]] = IF i = Len(t) THEN Nil ELSE t[i + 1]
    BY DEF Joins
  <2>1. CASE i = p + 1
    <3>1. new.next[id] = nxt
      BY <1>3, <1>6
    <3>2. CASE p = Len(s)
      BY <1>4, <1>6, <2>1, <3>1, <3>2
    <3>3. CASE p < Len(s)
      BY <1>4, <2>1, <3>1, <3>3 DEF nxt, Behind
    <3>4. QED
      BY <3>2, <3>3
  <2>2. CASE i < p
    <3>1. i \in 1..Len(s) /\ t[i] = s[i] /\ t[i + 1] = s[i + 1] /\ i # Len(t)
      BY <1>4, <2>2
    <3>2. new.next[s[i]] = l.next[s[i]]
      BY <1>3, <1>5, <1>6, <2>2, <3>1
    <3>3. l.next[s[i]] = s[i + 1]
      BY <2>2, <3>1 DEF SpellsChain, Joins
    <3>4. QED
      BY <3>1, <3>2, <3>3
  <2>3. CASE i = p
    <3>1. i \in 1..Len(s) /\ t[i] = s[i] /\ t[i + 1] = id /\ i # Len(t)
      BY <1>4, <2>3
    <3>2. new.next[s[i]] = id
      BY <1>3, <1>5, <1>6, <2>3, <3>1
    <3>3. QED
      BY <3>1, <3>2
  <2>4. CASE i > p + 1
    <3>1. i - 1 \in 1..Len(s) /\ t[i] = s[i - 1]
      BY <1>4, <2>4
    <3>2. new.next[s[i - 1]] = l.next[s[i - 1]]
      BY <1>3, <1>5, <1>6, <2>4, <3>1
    <3>3. l.next[s[i - 1]] = IF i - 1 = Len(s) THEN Nil ELSE s[i]
      BY <3>1 DEF SpellsChain, Joins
    <3>4. ASSUME i # Len(t) PROVE t[i + 1] = s[i]
      <4>1. i + 1 \in 1..Len(t) /\ i + 1 > p + 1 /\ (i + 1) - 1 = i
        BY <1>4, <2>4, <3>4
      <4>2. QED
        BY <1>4, <4>1
    <3>5. i - 1 = Len(s) <=> i = Len(t)
      BY <1>4
    <3>6. QED
      BY <3>1, <3>2, <3>3, <3>4, <3>5
  <2>5. QED
    BY <1>4, <2>1, <2>2, <2>3, <2>4
<1>8. JoinsBack(new.prev, t)
  <2> SUFFICES ASSUME NEW i \in 1..Len(t)
               PROVE  new.prev[t[i]] = IF i = 1 THEN Nil ELSE t[i - 1]
    BY DEF JoinsBack
  <2>1. CASE i = p + 1
    <3>1. new.prev[id] = pos
      BY <1>3, <1>6
    <3>2. QED
      BY <1>4, <1>6, <2>1, <3>1 DEF pos, Before
  <2>2. CASE i <= p
    <3>1. i \in 1..Len(s) /\ t[i] = s[i]
      BY <1>4, <2>2
    <3>2. new.prev[s[i]] = l.prev[s[i]]
      BY <1>3, <1>5, <1>6, <2>2, <3>1
    <3>3. l.prev[s[i]] = IF i = 1 THEN Nil ELSE s[i - 1]
      BY <3>1 DEF SpellsChain, JoinsBack
    <3>4. QED
      BY <1>4, <2>2, <3>1, <3>2, <3>3
  <2>3. CASE i = p + 2
    <3>1. i - 1 \in 1..Len(s) /\ t[i] = s[i - 1] /\ t[i - 1] = id /\ i # 1
      BY <1>4, <2>3
    <3>2. new.prev[s[i - 1]] = id
      BY <1>3, <1>5, <1>6, <2>3, <3>1
    <3>3. QED
      BY <3>1, <3>2
  <2>4. CASE i > p + 2
    <3>1. i - 1 \in 1..Len(s) /\ t[i] = s[i - 1] /\ t[i - 1] = s[i - 2]
      BY <1>4, <2>4
    <3>2. new.prev[s[i - 1]] = l.prev[s[i - 1]]
      BY <1>3, <1>5, <1>6, <2>4, <3>1, SMTT(60)
    <3>3. l.prev[s[i - 1]] = s[i - 2]
      BY <2>4, <3>1 DEF SpellsChain, JoinsBack
    <3>4. QED
      BY <2>4, <3>1, <3>2, <3>3
  <2>5. QED
    BY <1>4, <2>1, <2>2, <2>3, <2>4
<1>9. new.head[c] = First(t)
  <2>1. l.head \in [chains -> Id \cup {Nil}] /\ l.head[c] = First(s)
    BY DEF Links, SpellsChain
  <2>2. CASE p = 0
    BY <1>3, <1>4, <1>6, <2>1, <2>2 DEF First
  <2>3. CASE p # 0
    BY <1>3, <1>4, <1>6, <2>1, <2>3 DEF First
  <2>4. QED
    BY <2>2, <2>3
<1>10. new.tail[c] = Last(t)
  <2>1. l.tail \in [chains -> Id \cup {Nil}] /\ l.tail[c] = Last(s)
    BY DEF Links, SpellsChain
  <2>2. CASE p = Len(s)
    BY <1>3, <1>4, <1>6, <2>1, <2>2 DEF Last
  <2>3. CASE p # Len(s)
    BY <1>3, <1>4, <1>6, <2>1, <2>3 DEF Last
  <2>4. QED
    BY <2>2, <2>3
<1>11. new.len[c] = Len(t)
  <2>1. l.len \in [chains -> Nat] /\ l.len[c] = Len(s)
    BY DEF Links, SpellsChain
  <2>2. QED
    BY <1>3, <1>4, <2>1
<1>12. SpellsChain(new, c, t)
  BY <1>7, <1>8, <1>9, <1>10, <1>11 DEF SpellsChain
<1>13. QED
  BY <1>12 DEF new, t, pos

\* A chain is left alone by what changes neither its ends nor the links of
\* its ops.
LEMMA ChainFrame ==
    ASSUME NEW l, NEW new, NEW d, NEW t \in Seq(Id), SpellsChain(l, d, t),
           \A i \in 1..Len(t) : new.next[t[i]] = l.next[t[i]] /\ new.prev[t[i]] = l.prev[t[i]],
           new.head[d] = l.head[d], new.tail[d] = l.tail[d], new.len[d] = l.len[d]
    PROVE  SpellsChain(new, d, t)
BY DEF SpellsChain, Joins, JoinsBack

\* insert_after of a detached op: one list grows, the chains of the same
\* links are left alone.
LEMMA InsertSpells ==
    ASSUME NEW chains, NEW l, NEW class, NEW L, Spells(l, chains, class, L),
           NEW c \in chains, NEW p \in 0..Len(L[c]), NEW id \in Id, class[id] = Nil
    PROVE  Spells(InsertAfter(l, c, Before(L[c], p), id), chains,
                  [class EXCEPT ![id] = c], [L EXCEPT ![c] = Put(L[c], p, id)])
<1> DEFINE s == L[c]
           pos == Before(L[c], p)
           nxt == IF pos = Nil THEN l.head[c] ELSE l.next[pos]
           new == InsertAfter(l, c, pos, id)
           class2 == [class EXCEPT ![id] = c]
           L2 == [L EXCEPT ![c] = Put(L[c], p, id)]
<1>1. /\ l \in Links(chains) /\ Partition(chains, class, L)
      /\ s \in Seq(Id) /\ Distinct(s) /\ ~Occurs(id, s) /\ SpellsChain(l, c, s)
  BY DEF Spells, Partition
<1>2. Partition(chains, class2, L2)
  BY <1>1, PutPartition, Zenon
<1>3. SpellsChain(new, c, Put(s, p, id))
  BY <1>1, InsertChain, Zenon
<1>4. /\ new.prev = [i \in Id |-> IF i = nxt THEN id ELSE IF i = id THEN pos
                                  ELSE l.prev[i]]
      /\ new.next = [i \in Id |-> IF i = pos THEN id ELSE IF i = id THEN nxt
                                  ELSE l.next[i]]
      /\ new.head = IF pos = Nil THEN [l.head EXCEPT ![c] = id] ELSE l.head
      /\ new.tail = IF nxt = Nil THEN [l.tail EXCEPT ![c] = id] ELSE l.tail
      /\ new.len = [l.len EXCEPT ![c] = @ + 1]
      /\ new = [prev |-> new.prev, next |-> new.next, head |-> new.head,
                tail |-> new.tail, len |-> new.len]
  <2> HIDE DEF pos
  <2>1. QED
    BY DEF InsertAfter
<1>5. /\ pos = Nil \/ (pos \in Id /\ Occurs(pos, s))
      /\ nxt = Nil \/ (nxt \in Id /\ Occurs(nxt, s))
  <2>1. CASE p = 0
    BY <1>1, <2>1 DEF Before, SpellsChain, First, Occurs
  <2>2. CASE p # 0
    BY <1>1, <2>2, BankAssumption DEF Before, SpellsChain, Joins, Occurs
  <2>3. QED
    BY <2>1, <2>2
<1> HIDE DEF new, class2, L2, pos, nxt, s
<1>6. new \in Links(chains)
  <2>1. /\ l.prev \in [Id -> Id \cup {Nil}] /\ l.next \in [Id -> Id \cup {Nil}]
        /\ l.head \in [chains -> Id \cup {Nil}] /\ l.tail \in [chains -> Id \cup {Nil}]
        /\ l.len \in [chains -> Nat]
    BY <1>1 DEF Links
  <2>2. pos \in Id \cup {Nil} /\ nxt \in Id \cup {Nil}
    BY <1>5
  <2>3. new.prev \in [Id -> Id \cup {Nil}] /\ new.next \in [Id -> Id \cup {Nil}]
    BY <1>4, <2>1, <2>2
  <2>4. new.head \in [chains -> Id \cup {Nil}] /\ new.tail \in [chains -> Id \cup {Nil}]
    BY <1>4, <2>1
  <2>5. new.len \in [chains -> Nat]
    BY <1>4, <2>1
  <2>6. QED
    BY <1>4, <2>3, <2>4, <2>5 DEF Links
<1>7. ASSUME NEW d \in chains, d # c PROVE SpellsChain(new, d, L[d])
  <2>1. L[d] \in Seq(Id) /\ SpellsChain(l, d, L[d])
    BY DEF Spells, Partition
  <2>2. ASSUME NEW i \in 1..Len(L[d]) PROVE L[d][i] \in Id \ {id, pos, nxt}
    <3>1. L[d][i] \in Id /\ class[L[d][i]] = d
      BY <1>1, <2>1 DEF Partition, Occurs
    <3>2. /\ d # Nil /\ class[id] # d
          /\ pos \in Id => class[pos] = c
          /\ nxt \in Id => class[nxt] = c
      BY <1>1, <1>5, BankAssumption DEF Partition, s
    <3>3. QED
      BY <1>5, <1>7, <3>1, <3>2, BankAssumption
  <2>3. \A i \in 1..Len(L[d]) : /\ new.next[L[d][i]] = l.next[L[d][i]]
                                /\ new.prev[L[d][i]] = l.prev[L[d][i]]
    BY <1>4, <2>2
  <2>4. new.head[d] = l.head[d] /\ new.tail[d] = l.tail[d] /\ new.len[d] = l.len[d]
    BY <1>1, <1>4, <1>7 DEF Links
  <2>5. QED
    BY <2>1, <2>3, <2>4, ChainFrame
<1>8. \A d \in chains : SpellsChain(new, d, L2[d])
  <2>1. L2[c] = Put(s, p, id) /\ \A d \in chains \ {c} : L2[d] = L[d]
    BY <1>1 DEF Partition, L2, s
  <2>2. QED
    BY <1>3, <1>7, <2>1
<1>9. ASSUME NEW x \in Id, class2[x] = Nil PROVE new.prev[x] = Nil /\ new.next[x] = Nil
  <2>1. x # id /\ class[x] = Nil
    BY <1>1, <1>9 DEF Partition, class2
  <2>2. l.prev[x] = Nil /\ l.next[x] = Nil
    BY <2>1 DEF Spells
  <2>3. x # pos /\ x # nxt
    BY <1>1, <1>5, <2>1, BankAssumption DEF Partition, s
  <2>4. QED
    BY <1>4, <2>1, <2>2, <2>3
<1>10. Spells(new, chains, class2, L2)
  BY <1>2, <1>6, <1>8, <1>9 DEF Spells
<1>11. QED
  BY <1>10 DEF new, class2, L2, pos

\* contains() finds every op of a chain in it.
LEMMA ContainsMember ==
    ASSUME NEW l, NEW c, NEW s \in Seq(Id), SpellsChain(l, c, s), NEW p \in 1..Len(s)
    PROVE  Contains(l, c, s[p])
<1>1. CASE p = 1
  BY <1>1 DEF SpellsChain, First, Contains
<1>2. CASE p # 1
  <2>1. l.prev[s[p]] = s[p - 1] /\ s[p - 1] \in Id
    BY <1>2 DEF SpellsChain, JoinsBack
  <2>2. QED
    BY <2>1, BankAssumption DEF Contains
<1>3. QED
  BY <1>1, <1>2

\* unlink makes the chain spell the shorter list.
LEMMA UnlinkChain ==
    ASSUME NEW chains, NEW l \in Links(chains), NEW c \in chains,
           NEW s \in Seq(Id), Distinct(s), SpellsChain(l, c, s), NEW p \in 1..Len(s)
    PROVE  SpellsChain(Unlink(l, c, s[p]), c, Drop(s, p))
<1> DEFINE id == s[p]
           pr == l.prev[id]
           nx == l.next[id]
           new == Unlink(l, c, id)
           t == Drop(s, p)
<1>1. IsDrop(t, s, p)
  BY DropType, Zenon
<1>2. /\ pr = IF p = 1 THEN Nil ELSE s[p - 1]
      /\ nx = IF p = Len(s) THEN Nil ELSE s[p + 1]
  BY DEF SpellsChain, Joins, JoinsBack
<1>3. Contains(l, c, id)
  BY ContainsMember, Zenon
<1>4. /\ new.prev = [i \in Id |-> IF i = id THEN Nil ELSE IF i = nx THEN pr ELSE l.prev[i]]
      /\ new.next = [i \in Id |-> IF i = id THEN Nil ELSE IF i = pr THEN nx ELSE l.next[i]]
      /\ new.head = IF pr = Nil THEN [l.head EXCEPT ![c] = nx] ELSE l.head
      /\ new.tail = IF nx = Nil THEN [l.tail EXCEPT ![c] = pr] ELSE l.tail
      /\ new.len = [l.len EXCEPT ![c] = @ - 1]
  <2> HIDE DEF id
  <2>1. QED
    BY <1>3 DEF Unlink
<1>5. /\ \A i \in 1..Len(s) : s[i] \in Id /\ s[i] # Nil
      /\ \A i, j \in 1..Len(s) : s[i] = s[j] => i = j
  BY BankAssumption DEF Distinct
<1>6. /\ pr = Nil <=> p = 1
      /\ nx = Nil <=> p = Len(s)
      /\ \A i \in 1..Len(s) : s[i] = pr <=> i = p - 1
      /\ \A i \in 1..Len(s) : s[i] = nx <=> i = p + 1
      /\ \A i \in 1..Len(s) : s[i] = id <=> i = p
  BY <1>2, <1>5
<1> HIDE DEF new, t, pr, nx, id
<1>7. /\ Len(t) = Len(s) - 1 /\ Len(t) \in Nat /\ Len(s) \in Nat
      /\ \A i \in 1..Len(t) : i < p => i \in 1..Len(s) /\ t[i] = s[i]
      /\ \A i \in 1..Len(t) : i >= p => i + 1 \in 1..Len(s) /\ t[i] = s[i + 1]
  BY <1>1 DEF IsDrop
<1>8. /\ \A i \in 1..Len(s) : l.next[s[i]] = IF i = Len(s) THEN Nil ELSE s[i + 1]
      /\ \A i \in 1..Len(s) : l.prev[s[i]] = IF i = 1 THEN Nil ELSE s[i - 1]
  BY DEF SpellsChain, Joins, JoinsBack
<1>9. Joins(new.next, t)
  <2> SUFFICES ASSUME NEW i \in 1..Len(t)
               PROVE  new.next[t[i]] = IF i = Len(t) THEN Nil ELSE t[i + 1]
    BY DEF Joins
  <2>1. CASE i < p - 1
    <3>1. i \in 1..Len(s) /\ t[i] = s[i] /\ i # Len(t) /\ t[i + 1] = s[i + 1]
      BY <1>7, <2>1
    <3>2. new.next[s[i]] = l.next[s[i]]
      BY <1>4, <1>5, <1>6, <2>1, <3>1
    <3>3. QED
      BY <1>7, <1>8, <2>1, <3>1, <3>2
  <2>2. CASE i = p - 1
    <3>1. i \in 1..Len(s) /\ t[i] = s[i]
      BY <1>7, <2>2
    <3>2. new.next[s[i]] = nx
      BY <1>4, <1>5, <1>6, <2>2, <3>1
    <3>3. CASE p = Len(s)
      BY <1>2, <1>7, <2>2, <3>1, <3>2, <3>3 DEF nx
    <3>4. CASE p # Len(s)
      <4>1. i + 1 \in 1..Len(t) /\ i + 1 >= p /\ i + 1 = p
        BY <1>7, <2>2, <3>4
      <4>2. t[p] = s[p + 1]
        BY <1>7, <4>1
      <4>3. QED
        BY <1>2, <1>7, <2>2, <3>1, <3>2, <3>4, <4>1, <4>2 DEF nx
    <3>5. QED
      BY <3>3, <3>4
  <2>3. CASE i >= p
    <3>1. i + 1 \in 1..Len(s) /\ t[i] = s[i + 1]
      BY <1>7, <2>3
    <3>2. new.next[s[i + 1]] = l.next[s[i + 1]]
      BY <1>4, <1>5, <1>6, <2>3, <3>1
    <3>3. l.next[s[i + 1]] = IF i + 1 = Len(s) THEN Nil ELSE s[i + 2]
      BY <1>8, <3>1
    <3>4. i + 1 = Len(s) <=> i = Len(t)
      BY <1>7
    <3>5. ASSUME i # Len(t) PROVE t[i + 1] = s[i + 2]
      <4>1. i + 1 \in 1..Len(t) /\ i + 1 >= p /\ (i + 1) + 1 = i + 2
        BY <1>7, <2>3, <3>5
      <4>2. QED
        BY <1>7, <4>1
    <3>6. QED
      BY <3>1, <3>2, <3>3, <3>4, <3>5
  <2>4. QED
    BY <1>7, <2>1, <2>2, <2>3
<1>10. JoinsBack(new.prev, t)
  <2> SUFFICES ASSUME NEW i \in 1..Len(t)
               PROVE  new.prev[t[i]] = IF i = 1 THEN Nil ELSE t[i - 1]
    BY DEF JoinsBack
  <2>1. CASE i < p
    <3>1. i \in 1..Len(s) /\ t[i] = s[i] /\ (i # 1 => t[i - 1] = s[i - 1])
      BY <1>7, <2>1
    <3>2. new.prev[s[i]] = l.prev[s[i]]
      BY <1>4, <1>5, <1>6, <2>1, <3>1
    <3>3. QED
      BY <1>8, <3>1, <3>2
  <2>2. CASE i = p
    <3>1. i + 1 \in 1..Len(s) /\ t[i] = s[i + 1]
      BY <1>7, <2>2
    <3>2. new.prev[s[i + 1]] = pr
      BY <1>4, <1>5, <1>6, <2>2, <3>1
    <3>3. CASE p = 1
      BY <1>2, <2>2, <3>1, <3>2, <3>3 DEF pr
    <3>4. CASE p # 1
      <4>1. t[i - 1] = s[p - 1]
        BY <1>7, <2>2, <3>4
      <4>2. QED
        BY <1>2, <2>2, <3>1, <3>2, <3>4, <4>1 DEF pr
    <3>5. QED
      BY <3>3, <3>4
  <2>3. CASE i > p
    <3>1. i + 1 \in 1..Len(s) /\ t[i] = s[i + 1] /\ i # 1
      BY <1>7, <2>3
    <3>2. new.prev[s[i + 1]] = l.prev[s[i + 1]]
      BY <1>4, <1>5, <1>6, <2>3, <3>1
    <3>3. l.prev[s[i + 1]] = s[i]
      <4>1. (i + 1) - 1 = i /\ i + 1 # 1
        BY <2>3
      <4>2. QED
        BY <1>8, <3>1, <4>1
    <3>4. t[i - 1] = s[i]
      <4>1. i - 1 \in 1..Len(t) /\ i - 1 >= p /\ (i - 1) + 1 = i
        BY <1>7, <2>3
      <4>2. QED
        BY <1>7, <4>1
    <3>5. QED
      BY <3>1, <3>2, <3>3, <3>4
  <2>4. QED
    BY <1>7, <2>1, <2>2, <2>3
<1>11. new.head[c] = First(t)
  <2>1. l.head \in [chains -> Id \cup {Nil}] /\ l.head[c] = First(s)
    BY DEF Links, SpellsChain
  <2>2. CASE p = 1
    <3>1. new.head[c] = nx
      BY <1>4, <1>6, <2>1, <2>2
    <3>2. QED
      BY <1>2, <1>7, <2>2, <3>1 DEF First, nx
  <2>3. CASE p # 1
    <3>1. new.head[c] = s[1]
      BY <1>4, <1>6, <2>1, <2>3 DEF First
    <3>2. 1 \in 1..Len(t) /\ 1 < p
      BY <1>7, <2>3
    <3>3. t[1] = s[1] /\ Len(t) # 0
      BY <1>7, <3>2
    <3>4. QED
      BY <3>1, <3>3 DEF First
  <2>4. QED
    BY <2>2, <2>3
<1>12. new.tail[c] = Last(t)
  <2>1. l.tail \in [chains -> Id \cup {Nil}] /\ l.tail[c] = Last(s)
    BY DEF Links, SpellsChain
  <2>2. CASE p = Len(s)
    <3>1. new.tail[c] = pr
      BY <1>4, <1>6, <2>1, <2>2
    <3>2. QED
      BY <1>2, <1>7, <2>2, <3>1 DEF Last, pr
  <2>3. CASE p # Len(s)
    BY <1>4, <1>6, <1>7, <2>1, <2>3 DEF Last
  <2>4. QED
    BY <2>2, <2>3
<1>13. new.len[c] = Len(t)
  <2>1. l.len \in [chains -> Nat] /\ l.len[c] = Len(s)
    BY DEF Links, SpellsChain
  <2>2. QED
    BY <1>4, <1>7, <2>1
<1>14. SpellsChain(new, c, t)
  BY <1>9, <1>10, <1>11, <1>12, <1>13 DEF SpellsChain
<1>15. QED
  BY <1>14 DEF new, t, id

\* unlink of an op of the chain: one list shrinks, the other chains of the
\* same links are left alone.
LEMMA UnlinkSpells ==
    ASSUME NEW chains, NEW l, NEW class, NEW L, Spells(l, chains, class, L),
           NEW c \in chains, NEW p \in 1..Len(L[c]), NEW id, id = L[c][p]
    PROVE  Spells(Unlink(l, c, id), chains,
                  [class EXCEPT ![id] = Nil], [L EXCEPT ![c] = Drop(L[c], p)])
<1> DEFINE s == L[c]
           pr == l.prev[id]
           nx == l.next[id]
           new == Unlink(l, c, id)
           class2 == [class EXCEPT ![id] = Nil]
           L2 == [L EXCEPT ![c] = Drop(L[c], p)]
<1>1. /\ l \in Links(chains) /\ Partition(chains, class, L)
      /\ s \in Seq(Id) /\ Distinct(s) /\ SpellsChain(l, c, s) /\ id \in Id
  BY DEF Spells, Partition
<1>2. Partition(chains, class2, L2)
  BY <1>1, DropPartition, Zenon
<1>3. SpellsChain(new, c, Drop(s, p))
  BY <1>1, UnlinkChain, Zenon
<1>4. Contains(l, c, id)
  BY <1>1, ContainsMember, Zenon
<1>5. /\ new.prev = [i \in Id |-> IF i = id THEN Nil ELSE IF i = nx THEN pr ELSE l.prev[i]]
      /\ new.next = [i \in Id |-> IF i = id THEN Nil ELSE IF i = pr THEN nx ELSE l.next[i]]
      /\ new.head = IF pr = Nil THEN [l.head EXCEPT ![c] = nx] ELSE l.head
      /\ new.tail = IF nx = Nil THEN [l.tail EXCEPT ![c] = pr] ELSE l.tail
      /\ new.len = [l.len EXCEPT ![c] = @ - 1]
      /\ new = [prev |-> new.prev, next |-> new.next, head |-> new.head,
                tail |-> new.tail, len |-> new.len]
  BY <1>4 DEF Unlink
<1>6. /\ pr = Nil \/ (pr \in Id /\ Occurs(pr, s))
      /\ nx = Nil \/ (nx \in Id /\ Occurs(nx, s))
      /\ Occurs(id, s) /\ l.len[c] = Len(s) /\ Len(s) >= 1
  <2>1. p \in 1..Len(s) /\ s[p] = id
    OBVIOUS
  <2> HIDE DEF s
  <2>2. /\ nx = IF p = Len(s) THEN Nil ELSE s[p + 1]
        /\ pr = IF p = 1 THEN Nil ELSE s[p - 1]
        /\ l.len[c] = Len(s)
    BY <1>1, <2>1 DEF SpellsChain, Joins, JoinsBack
  <2> HIDE DEF pr, nx
  <2>3. pr = Nil \/ (pr \in Id /\ Occurs(pr, s))
    BY <1>1, <2>1, <2>2 DEF Occurs
  <2>4. nx = Nil \/ (nx \in Id /\ Occurs(nx, s))
    BY <1>1, <2>1, <2>2 DEF Occurs
  <2>5. Occurs(id, s) /\ Len(s) >= 1
    BY <1>1, <2>1 DEF Occurs
  <2>6. QED
    BY <2>2, <2>3, <2>4, <2>5
<1> HIDE DEF new, class2, L2, s, pr, nx
<1>7. new \in Links(chains)
  <2>1. /\ l.prev \in [Id -> Id \cup {Nil}] /\ l.next \in [Id -> Id \cup {Nil}]
        /\ l.head \in [chains -> Id \cup {Nil}] /\ l.tail \in [chains -> Id \cup {Nil}]
        /\ l.len \in [chains -> Nat]
    BY <1>1 DEF Links
  <2>2. pr \in Id \cup {Nil} /\ nx \in Id \cup {Nil}
    BY <1>6
  <2>3. new.prev \in [Id -> Id \cup {Nil}] /\ new.next \in [Id -> Id \cup {Nil}]
    BY <1>5, <2>1, <2>2
  <2>4. new.head \in [chains -> Id \cup {Nil}] /\ new.tail \in [chains -> Id \cup {Nil}]
    BY <1>5, <2>1, <2>2
  <2>5. new.len \in [chains -> Nat]
    <3>1. l.len[c] - 1 \in Nat
      BY <1>1, <1>6, <2>1
    <3>2. QED
      BY <1>5, <2>1, <3>1
  <2>6. QED
    BY <1>5, <2>3, <2>4, <2>5 DEF Links
<1>8. ASSUME NEW d \in chains, d # c PROVE SpellsChain(new, d, L[d])
  <2>1. L[d] \in Seq(Id) /\ SpellsChain(l, d, L[d])
    BY DEF Spells, Partition
  <2>2. ASSUME NEW i \in 1..Len(L[d]) PROVE L[d][i] \in Id \ {id, pr, nx}
    <3>1. L[d][i] \in Id /\ class[L[d][i]] = d
      BY <1>1, <2>1 DEF Partition, Occurs
    <3>2. /\ class[id] = c
          /\ pr \in Id => class[pr] = c
          /\ nx \in Id => class[nx] = c
      BY <1>1, <1>6, BankAssumption DEF Partition, s
    <3>3. QED
      BY <1>6, <1>8, <3>1, <3>2, BankAssumption
  <2>3. \A i \in 1..Len(L[d]) : /\ new.next[L[d][i]] = l.next[L[d][i]]
                                /\ new.prev[L[d][i]] = l.prev[L[d][i]]
    BY <1>5, <2>2
  <2>4. new.head[d] = l.head[d] /\ new.tail[d] = l.tail[d] /\ new.len[d] = l.len[d]
    BY <1>1, <1>5, <1>8 DEF Links
  <2>5. QED
    BY <2>1, <2>3, <2>4, ChainFrame
<1>9. \A d \in chains : SpellsChain(new, d, L2[d])
  <2>1. L2[c] = Drop(s, p) /\ \A d \in chains \ {c} : L2[d] = L[d]
    BY <1>1 DEF Partition, L2, s
  <2>2. QED
    BY <1>3, <1>8, <2>1
<1>10. ASSUME NEW x \in Id, class2[x] = Nil PROVE new.prev[x] = Nil /\ new.next[x] = Nil
  <2>1. CASE x = id
    BY <1>5, <2>1
  <2>2. CASE x # id
    <3>1. class[x] = Nil
      BY <1>1, <1>10, <2>2 DEF Partition, class2
    <3>2. l.prev[x] = Nil /\ l.next[x] = Nil
      BY <3>1 DEF Spells
    <3>3. x # pr /\ x # nx
      BY <1>1, <1>6, <3>1, BankAssumption DEF Partition, s
    <3>4. QED
      BY <1>5, <2>2, <3>2, <3>3
  <2>3. QED
    BY <2>1, <2>2
<1>11. Spells(new, chains, class2, L2)
  BY <1>2, <1>7, <1>9, <1>10 DEF Spells
<1>12. QED
  BY <1>11 DEF new, class2, L2
-----------------------------------------------------------------------------
(***************************************************************************)
(* splice_after exchanges two neighbouring runs of a chain: the run moved  *)
(* and the ops between it and where it goes.                               *)
(***************************************************************************)

\* The list s with its runs x..y and y + 1..z exchanged.
Swap(s, x, y, z) ==
    [i \in 1..Len(s) |->
        IF i < x \/ i > z THEN s[i]
        ELSE IF i < x + (z - y) THEN s[i + (y - x + 1)] ELSE s[i - (z - y)]]

IsSwap(t, s, x, y, z) ==
    /\ t \in Seq(Id) /\ Len(t) = Len(s)
    /\ \A i \in 1..Len(s) : i < x \/ i > z => t[i] = s[i]
    /\ \A i \in 1..Len(s) : x <= i /\ i < x + (z - y) =>
           i + (y - x + 1) \in y + 1..z /\ t[i] = s[i + (y - x + 1)]
    /\ \A i \in 1..Len(s) : x + (z - y) <= i /\ i <= z =>
           i - (z - y) \in x..y /\ t[i] = s[i - (z - y)]

\* Two runs of s next to each other.
Runs(s, x, y, z) == x \in 1..Len(s) /\ y \in x..Len(s) /\ z \in y + 1..Len(s)

LEMMA SwapType ==
    ASSUME NEW s \in Seq(Id), NEW x, NEW y, NEW z, Runs(s, x, y, z)
    PROVE  IsSwap(Swap(s, x, y, z), s, x, y, z)
<1> DEFINE t == Swap(s, x, y, z)
<1>1. x \in Nat /\ y \in Nat /\ z \in Nat /\ Len(s) \in Nat
      /\ 1 <= x /\ x <= y /\ y < z /\ z <= Len(s)
  BY DEF Runs
<1>2. \A i \in 1..Len(s) :
          t[i] = IF i < x \/ i > z THEN s[i]
                 ELSE IF i < x + (z - y) THEN s[i + (y - x + 1)] ELSE s[i - (z - y)]
  BY DEF Swap
<1>3. \A i \in 1..Len(s) : x <= i /\ i < x + (z - y) => i + (y - x + 1) \in y + 1..z
  BY <1>1
<1>4. \A i \in 1..Len(s) : x + (z - y) <= i /\ i <= z => i - (z - y) \in x..y
  BY <1>1
<1>5. ASSUME NEW i \in 1..Len(s) PROVE t[i] \in Id
  <2>1. CASE i < x \/ i > z
    BY <1>2, <2>1
  <2>2. CASE x <= i /\ i <= z /\ i < x + (z - y)
    <3>1. i + (y - x + 1) \in 1..Len(s)
      BY <1>1, <1>3, <2>2
    <3>2. t[i] = s[i + (y - x + 1)]
      BY <1>1, <1>2, <2>2
    <3>3. QED
      BY <3>1, <3>2
  <2>3. CASE x <= i /\ i <= z /\ ~(i < x + (z - y))
    <3>1. i - (z - y) \in 1..Len(s)
      BY <1>1, <1>4, <2>3
    <3>2. t[i] = s[i - (z - y)]
      BY <1>1, <1>2, <2>3
    <3>3. QED
      BY <3>1, <3>2
  <2>4. QED
    BY <1>1, <2>1, <2>2, <2>3
<1>6. t \in [1..Len(s) -> Id]
  BY <1>5 DEF Swap
<1>7. t \in Seq(Id) /\ Len(t) = Len(s)
  <2> HIDE DEF t
  <2>1. QED
    BY <1>1, <1>6
<1> HIDE DEF t
<1>8. \A i \in 1..Len(s) : i < x \/ i > z => t[i] = s[i]
  BY <1>2
<1>9. \A i \in 1..Len(s) : x <= i /\ i < x + (z - y) => t[i] = s[i + (y - x + 1)]
  BY <1>1, <1>2
<1>10. \A i \in 1..Len(s) : x + (z - y) <= i /\ i <= z => t[i] = s[i - (z - y)]
  BY <1>1, <1>2
<1>11. QED
  BY <1>3, <1>4, <1>7, <1>8, <1>9, <1>10 DEF IsSwap, t

SameOps(t, s) == \A id \in Id : Occurs(id, t) <=> Occurs(id, s)

\* The op at each position of t comes from one position of s, and goes back
\* to it when the runs are exchanged again.
LEMMA SwapSame ==
    ASSUME NEW s \in Seq(Id), Distinct(s), NEW x, NEW y, NEW z, Runs(s, x, y, z),
           NEW t, IsSwap(t, s, x, y, z)
    PROVE  Distinct(t) /\ SameOps(t, s)
<1> DEFINE from(i) == IF i < x \/ i > z THEN i
                      ELSE IF i < x + (z - y) THEN i + (y - x + 1) ELSE i - (z - y)
           to(j) == IF j < x \/ j > z THEN j
                    ELSE IF j > y THEN j - (y - x + 1) ELSE j + (z - y)
<1>1. x \in Nat /\ y \in Nat /\ z \in Nat /\ Len(s) \in Nat /\ Len(t) = Len(s)
      /\ 1 <= x /\ x <= y /\ y < z /\ z <= Len(s)
  BY DEF Runs, IsSwap
<1>2. ASSUME NEW i \in 1..Len(s) PROVE from(i) \in 1..Len(s) /\ t[i] = s[from(i)]
  <2>1. CASE i < x \/ i > z
    BY <2>1 DEF IsSwap
  <2>2. CASE x <= i /\ i < x + (z - y)
    <3>1. from(i) = i + (y - x + 1)
      BY <1>1, <2>2
    <3>2. i + (y - x + 1) \in y + 1..z /\ t[i] = s[i + (y - x + 1)]
      BY <2>2 DEF IsSwap
    <3> HIDE DEF from
    <3>3. QED
      BY <1>1, <3>1, <3>2
  <2>3. CASE x + (z - y) <= i /\ i <= z
    <3>1. from(i) = i - (z - y)
      BY <1>1, <2>3
    <3>2. i - (z - y) \in x..y /\ t[i] = s[i - (z - y)]
      BY <2>3 DEF IsSwap
    <3> HIDE DEF from
    <3>3. QED
      BY <1>1, <3>1, <3>2
  <2>4. QED
    BY <1>1, <2>1, <2>2, <2>3
<1>3. \A i, j \in 1..Len(s) : from(i) = from(j) => i = j
  BY <1>1
<1>4. \A j \in 1..Len(s) : to(j) \in 1..Len(s) /\ from(to(j)) = j
  BY <1>1
<1> HIDE DEF from, to
<1>5. Distinct(t)
  BY <1>1, <1>2, <1>3 DEF Distinct
<1>6. \A id \in Id : Occurs(id, t) => Occurs(id, s)
  BY <1>1, <1>2 DEF Occurs
<1>7. ASSUME NEW id \in Id, NEW j \in 1..Len(s), s[j] = id PROVE Occurs(id, t)
  <2>1. to(j) \in 1..Len(t) /\ t[to(j)] = id
    BY <1>1, <1>2, <1>4, <1>7
  <2>2. QED
    BY <2>1 DEF Occurs
<1>8. QED
  BY <1>5, <1>6, <1>7 DEF Occurs, SameOps

\* The links new are the links l of a chain that spells s with four joints
\* changed: into the second run, between the runs and out of the first.
SwapLinks(new, l, c, s, x, y, z) ==
    /\ new.next = [i \in Id |-> IF i = Before(s, x - 1) THEN s[y + 1]
                                ELSE IF i = s[z] THEN s[x]
                                ELSE IF i = s[y] THEN Behind(s, z) ELSE l.next[i]]
    /\ new.prev = [i \in Id |-> IF i = s[y + 1] THEN Before(s, x - 1)
                                ELSE IF i = s[x] THEN s[z]
                                ELSE IF i = Behind(s, z) THEN s[y] ELSE l.prev[i]]
    /\ new.head = IF x = 1 THEN [l.head EXCEPT ![c] = s[y + 1]] ELSE l.head
    /\ new.tail = IF z = Len(s) THEN [l.tail EXCEPT ![c] = s[y]] ELSE l.tail
    /\ new.len = l.len
    /\ new = [prev |-> new.prev, next |-> new.next, head |-> new.head,
              tail |-> new.tail, len |-> new.len]

\* Which ops have a joint changed.
Joints(new, l, s, x, y, z) ==
    /\ \A j \in 1..Len(s) : j \notin {x - 1, y, z} => new.next[s[j]] = l.next[s[j]]
    /\ x # 1 => new.next[s[x - 1]] = s[y + 1]
    /\ new.next[s[z]] = s[x]
    /\ new.next[s[y]] = Behind(s, z)
    /\ \A j \in 1..Len(s) : j \notin {x, y + 1, z + 1} => new.prev[s[j]] = l.prev[s[j]]
    /\ new.prev[s[y + 1]] = Before(s, x - 1)
    /\ new.prev[s[x]] = s[z]
    /\ z # Len(s) => new.prev[s[z + 1]] = s[y]

LEMMA SwapJoints ==
    ASSUME NEW s \in Seq(Id), Distinct(s), NEW x, NEW y, NEW z, Runs(s, x, y, z),
           NEW l, NEW c, NEW new, SwapLinks(new, l, c, s, x, y, z)
    PROVE  Joints(new, l, s, x, y, z)
<1> DEFINE left == Before(s, x - 1)
           right == Behind(s, z)
<1>1. x \in Nat /\ y \in Nat /\ z \in Nat /\ Len(s) \in Nat
      /\ 1 <= x /\ x <= y /\ y < z /\ z <= Len(s)
  BY DEF Runs
<1>2. /\ \A j \in 1..Len(s) : s[j] \in Id /\ s[j] # Nil
      /\ \A i, j \in 1..Len(s) : s[i] = s[j] => i = j
  BY BankAssumption DEF Distinct
<1>3. {x, y, y + 1, z} \subseteq 1..Len(s)
  BY <1>1
<1>4. /\ \A j \in 1..Len(s) : s[j] = left <=> j = x - 1
      /\ \A j \in 1..Len(s) : s[j] = right <=> j = z + 1
  BY <1>1, <1>2 DEF Before, Behind
<1>5. /\ x # 1 => x - 1 \in 1..Len(s) /\ left = s[x - 1]
      /\ z # Len(s) => z + 1 \in 1..Len(s) /\ right = s[z + 1]
  BY <1>1 DEF Before, Behind
<1>6. /\ \A i \in Id : new.next[i] = IF i = left THEN s[y + 1] ELSE IF i = s[z] THEN s[x]
                                     ELSE IF i = s[y] THEN right ELSE l.next[i]
      /\ \A i \in Id : new.prev[i] = IF i = s[y + 1] THEN left ELSE IF i = s[x] THEN s[z]
                                     ELSE IF i = right THEN s[y] ELSE l.prev[i]
  BY DEF SwapLinks
<1> HIDE DEF left, right
<1>7. \A j \in 1..Len(s) : j \notin {x - 1, y, z} => new.next[s[j]] = l.next[s[j]]
  BY <1>2, <1>3, <1>4, <1>6, SMTT(60)
<1>8. x # 1 => new.next[s[x - 1]] = s[y + 1]
  BY <1>2, <1>4, <1>5, <1>6
<1>9. new.next[s[z]] = s[x] /\ new.next[s[y]] = right
  <2>1. s[z] # left /\ s[y] # left /\ s[y] # s[z]
    BY <1>1, <1>2, <1>3, <1>4
  <2>2. QED
    BY <1>2, <1>3, <1>6, <2>1
<1>10. \A j \in 1..Len(s) : j \notin {x, y + 1, z + 1} => new.prev[s[j]] = l.prev[s[j]]
  BY <1>2, <1>3, <1>4, <1>6, SMTT(60)
<1>11. new.prev[s[y + 1]] = left /\ new.prev[s[x]] = s[z]
  <2>1. s[x] # s[y + 1]
    BY <1>1, <1>2, <1>3
  <2>2. QED
    BY <1>2, <1>3, <1>6, <2>1
<1>12. ASSUME z # Len(s) PROVE new.prev[s[z + 1]] = s[y]
  <2>1. z + 1 \in 1..Len(s) /\ s[z + 1] = right /\ s[z + 1] # s[y + 1] /\ s[z + 1] # s[x]
    BY <1>1, <1>2, <1>3, <1>5, <1>12
  <2>2. QED
    BY <1>2, <1>6, <2>1
<1>13. QED
  BY <1>7, <1>8, <1>9, <1>10, <1>11, <1>12 DEF left, right, Joints

\* Links changed so make the chain spell the list with the runs exchanged.
LEMMA SwapChain ==
    ASSUME NEW chains, NEW l \in Links(chains), NEW c \in chains,
           NEW s \in Seq(Id), Distinct(s), SpellsChain(l, c, s),
           NEW x, NEW y, NEW z, Runs(s, x, y, z),
           NEW new, SwapLinks(new, l, c, s, x, y, z)
    PROVE  SpellsChain(new, c, Swap(s, x, y, z))
<1> DEFINE t == Swap(s, x, y, z)
           N == Len(s)
<1>1. x \in Nat /\ y \in Nat /\ z \in Nat /\ N \in Nat
      /\ 1 <= x /\ x <= y /\ y < z /\ z <= N
  BY DEF Runs
<1>2. IsSwap(t, s, x, y, z)
  BY SwapType, Zenon
<1> HIDE DEF t, N
<1>3. /\ Len(t) = N
      /\ \A i \in 1..N : i < x \/ i > z => t[i] = s[i]
      /\ \A i \in 1..N : x <= i /\ i < x + (z - y) =>
             i + (y - x + 1) \in y + 1..z /\ t[i] = s[i + (y - x + 1)]
      /\ \A i \in 1..N : x + (z - y) <= i /\ i <= z =>
             i - (z - y) \in x..y /\ t[i] = s[i - (z - y)]
  BY <1>2 DEF IsSwap, N
<1>4. /\ \A j \in 1..N : j \notin {x - 1, y, z} => new.next[s[j]] = l.next[s[j]]
      /\ x # 1 => new.next[s[x - 1]] = s[y + 1]
      /\ new.next[s[z]] = s[x]
      /\ new.next[s[y]] = Behind(s, z)
      /\ \A j \in 1..N : j \notin {x, y + 1, z + 1} => new.prev[s[j]] = l.prev[s[j]]
      /\ new.prev[s[y + 1]] = Before(s, x - 1)
      /\ new.prev[s[x]] = s[z]
      /\ z # N => new.prev[s[z + 1]] = s[y]
  <2>1. Joints(new, l, s, x, y, z)
    BY SwapJoints, Zenon
  <2>2. QED
    BY <2>1 DEF Joints, N
<1>5. /\ \A j \in 1..N : l.next[s[j]] = IF j = N THEN Nil ELSE s[j + 1]
      /\ \A j \in 1..N : l.prev[s[j]] = IF j = 1 THEN Nil ELSE s[j - 1]
  BY DEF SpellsChain, Joins, JoinsBack, N
<1>6. ASSUME NEW i \in 1..N PROVE new.next[t[i]] = IF i = N THEN Nil ELSE t[i + 1]
  <2>1. CASE i < x - 1 \/ i > z
    <3>1. t[i] = s[i] /\ (i # N => t[i + 1] = s[i + 1])
      BY <1>1, <1>3, <2>1
    <3>2. i \notin {x - 1, y, z}
      BY <1>1, <2>1
    <3>3. QED
      BY <1>4, <1>5, <3>1, <3>2
  <2>2. CASE i = x - 1
    <3>1. t[i] = s[x - 1] /\ x # 1 /\ i # N
      BY <1>1, <1>3, <2>2
    <3>2. x \in 1..N /\ x <= x /\ x < x + (z - y) /\ x + (y - x + 1) = y + 1
      BY <1>1
    <3>3. t[x] = s[y + 1]
      BY <1>3, <3>2
    <3>4. i + 1 = x
      BY <1>1, <2>2
    <3>5. QED
      BY <1>4, <3>1, <3>3, <3>4
  <2>3. CASE x <= i /\ i < x + (z - y) - 1
    <3> DEFINE j == i + (y - x + 1)
    <3>1. j \in 1..N /\ t[i] = s[j] /\ j \notin {x - 1, y, z} /\ j # N /\ i # N
      BY <1>1, <1>3, <2>3, SMTT(60)
    <3>2. i + 1 \in 1..N /\ x <= i + 1 /\ i + 1 < x + (z - y)
          /\ (i + 1) + (y - x + 1) = j + 1
      BY <1>1, <2>3
    <3>3. t[i + 1] = s[j + 1]
      BY <1>3, <3>2
    <3> HIDE DEF j
    <3>4. QED
      BY <1>4, <1>5, <3>1, <3>3
  <2>4. CASE i = x + (z - y) - 1
    <3>1. x <= i /\ i < x + (z - y) /\ i + (y - x + 1) = z /\ i # N
      BY <1>1, <2>4
    <3>2. t[i] = s[z]
      BY <1>3, <3>1
    <3>3. i + 1 \in 1..N /\ x + (z - y) <= i + 1 /\ i + 1 <= z /\ (i + 1) - (z - y) = x
      BY <1>1, <2>4
    <3>4. t[i + 1] = s[x]
      BY <1>3, <3>3
    <3>5. QED
      BY <1>4, <3>1, <3>2, <3>4
  <2>5. CASE x + (z - y) <= i /\ i < z
    <3> DEFINE j == i - (z - y)
    <3>1. j \in 1..N /\ t[i] = s[j] /\ j \notin {x - 1, y, z} /\ j # N /\ i # N
      BY <1>1, <1>3, <2>5
    <3>2. i + 1 \in 1..N /\ x + (z - y) <= i + 1 /\ i + 1 <= z
          /\ (i + 1) - (z - y) = j + 1
      BY <1>1, <2>5
    <3>3. t[i + 1] = s[j + 1]
      BY <1>3, <3>2
    <3> HIDE DEF j
    <3>4. QED
      BY <1>4, <1>5, <3>1, <3>3
  <2>6. CASE i = z
    <3>1. x + (z - y) <= i /\ i <= z /\ i - (z - y) = y
      BY <1>1, <2>6
    <3>2. t[i] = s[y] /\ (i # N => t[i + 1] = s[z + 1])
      BY <1>1, <1>3, <2>6, <3>1
    <3>3. QED
      BY <1>4, <2>6, <3>2 DEF Behind, N
  <2>7. QED
    BY <1>1, <2>1, <2>2, <2>3, <2>4, <2>5, <2>6, SMTT(60)
<1>7. ASSUME NEW i \in 1..N PROVE new.prev[t[i]] = IF i = 1 THEN Nil ELSE t[i - 1]
  <2>1. CASE i < x \/ i > z + 1
    <3>1. t[i] = s[i] /\ (i # 1 => t[i - 1] = s[i - 1])
      BY <1>1, <1>3, <2>1
    <3>2. i \notin {x, y + 1, z + 1}
      BY <1>1, <2>1
    <3>3. QED
      BY <1>4, <1>5, <3>1, <3>2
  <2>2. CASE i = x
    <3>1. x <= i /\ i < x + (z - y) /\ i + (y - x + 1) = y + 1
      BY <1>1, <2>2
    <3>2. t[i] = s[y + 1]
      BY <1>3, <3>1
    <3>3. i # 1 => t[i - 1] = s[x - 1]
      BY <1>1, <1>3, <2>2
    <3>4. QED
      BY <1>1, <1>4, <2>2, <3>2, <3>3 DEF Before
  <2>3. CASE x < i /\ i < x + (z - y)
    <3> DEFINE j == i + (y - x + 1)
    <3>1. j \in 1..N /\ t[i] = s[j] /\ j \notin {x, y + 1, z + 1} /\ j # 1 /\ i # 1
      BY <1>1, <1>3, <2>3
    <3>2. i - 1 \in 1..N /\ x <= i - 1 /\ i - 1 < x + (z - y)
          /\ (i - 1) + (y - x + 1) = j - 1
      BY <1>1, <2>3
    <3>3. t[i - 1] = s[j - 1]
      BY <1>3, <3>2
    <3> HIDE DEF j
    <3>4. QED
      BY <1>4, <1>5, <3>1, <3>3
  <2>4. CASE i = x + (z - y)
    <3>1. x + (z - y) <= i /\ i <= z /\ i - (z - y) = x /\ i # 1
      BY <1>1, <2>4
    <3>2. t[i] = s[x]
      BY <1>3, <3>1
    <3>3. i - 1 \in 1..N /\ x <= i - 1 /\ i - 1 < x + (z - y) /\ (i - 1) + (y - x + 1) = z
      BY <1>1, <2>4
    <3>4. t[i - 1] = s[z]
      BY <1>3, <3>3
    <3>5. QED
      BY <1>4, <3>1, <3>2, <3>4
  <2>5. CASE x + (z - y) < i /\ i <= z
    <3> DEFINE j == i - (z - y)
    <3>1. j \in 1..N /\ t[i] = s[j] /\ j \notin {x, y + 1, z + 1} /\ j # 1 /\ i # 1
      BY <1>1, <1>3, <2>5
    <3>2. i - 1 \in 1..N /\ x + (z - y) <= i - 1 /\ i - 1 <= z
          /\ (i - 1) - (z - y) = j - 1
      BY <1>1, <2>5
    <3>3. t[i - 1] = s[j - 1]
      BY <1>3, <3>2
    <3> HIDE DEF j
    <3>4. QED
      BY <1>4, <1>5, <3>1, <3>3
  <2>6. CASE i = z + 1
    <3>1. z \in 1..N /\ x + (z - y) <= z /\ z <= z /\ z - (z - y) = y /\ i - 1 = z
      BY <1>1, <2>6
    <3>2. t[z] = s[y]
      BY <1>3, <3>1
    <3>3. t[i] = s[z + 1] /\ z # N /\ i # 1
      BY <1>1, <1>3, <2>6
    <3>4. QED
      BY <1>4, <3>1, <3>2, <3>3
  <2>7. QED
    BY <1>1, <2>1, <2>2, <2>3, <2>4, <2>5, <2>6
<1>8. Joins(new.next, t) /\ JoinsBack(new.prev, t)
  BY <1>3, <1>6, <1>7 DEF Joins, JoinsBack
<1>9. new.head[c] = First(t)
  <2>1. l.head \in [chains -> Id \cup {Nil}] /\ l.head[c] = First(s)
    BY DEF Links, SpellsChain
  <2>2. CASE x = 1
    <3>1. 1 \in 1..N /\ x <= 1 /\ 1 < x + (z - y) /\ 1 + (y - x + 1) = y + 1
      BY <1>1, <2>2
    <3>2. t[1] = s[y + 1] /\ Len(t) # 0
      BY <1>1, <1>3, <3>1
    <3>3. new.head[c] = s[y + 1]
      BY <2>1, <2>2 DEF SwapLinks
    <3>4. QED
      BY <3>2, <3>3 DEF First
  <2>3. CASE x # 1
    <3>1. t[1] = s[1] /\ Len(t) # 0
      BY <1>1, <1>3, <2>3
    <3>2. new.head[c] = s[1]
      BY <1>1, <2>1, <2>3 DEF SwapLinks, First, N
    <3>3. QED
      BY <3>1, <3>2 DEF First
  <2>4. QED
    BY <2>2, <2>3
<1>10. new.tail[c] = Last(t)
  <2>1. l.tail \in [chains -> Id \cup {Nil}] /\ l.tail[c] = Last(s)
    BY DEF Links, SpellsChain
  <2>2. CASE z = N
    <3>1. z \in 1..N /\ x + (z - y) <= z /\ z <= z /\ z - (z - y) = y
      BY <1>1
    <3>2. t[z] = s[y] /\ Len(t) # 0
      BY <1>1, <1>3, <3>1
    <3>3. new.tail[c] = s[y]
      BY <2>1, <2>2 DEF SwapLinks, N
    <3>4. QED
      BY <1>3, <2>2, <3>2, <3>3 DEF Last
  <2>3. CASE z # N
    <3>1. t[N] = s[N] /\ Len(t) # 0
      BY <1>1, <1>3, <2>3
    <3>2. new.tail[c] = s[N]
      BY <1>1, <2>1, <2>3 DEF SwapLinks, Last, N
    <3>3. QED
      BY <1>3, <3>1, <3>2 DEF Last
  <2>4. QED
    BY <2>2, <2>3
<1>11. new.len[c] = Len(t)
  BY <1>3 DEF SwapLinks, SpellsChain, N
<1>12. QED
  BY <1>8, <1>9, <1>10, <1>11 DEF SpellsChain, t

\* The same for all the chains of these links.
LEMMA SwapSpells ==
    ASSUME NEW chains, NEW l, NEW class, NEW L, Spells(l, chains, class, L),
           NEW c \in chains, NEW x, NEW y, NEW z, Runs(L[c], x, y, z),
           NEW new, SwapLinks(new, l, c, L[c], x, y, z)
    PROVE  Spells(new, chains, class, [L EXCEPT ![c] = Swap(L[c], x, y, z)])
<1> DEFINE s == L[c]
           t == Swap(L[c], x, y, z)
           L2 == [L EXCEPT ![c] = t]
           left == Before(s, x - 1)
           right == Behind(s, z)
<1>1. /\ l \in Links(chains) /\ Partition(chains, class, L)
      /\ s \in Seq(Id) /\ Distinct(s) /\ SpellsChain(l, c, s)
      /\ L \in [chains -> Seq(Id)]
  BY DEF Spells, Partition
<1>2. SpellsChain(new, c, t)
  BY <1>1, SwapChain, Zenon
<1>3. IsSwap(t, s, x, y, z)
  BY <1>1, SwapType, Zenon
<1>4. Distinct(t) /\ SameOps(t, s)
  BY <1>1, <1>3, SwapSame, Zenon
<1>5. t \in Seq(Id)
  BY <1>3 DEF IsSwap
<1> HIDE DEF t
<1>6. L2 \in [chains -> Seq(Id)] /\ L2[c] = t /\ \A d \in chains \ {c} : L2[d] = L[d]
  BY <1>1, <1>5
<1> HIDE DEF L2
<1>7. Partition(chains, class, L2)
  BY <1>1, <1>4, <1>6 DEF Partition, SameOps
<1>8. /\ {s[x], s[y], s[y + 1], s[z]} \subseteq Id
      /\ left = Nil \/ (left \in Id /\ Occurs(left, s))
      /\ right = Nil \/ (right \in Id /\ Occurs(right, s))
      /\ Occurs(s[x], s) /\ Occurs(s[y], s) /\ Occurs(s[y + 1], s) /\ Occurs(s[z], s)
  <2>1. /\ {x, y, y + 1, z} \subseteq 1..Len(s)
        /\ x # 1 => x - 1 \in 1..Len(s)
        /\ z # Len(s) => z + 1 \in 1..Len(s)
        /\ x - 1 = 0 <=> x = 1
    BY <1>1 DEF Runs
  <2>2. \A i \in 1..Len(s) : s[i] \in Id /\ Occurs(s[i], s)
    BY <1>1 DEF Occurs
  <2> HIDE DEF s
  <2>3. QED
    BY <2>1, <2>2 DEF Before, Behind
<1>9. /\ new.next = [i \in Id |-> IF i = left THEN s[y + 1] ELSE IF i = s[z] THEN s[x]
                                  ELSE IF i = s[y] THEN right ELSE l.next[i]]
      /\ new.prev = [i \in Id |-> IF i = s[y + 1] THEN left ELSE IF i = s[x] THEN s[z]
                                  ELSE IF i = right THEN s[y] ELSE l.prev[i]]
      /\ new.head = IF x = 1 THEN [l.head EXCEPT ![c] = s[y + 1]] ELSE l.head
      /\ new.tail = IF z = Len(s) THEN [l.tail EXCEPT ![c] = s[y]] ELSE l.tail
      /\ new.len = l.len
      /\ new = [prev |-> new.prev, next |-> new.next, head |-> new.head,
                tail |-> new.tail, len |-> new.len]
  BY DEF SwapLinks
<1> HIDE DEF s, left, right
<1>10. new \in Links(chains)
  <2>1. /\ l.prev \in [Id -> Id \cup {Nil}] /\ l.next \in [Id -> Id \cup {Nil}]
        /\ l.head \in [chains -> Id \cup {Nil}] /\ l.tail \in [chains -> Id \cup {Nil}]
        /\ l.len \in [chains -> Nat]
    BY <1>1 DEF Links
  <2>2. left \in Id \cup {Nil} /\ right \in Id \cup {Nil}
    BY <1>8
  <2>3. new.prev \in [Id -> Id \cup {Nil}]
    BY <1>8, <1>9, <2>1, <2>2
  <2>4. new.next \in [Id -> Id \cup {Nil}]
    BY <1>8, <1>9, <2>1, <2>2
  <2>5. new.head \in [chains -> Id \cup {Nil}] /\ new.tail \in [chains -> Id \cup {Nil}]
    BY <1>8, <1>9, <2>1
  <2>6. QED
    BY <1>9, <2>1, <2>3, <2>4, <2>5 DEF Links
<1>11. ASSUME NEW u \in Id, class[u] # c
       PROVE  new.next[u] = l.next[u] /\ new.prev[u] = l.prev[u]
  <2>1. ~Occurs(u, s)
    BY <1>1, <1>11 DEF Partition, s
  <2>2. u \notin {left, right, s[x], s[y], s[y + 1], s[z]}
    BY <1>8, <2>1, BankAssumption
  <2>3. QED
    BY <1>9, <2>2
<1>12. ASSUME NEW d \in chains, d # c PROVE SpellsChain(new, d, L[d])
  <2>1. L[d] \in Seq(Id) /\ SpellsChain(l, d, L[d])
    BY DEF Spells, Partition
  <2>2. ASSUME NEW i \in 1..Len(L[d]) PROVE L[d][i] \in Id /\ class[L[d][i]] # c
    BY <1>1, <1>12, <2>1 DEF Partition, Occurs
  <2>3. \A i \in 1..Len(L[d]) : /\ new.next[L[d][i]] = l.next[L[d][i]]
                                /\ new.prev[L[d][i]] = l.prev[L[d][i]]
    BY <1>11, <2>2
  <2>4. new.head[d] = l.head[d] /\ new.tail[d] = l.tail[d] /\ new.len[d] = l.len[d]
    BY <1>1, <1>9, <1>12 DEF Links
  <2>5. QED
    BY <2>1, <2>3, <2>4, ChainFrame
<1>13. \A d \in chains : SpellsChain(new, d, L2[d])
  BY <1>2, <1>6, <1>12
<1>14. ASSUME NEW u \in Id, class[u] = Nil PROVE new.prev[u] = Nil /\ new.next[u] = Nil
  <2>1. class[u] # c /\ l.prev[u] = Nil /\ l.next[u] = Nil
    BY <1>1, <1>14 DEF Partition, Spells
  <2>2. QED
    BY <1>11, <2>1
<1>15. QED
  BY <1>7, <1>10, <1>13, <1>14 DEF Spells, L2, t

\* The fields of the links that splice_after leaves behind.
Spliced(new, l, c, pos, first, last) ==
    LET p == l.prev[first]
        n == l.next[last]
        m == IF pos = p THEN n ELSE l.next[pos]
        tail == IF n = Nil THEN [l.tail EXCEPT ![c] = p] ELSE l.tail
    IN  /\ new.prev = [i \in Id |-> IF i = m THEN last ELSE IF i = first THEN pos
                                    ELSE IF i = n THEN p ELSE l.prev[i]]
        /\ new.next = [i \in Id |-> IF i = pos THEN first ELSE IF i = last THEN m
                                    ELSE IF i = p THEN n ELSE l.next[i]]
        /\ new.head = IF p = Nil THEN [l.head EXCEPT ![c] = n] ELSE l.head
        /\ new.tail = IF m = Nil THEN [tail EXCEPT ![c] = last] ELSE tail
        /\ new.len = l.len
        /\ new = [prev |-> new.prev, next |-> new.next, head |-> new.head,
                  tail |-> new.tail, len |-> new.len]

LEMMA SpliceFields ==
    ASSUME NEW chains, NEW l \in Links(chains), NEW c \in chains,
           NEW pos \in Id, NEW first, NEW last, pos # last, l.next[pos] # first
    PROVE  Spliced(SpliceAfter(l, c, pos, first, last), l, c, pos, first, last)
<1> DEFINE p == l.prev[first]
           n == l.next[last]
           cut == Cut(l, c, first, last)
           new == SpliceAfter(l, c, pos, first, last)
           cm == cut.next[pos]
<1>1. l = [prev |-> l.prev, next |-> l.next, head |-> l.head, tail |-> l.tail, len |-> l.len]
  BY DEF Links
<1>2. /\ cut.prev = [i \in Id |-> IF i = n THEN p ELSE l.prev[i]]
      /\ cut.next = [i \in Id |-> IF i = p THEN n ELSE l.next[i]]
      /\ cut.head = IF p = Nil THEN [l.head EXCEPT ![c] = n] ELSE l.head
      /\ cut.tail = IF n = Nil THEN [l.tail EXCEPT ![c] = p] ELSE l.tail
      /\ cut.len = l.len
      /\ cut = [prev |-> cut.prev, next |-> cut.next, head |-> cut.head,
                tail |-> cut.tail, len |-> cut.len]
  <2>1. cut = [l EXCEPT !.prev = [i \in Id |-> IF i = n THEN p ELSE @[i]],
                         !.next = [i \in Id |-> IF i = p THEN n ELSE @[i]],
                         !.head = IF p = Nil THEN [@ EXCEPT ![c] = n] ELSE @,
                         !.tail = IF n = Nil THEN [@ EXCEPT ![c] = p] ELSE @]
    BY Zenon DEF Cut
  <2> HIDE DEF cut, p, n
  <2>2. QED
    BY <1>1, <2>1
<1> HIDE DEF cut, p, n
<1>3. /\ new.prev = [i \in Id |-> IF i = cm THEN last ELSE IF i = first THEN pos
                                  ELSE cut.prev[i]]
      /\ new.next = [i \in Id |-> IF i = pos THEN first ELSE IF i = last THEN cm
                                  ELSE cut.next[i]]
      /\ new.head = cut.head
      /\ new.tail = IF cm = Nil THEN [cut.tail EXCEPT ![c] = last] ELSE cut.tail
      /\ new.len = cut.len
      /\ new = [prev |-> new.prev, next |-> new.next, head |-> new.head,
                tail |-> new.tail, len |-> new.len]
  <2>1. new = [cut EXCEPT
                   !.prev = [i \in Id |-> IF i = cm THEN last ELSE IF i = first THEN pos
                                           ELSE @[i]],
                   !.next = [i \in Id |-> IF i = pos THEN first ELSE IF i = last THEN cm
                                           ELSE @[i]],
                   !.tail = IF cm = Nil THEN [@ EXCEPT ![c] = last] ELSE @]
    BY Zenon DEF SpliceAfter, cut
  <2> HIDE DEF new
  <2>2. QED
    BY <1>2, <2>1
<1>4. cm = IF pos = p THEN n ELSE l.next[pos]
  BY <1>2
<1> HIDE DEF new, cm
<1>5. Spliced(new, l, c, pos, first, last)
  BY <1>2, <1>3, <1>4 DEF Spliced, p, n
<1>6. QED
  BY <1>5 DEF new

\* The runs exchanged when the run a..b is put after position p, from before
\* it or from behind it.
RunX(a, b, p) == IF p > b THEN a ELSE p + 1
RunY(a, b, p) == IF p > b THEN b ELSE a - 1
RunZ(a, b, p) == IF p > b THEN p ELSE b

LEMMA SpliceSwaps ==
    ASSUME NEW chains, NEW l \in Links(chains), NEW c \in chains,
           NEW s \in Seq(Id), Distinct(s), SpellsChain(l, c, s),
           NEW a \in 1..Len(s), NEW b \in a..Len(s), NEW p \in 1..Len(s),
           p \notin a..b, p # a - 1
    PROVE  /\ Runs(s, RunX(a, b, p), RunY(a, b, p), RunZ(a, b, p))
           /\ SwapLinks(SpliceAfter(l, c, s[p], s[a], s[b]), l, c, s,
                        RunX(a, b, p), RunY(a, b, p), RunZ(a, b, p))
<1> DEFINE new == SpliceAfter(l, c, s[p], s[a], s[b])
           N == Len(s)
<1>1. a \in Nat /\ b \in Nat /\ N \in Nat /\ 1 <= a /\ a <= b /\ b <= N
      /\ p \in 1..N /\ (p > b \/ p < a - 1)
  OBVIOUS
<1> HIDE DEF N
<1>2. /\ \A i \in 1..N : s[i] \in Id /\ s[i] # Nil
      /\ \A i, j \in 1..N : s[i] = s[j] => i = j
  BY BankAssumption DEF Distinct, N
<1>3. /\ \A i \in 1..N : l.next[s[i]] = IF i = N THEN Nil ELSE s[i + 1]
      /\ \A i \in 1..N : l.prev[s[i]] = IF i = 1 THEN Nil ELSE s[i - 1]
  BY DEF SpellsChain, Joins, JoinsBack, N
<1>4. a \in 1..N /\ b \in 1..N
  BY <1>1
<1>5. s[p] # s[b] /\ l.next[s[p]] # s[a]
  <2>1. p # b /\ (p # N => p + 1 \in 1..N /\ p + 1 # a)
    BY <1>1
  <2>2. QED
    BY <1>2, <1>3, <1>4, <1>1, <2>1
<1>6. Spliced(new, l, c, s[p], s[a], s[b])
  <2>1. s[p] \in Id
    OBVIOUS
  <2>2. QED
    BY <1>5, <2>1, SpliceFields, Zenon
<1> HIDE DEF new
<1>7. CASE p > b
  <2> DEFINE pr == IF a = 1 THEN Nil ELSE s[a - 1]
             rt == IF p = N THEN Nil ELSE s[p + 1]
  <2>1. l.prev[s[a]] = pr /\ l.next[s[b]] = s[b + 1] /\ l.next[s[p]] = rt
    <3>1. b # N
      BY <1>1, <1>7
    <3>2. l.next[s[b]] = s[b + 1]
      BY <1>3, <1>4, <3>1
    <3>3. QED
      BY <1>1, <1>3, <1>4, <3>2
  <2>2. s[p] # pr /\ b + 1 \in 1..N /\ s[b + 1] # Nil
    <3>1. a # 1 => a - 1 \in 1..N /\ a - 1 # p
      BY <1>1, <1>7
    <3>2. b + 1 \in 1..N
      BY <1>1, <1>7
    <3>3. QED
      BY <1>1, <1>2, <3>1, <3>2
  <2>3. pr = Before(s, a - 1) /\ rt = Behind(s, p)
    BY <1>1 DEF Before, Behind, N
  <2>4. /\ pr = Nil <=> a = 1
        /\ rt = Nil <=> p = N
    <3>1. (a # 1 => a - 1 \in 1..N) /\ (p # N => p + 1 \in 1..N)
      BY <1>1
    <3>2. QED
      BY <1>2, <3>1
  <2> HIDE DEF pr, rt
  <2>5. /\ new.prev = [i \in Id |-> IF i = rt THEN s[b] ELSE IF i = s[a] THEN s[p]
                                    ELSE IF i = s[b + 1] THEN pr ELSE l.prev[i]]
        /\ new.next = [i \in Id |-> IF i = s[p] THEN s[a] ELSE IF i = s[b] THEN rt
                                    ELSE IF i = pr THEN s[b + 1] ELSE l.next[i]]
        /\ new.head = IF pr = Nil THEN [l.head EXCEPT ![c] = s[b + 1]] ELSE l.head
        /\ new.tail = IF rt = Nil THEN [l.tail EXCEPT ![c] = s[b]] ELSE l.tail
        /\ new.len = l.len
        /\ new = [prev |-> new.prev, next |-> new.next, head |-> new.head,
                  tail |-> new.tail, len |-> new.len]
    BY <1>6, <2>1, <2>2 DEF Spliced
  <2>6. /\ rt # s[a] /\ rt # s[b + 1] /\ s[a] # s[b + 1]
        /\ s[p] # s[b] /\ pr # s[p] /\ pr # s[b]
    <3>1. /\ a # 1 => a - 1 \in 1..N /\ a - 1 # b
          /\ p # N => p + 1 \in 1..N /\ p + 1 # a /\ p + 1 # b + 1
          /\ a # b + 1 /\ p # b
      BY <1>1, <1>7
    <3>2. QED
      BY <1>2, <1>4, <2>2, <3>1, <1>1 DEF pr, rt
  <2>7. new.prev = [i \in Id |-> IF i = s[b + 1] THEN pr ELSE IF i = s[a] THEN s[p]
                                 ELSE IF i = rt THEN s[b] ELSE l.prev[i]]
    BY <2>5, <2>6
  <2>8. new.next = [i \in Id |-> IF i = pr THEN s[b + 1] ELSE IF i = s[p] THEN s[a]
                                 ELSE IF i = s[b] THEN rt ELSE l.next[i]]
    BY <2>5, <2>6
  <2>9. SwapLinks(new, l, c, s, a, b, p)
    BY <2>3, <2>4, <2>5, <2>7, <2>8 DEF SwapLinks, N
  <2>10. Runs(s, a, b, p)
    BY <1>1, <1>7 DEF Runs, N
  <2>11. QED
    BY <1>7, <2>9, <2>10 DEF RunX, RunY, RunZ, new
<1>8. CASE p < a - 1
  <2> DEFINE rt == IF b = N THEN Nil ELSE s[b + 1]
  <2>1. l.prev[s[a]] = s[a - 1] /\ l.next[s[b]] = rt /\ l.next[s[p]] = s[p + 1]
    BY <1>1, <1>3, <1>4, <1>8
  <2>2. a - 1 \in 1..N /\ p + 1 \in 1..N /\ s[p] # s[a - 1]
    <3>1. a - 1 \in 1..N /\ p + 1 \in 1..N /\ p # a - 1
      BY <1>1, <1>8
    <3>2. QED
      BY <1>1, <1>2, <3>1
  <2>3. s[p] = Before(s, (p + 1) - 1) /\ rt = Behind(s, b) /\ (a - 1) + 1 = a
    BY <1>1, <1>8 DEF Before, Behind, N
  <2>4. /\ rt = Nil <=> b = N
        /\ s[a - 1] # Nil /\ s[p + 1] # Nil
    <3>1. b # N => b + 1 \in 1..N
      BY <1>1
    <3>2. QED
      BY <1>2, <2>2, <3>1
  <2> HIDE DEF rt
  <2>5. /\ new.prev = [i \in Id |-> IF i = s[p + 1] THEN s[b] ELSE IF i = s[a] THEN s[p]
                                    ELSE IF i = rt THEN s[a - 1] ELSE l.prev[i]]
        /\ new.next = [i \in Id |-> IF i = s[p] THEN s[a] ELSE IF i = s[b] THEN s[p + 1]
                                    ELSE IF i = s[a - 1] THEN rt ELSE l.next[i]]
        /\ new.head = l.head
        /\ new.tail = IF rt = Nil THEN [l.tail EXCEPT ![c] = s[a - 1]] ELSE l.tail
        /\ new.len = l.len
        /\ new = [prev |-> new.prev, next |-> new.next, head |-> new.head,
                  tail |-> new.tail, len |-> new.len]
    BY <1>6, <2>1, <2>2, <2>4 DEF Spliced
  <2>6. s[p + 1] # s[a]
    BY <1>1, <1>2, <1>4, <1>8, <2>2
  <2>7. new.prev = [i \in Id |-> IF i = s[a] THEN s[p] ELSE IF i = s[p + 1] THEN s[b]
                                 ELSE IF i = rt THEN s[a - 1] ELSE l.prev[i]]
    BY <2>5, <2>6
  <2>8. p + 1 # 1
    BY <1>1
  <2>9. SwapLinks(new, l, c, s, p + 1, a - 1, b)
    BY <2>3, <2>4, <2>5, <2>7, <2>8 DEF SwapLinks, N
  <2>10. Runs(s, p + 1, a - 1, b)
    BY <1>1, <1>8 DEF Runs, N
  <2>11. ~(p > b)
    BY <1>1, <1>8
  <2>12. QED
    BY <2>9, <2>10, <2>11 DEF RunX, RunY, RunZ, new
<1>9. QED
  BY <1>1, <1>7, <1>8
-----------------------------------------------------------------------------
(***************************************************************************)
(* The operations in terms of those of OpLists, and the walks.             *)
(***************************************************************************)

\* Erasing from a list without repetition drops one position, or none.
LEMMA WithoutDrops ==
    ASSUME NEW s \in Seq(Id), Distinct(s), NEW p \in 1..Len(s)
    PROVE  Lists!Without(s, s[p]) = Drop(s, p)
<1>1. s[p] \in Lists!Ran(s)
  BY DEF Lists!Ran
<1>2. Lists!At(s, s[p]) = p
  <2>1. \A i \in 1..Len(s) : s[i] = s[p] <=> i = p
    BY DEF Distinct
  <2>2. QED
    BY <2>1 DEF Lists!At
<1>3. QED
  BY <1>1, <1>2 DEF Lists!Without, Drop

LEMMA WithoutNone ==
    ASSUME NEW s \in Seq(Id), NEW id, ~Occurs(id, s)
    PROVE  Lists!Without(s, id) = s
BY DEF Lists!Without, Lists!Ran, Occurs

LEMMA AppendPuts ==
    ASSUME NEW s \in Seq(Id), NEW id \in Id
    PROVE  Append(s, id) = Put(s, Len(s), id)
<1>1. IsPut(Put(s, Len(s), id), s, Len(s), id)
  <2>1. Len(s) \in 0..Len(s)
    OBVIOUS
  <2>2. QED
    BY <2>1, PutType, Zenon
<1> DEFINE t == Put(s, Len(s), id)
           u == Append(s, id)
<1>2. /\ u \in Seq(Id) /\ Len(u) = Len(s) + 1
      /\ \A i \in 1..Len(s) + 1 : u[i] = IF i <= Len(s) THEN s[i] ELSE id
  OBVIOUS
<1>3. /\ t \in Seq(Id) /\ Len(t) = Len(s) + 1
      /\ \A i \in 1..Len(s) + 1 : t[i] = IF i <= Len(s) THEN s[i] ELSE id
  BY <1>1 DEF IsPut
<1> HIDE DEF t, u
<1>4. t = u
  BY <1>2, <1>3
<1>5. QED
  BY <1>4 DEF t, u

\* push_back of a detached op.
LEMMA PushSpells ==
    ASSUME NEW chains, NEW l, NEW class, NEW L, Spells(l, chains, class, L),
           NEW c \in chains, NEW id \in Id, class[id] = Nil
    PROVE  Spells(PushBack(l, c, id), chains,
                  [class EXCEPT ![id] = c], [L EXCEPT ![c] = Append(L[c], id)])
<1>1. L[c] \in Seq(Id) /\ SpellsChain(l, c, L[c])
  BY DEF Spells, Partition
<1>2. l.tail[c] = Before(L[c], Len(L[c]))
  BY <1>1 DEF SpellsChain, Last, Before
<1>3. Len(L[c]) \in 0..Len(L[c])
  BY <1>1
<1>4. Append(L[c], id) = Put(L[c], Len(L[c]), id)
  BY <1>1, AppendPuts
<1>5. PushBack(l, c, id) = InsertAfter(l, c, Before(L[c], Len(L[c])), id)
  BY <1>2 DEF PushBack
<1>6. Spells(InsertAfter(l, c, Before(L[c], Len(L[c])), id), chains,
             [class EXCEPT ![id] = c], [L EXCEPT ![c] = Put(L[c], Len(L[c]), id)])
  BY <1>3, InsertSpells, Zenon
<1>7. QED
  BY <1>4, <1>5, <1>6, Zenon

\* unlink of an op of the chain.
LEMMA EraseSpells ==
    ASSUME NEW chains, NEW l, NEW class, NEW L, Spells(l, chains, class, L),
           NEW c \in chains, NEW id \in Id, class[id] = c
    PROVE  Spells(Unlink(l, c, id), chains,
                  [class EXCEPT ![id] = Nil], [L EXCEPT ![c] = Lists!Without(L[c], id)])
<1>1. L[c] \in Seq(Id) /\ Distinct(L[c]) /\ Occurs(id, L[c])
  BY DEF Spells, Partition
<1>2. PICK p \in 1..Len(L[c]) : id = L[c][p]
  BY <1>1 DEF Occurs
<1>3. Lists!Without(L[c], L[c][p]) = Drop(L[c], p)
  BY <1>1, WithoutDrops, Zenon
<1>4. Lists!Without(L[c], id) = Drop(L[c], p)
  BY <1>2, <1>3, Zenon
<1>5. Spells(Unlink(l, c, id), chains,
             [class EXCEPT ![id] = Nil], [L EXCEPT ![c] = Drop(L[c], p)])
  BY <1>2, UnlinkSpells, Zenon
<1>6. QED
  BY <1>4, <1>5, Zenon

\* What the chains spell is what is read by walking them.
LEMMA SpellsWalk ==
    ASSUME NEW chains, NEW l, NEW class, NEW L, Spells(l, chains, class, L),
           NEW c \in chains
    PROVE  Walk(l, c) = L[c]
<1>1. /\ L[c] \in Seq(Id) /\ Distinct(L[c]) /\ Joins(l.next, L[c])
      /\ l.head[c] = First(L[c]) /\ l.next \in [Id -> Id \cup {Nil}]
  BY DEF Spells, Partition, SpellsChain, Links
<1>2. Follow(l.next, First(L[c])) = L[c]
  BY <1>1, FollowSpells, Zenon
<1>3. QED
  BY <1>1, <1>2, Zenon DEF Walk

\* Read backwards, a chain yields its list from the end.
Backwards(s) == [i \in 1..Len(s) |-> s[Len(s) + 1 - i]]

LEMMA SpellsWalkBack ==
    ASSUME NEW chains, NEW l, NEW class, NEW L, Spells(l, chains, class, L),
           NEW c \in chains
    PROVE  WalkBack(l, c) = Backwards(L[c])
<1> DEFINE s == L[c]
           r == [i \in 1..Len(s) |-> s[Len(s) + 1 - i]]
<1>1. /\ s \in Seq(Id) /\ Distinct(s) /\ JoinsBack(l.prev, s)
      /\ l.tail[c] = Last(s) /\ l.prev \in [Id -> Id \cup {Nil}]
  BY DEF Spells, Partition, SpellsChain, Links
<1> HIDE DEF s
<1>2. \A i \in 1..Len(s) : Len(s) + 1 - i \in 1..Len(s) /\ r[i] = s[Len(s) + 1 - i]
  BY <1>1
<1>3. r \in [1..Len(s) -> Id] /\ Len(s) \in Nat
  BY <1>1, <1>2
<1> HIDE DEF r
<1>4. r \in Seq(Id) /\ Len(r) = Len(s)
  BY <1>3
<1>5. Distinct(r)
  BY <1>1, <1>2, <1>3, <1>4 DEF Distinct
<1>6. Joins(l.prev, r)
  <2> SUFFICES ASSUME NEW i \in 1..Len(s)
               PROVE  l.prev[r[i]] = IF i = Len(s) THEN Nil ELSE r[i + 1]
    BY <1>4 DEF Joins
  <2> DEFINE j == Len(s) + 1 - i
  <2>1. j \in 1..Len(s) /\ r[i] = s[j] /\ (j = 1 <=> i = Len(s))
    BY <1>2, <1>3
  <2>2. l.prev[s[j]] = IF j = 1 THEN Nil ELSE s[j - 1]
    BY <1>1, <2>1 DEF JoinsBack
  <2>3. ASSUME i # Len(s) PROVE r[i + 1] = s[j - 1]
    <3>1. i + 1 \in 1..Len(s) /\ Len(s) + 1 - (i + 1) = j - 1
      BY <1>3, <2>3
    <3>2. QED
      BY <1>2, <3>1
  <2> HIDE DEF j
  <2>4. QED
    BY <2>1, <2>2, <2>3
<1>7. Last(s) = First(r)
  BY <1>2, <1>3, <1>4 DEF First, Last
<1>8. Follow(l.prev, First(r)) = r
  BY <1>1, <1>4, <1>5, <1>6, FollowSpells, Zenon
<1>9. WalkBack(l, c) = r
  BY <1>1, <1>7, <1>8, Zenon DEF WalkBack
<1>10. QED
  BY <1>9 DEF r, s, Backwards

\* Chains that spell their lists are sound and whole.
LEMMA SpellsSound ==
    ASSUME NEW chains, NEW l, NEW class, NEW L, Spells(l, chains, class, L)
    PROVE  Sound(l, chains, class)
<1>1. Partition(chains, class, L)
  BY DEF Spells
<1>2. ASSUME NEW id \in Id, class[id] \in chains
      PROVE  /\ IF l.next[id] = Nil THEN l.tail[class[id]] = id
                ELSE class[l.next[id]] = class[id] /\ l.prev[l.next[id]] = id
             /\ IF l.prev[id] = Nil THEN l.head[class[id]] = id
                ELSE class[l.prev[id]] = class[id] /\ l.next[l.prev[id]] = id
  <2> DEFINE c == class[id]
             s == L[c]
  <2>1. s \in Seq(Id) /\ SpellsChain(l, c, s) /\ Occurs(id, s)
    BY <1>1, <1>2 DEF Spells, Partition
  <2>2. \A i \in 1..Len(s) : s[i] \in Id /\ s[i] # Nil /\ class[s[i]] = c
    BY <1>1, <1>2, <2>1, BankAssumption DEF Partition, Occurs
  <2> HIDE DEF c, s
  <2>3. PICK i \in 1..Len(s) : s[i] = id
    BY <2>1 DEF Occurs
  <2>4. /\ l.next[id] = IF i = Len(s) THEN Nil ELSE s[i + 1]
        /\ l.prev[id] = IF i = 1 THEN Nil ELSE s[i - 1]
    BY <2>1, <2>3 DEF SpellsChain, Joins, JoinsBack
  <2>5. IF l.next[id] = Nil THEN l.tail[c] = id
        ELSE class[l.next[id]] = c /\ l.prev[l.next[id]] = id
    <3>1. CASE i = Len(s)
      BY <2>1, <2>3, <2>4, <3>1 DEF SpellsChain, Last
    <3>2. CASE i # Len(s)
      <4>1. i + 1 \in 1..Len(s) /\ (i + 1) - 1 = i /\ i + 1 # 1
        BY <2>1, <3>2
      <4>2. l.prev[s[i + 1]] = s[i]
        BY <2>1, <4>1 DEF SpellsChain, JoinsBack
      <4>3. QED
        BY <2>2, <2>3, <2>4, <3>2, <4>1, <4>2
    <3>3. QED
      BY <3>1, <3>2
  <2>6. IF l.prev[id] = Nil THEN l.head[c] = id
        ELSE class[l.prev[id]] = c /\ l.next[l.prev[id]] = id
    <3>1. CASE i = 1
      BY <2>1, <2>3, <2>4, <3>1 DEF SpellsChain, First
    <3>2. CASE i # 1
      <4>1. i - 1 \in 1..Len(s) /\ (i - 1) + 1 = i /\ i - 1 # Len(s)
        BY <2>1, <3>2
      <4>2. l.next[s[i - 1]] = s[i]
        BY <2>1, <4>1 DEF SpellsChain, Joins
      <4>3. QED
        BY <2>2, <2>3, <2>4, <3>2, <4>1, <4>2
    <3>3. QED
      BY <3>1, <3>2
  <2>7. QED
    BY <2>5, <2>6 DEF c
<1>3. ASSUME NEW c \in chains
      PROVE  /\ l.head[c] # Nil => class[l.head[c]] = c /\ l.prev[l.head[c]] = Nil
             /\ l.tail[c] # Nil => class[l.tail[c]] = c /\ l.next[l.tail[c]] = Nil
  <2> DEFINE s == L[c]
  <2>1. s \in Seq(Id) /\ SpellsChain(l, c, s)
    BY <1>1 DEF Spells, Partition
  <2>2. \A i \in 1..Len(s) : s[i] \in Id /\ class[s[i]] = c
    BY <1>1, <2>1 DEF Partition, Occurs
  <2> HIDE DEF s
  <2>3. CASE Len(s) = 0
    BY <2>1, <2>3 DEF SpellsChain, First, Last
  <2>4. CASE Len(s) # 0
    <3>1. 1 \in 1..Len(s) /\ Len(s) \in 1..Len(s)
      BY <2>1, <2>4
    <3>2. /\ l.head[c] = s[1] /\ l.prev[s[1]] = Nil
          /\ l.tail[c] = s[Len(s)] /\ l.next[s[Len(s)]] = Nil
      BY <2>1, <2>4, <3>1 DEF SpellsChain, First, Last, Joins, JoinsBack
    <3>3. QED
      BY <2>2, <3>1, <3>2
  <2>5. QED
    BY <2>3, <2>4
<1>4. \A id \in Id : class[id] = Nil => l.prev[id] = Nil /\ l.next[id] = Nil
  BY DEF Spells
<1>5. QED
  BY <1>2, <1>3, <1>4 DEF Sound

LEMMA SpellsWhole ==
    ASSUME NEW chains, NEW l, NEW class, NEW L, Spells(l, chains, class, L)
    PROVE  Whole(l, chains, class)
<1> SUFFICES ASSUME NEW c \in chains
             PROVE  LET s == Walk(l, c)  t == WalkBack(l, c) IN
                    /\ Ran(s) = {id \in Id : class[id] = c}
                    /\ Len(s) = l.len[c] /\ Len(t) = Len(s)
                    /\ \A i \in 1..Len(s) : t[i] = s[Len(s) + 1 - i]
  BY DEF Whole
<1>1. Walk(l, c) = L[c]
  BY SpellsWalk, ZenonT(60)
<1>2. WalkBack(l, c) = Backwards(L[c])
  BY SpellsWalkBack, ZenonT(60)
<1>3. /\ L[c] \in Seq(Id) /\ SpellsChain(l, c, L[c])
      /\ \A id \in Id : class[id] = c <=> Occurs(id, L[c])
  BY DEF Spells, Partition
<1>4. Ran(L[c]) = {id \in Id : class[id] = c}
  BY <1>3 DEF Ran, Occurs
<1>5. Len(L[c]) = l.len[c]
  BY <1>3 DEF SpellsChain
<1>6. Len(WalkBack(l, c)) = Len(L[c])
  BY <1>2, <1>3 DEF Backwards
<1>7. \A i \in 1..Len(L[c]) : WalkBack(l, c)[i] = L[c][Len(L[c]) + 1 - i]
  BY <1>2, <1>3 DEF Backwards
<1>8. QED
  BY <1>1, <1>4, <1>5, <1>6, <1>7
-----------------------------------------------------------------------------
(***************************************************************************)
(* The inductive invariant.                                                *)
(***************************************************************************)

InsLists == [c \in InsChain |-> Walk(ins, c)]
CodeLists == [c \in Listed |-> Walk(code, c)]

\* The links spell, for the class of every op, the lists that are read from
\* them.
IInv ==
    /\ TypeOK
    /\ Spells(ins, InsChain, InsClass, InsLists)
    /\ Spells(code, Listed, CodeClass, CodeLists)

\* It is enough to find some lists that are spelled.
LEMMA SpellsRead ==
    ASSUME NEW chains, NEW l, NEW class, NEW L, Spells(l, chains, class, L)
    PROVE  L = [c \in chains |-> Walk(l, c)]
<1>1. L = [c \in chains |-> L[c]]
  BY DEF Spells, Partition
<1>2. ASSUME NEW c \in chains PROVE Walk(l, c) = L[c]
  BY SpellsWalk, ZenonT(60)
<1>3. QED
  BY <1>1, <1>2, Zenon

\* The lists L after id went from list c to the end of list d, was added to
\* or removed from the list of an opcode.
Moved(L, c, d, id) ==
    [[L EXCEPT ![c] = Lists!Without(L[c], id)] EXCEPT ![d] = Append(L[d], id)]
Added(L, id, opc) == IF opc \in Listed THEN [L EXCEPT ![opc] = Append(L[opc], id)] ELSE L
Removed(L, id, opc) ==
    IF opc \in Listed THEN [L EXCEPT ![opc] = Lists!Without(L[opc], id)] ELSE L
CodeOf(opc) == IF opc \in Listed THEN opc ELSE Nil

LEMMA MoveSpells ==
    ASSUME NEW chains, NEW l, NEW class, NEW L, Spells(l, chains, class, L),
           NEW c \in chains, NEW d \in chains, c # d, NEW id \in Id, class[id] = c
    PROVE  Spells(PushBack(Unlink(l, c, id), d, id), chains,
                  [class EXCEPT ![id] = d], Moved(L, c, d, id))
<1> DEFINE class1 == [class EXCEPT ![id] = Nil]
           L1 == [L EXCEPT ![c] = Lists!Without(L[c], id)]
           l1 == Unlink(l, c, id)
<1>1. Spells(l1, chains, class1, L1)
  BY EraseSpells, Zenon
<1>2. class \in [Id -> chains \cup {Nil}] /\ L \in [chains -> Seq(Id)]
  BY DEF Spells, Partition
<1>3. class1[id] = Nil /\ [class1 EXCEPT ![id] = d] = [class EXCEPT ![id] = d]
  BY <1>2
<1>4. L1[d] = L[d]
  BY <1>2
<1> HIDE DEF class1, L1, l1
<1>5. Spells(PushBack(l1, d, id), chains, [class1 EXCEPT ![id] = d],
             [L1 EXCEPT ![d] = Append(L1[d], id)])
  BY <1>1, <1>3, PushSpells, Zenon
<1>6. [L1 EXCEPT ![d] = Append(L1[d], id)] = Moved(L, c, d, id)
  BY <1>4, Zenon DEF Moved, L1
<1>7. QED
  BY <1>3, <1>5, <1>6, Zenon DEF l1

LEMMA AddSpells ==
    ASSUME NEW l, NEW class, NEW L, Spells(l, Listed, class, L),
           NEW id \in Id, class[id] = Nil, NEW opc
    PROVE  Spells(AddToCodeList(l, id, opc), Listed,
                  [class EXCEPT ![id] = CodeOf(opc)], Added(L, id, opc))
<1>1. CASE opc \in Listed
  <2>1. Spells(PushBack(l, opc, id), Listed, [class EXCEPT ![id] = opc],
               [L EXCEPT ![opc] = Append(L[opc], id)])
    BY <1>1, PushSpells, Zenon
  <2>2. QED
    BY <1>1, <2>1, Zenon DEF AddToCodeList, Added, CodeOf
<1>2. CASE opc \notin Listed
  <2>1. [class EXCEPT ![id] = Nil] = class
    BY DEF Spells, Partition
  <2>2. QED
    BY <1>2, <2>1, Zenon DEF AddToCodeList, Added, CodeOf
<1>3. QED
  BY <1>1, <1>2

LEMMA RemoveSpells ==
    ASSUME NEW l, NEW class, NEW L, Spells(l, Listed, class, L),
           NEW id \in Id, NEW opc, class[id] = CodeOf(opc)
    PROVE  Spells(RemoveFromCodeList(l, id, opc), Listed,
                  [class EXCEPT ![id] = Nil], Removed(L, id, opc))
<1>1. CASE opc \in Listed
  <2>1. class[id] = opc
    BY <1>1 DEF CodeOf
  <2>2. Spells(Unlink(l, opc, id), Listed, [class EXCEPT ![id] = Nil],
               [L EXCEPT ![opc] = Lists!Without(L[opc], id)])
    BY <1>1, <2>1, EraseSpells, Zenon
  <2>3. QED
    BY <1>1, <2>2, Zenon DEF RemoveFromCodeList, Removed
<1>2. CASE opc \notin Listed
  <2>1. [class EXCEPT ![id] = Nil] = class
    BY <1>2 DEF Spells, Partition, CodeOf
  <2>2. QED
    BY <1>2, <2>1, Zenon DEF RemoveFromCodeList, Removed
<1>3. QED
  BY <1>1, <1>2
-----------------------------------------------------------------------------
(***************************************************************************)
(* Every action, with the lists that the links spell after it.             *)
(***************************************************************************)

FieldsOK ==
    /\ intree \subseteq Id /\ gone \subseteq Id /\ intree \cap gone = {}
    /\ opcode \in [Id -> OpCode] /\ cellOpcode \in [Id -> OpCode]
    /\ dead \in [Id -> BOOLEAN] /\ cellDead \in [Id -> BOOLEAN]
    /\ sweep \in BOOLEAN

\* After the step the links spell the lists A and B.
Yields(A, B) ==
    /\ FieldsOK'
    /\ Spells(ins', InsChain, InsClass', A)
    /\ Spells(code', Listed, CodeClass', B)

LEMMA YieldsInv ==
    ASSUME NEW A, NEW B, Yields(A, B)
    PROVE  IInv' /\ InsLists' = A /\ CodeLists' = B
<1>1. A = [c \in InsChain |-> Walk(ins', c)]
  BY SpellsRead, Zenon DEF Yields
<1>2. B = [c \in Listed |-> Walk(code', c)]
  BY SpellsRead, Zenon DEF Yields
<1>3. InsLists' = A /\ CodeLists' = B
  BY <1>1, <1>2 DEF InsLists, CodeLists
<1>4. ins' \in Links(InsChain) /\ code' \in Links(Listed)
  BY DEF Yields, Spells
<1>5. TypeOK'
  BY <1>4 DEF Yields, FieldsOK, TypeOK
<1>6. QED
  BY <1>3, <1>5 DEF IInv, Yields

LEMMA InsClassType ==
    ASSUME IInv
    PROVE  /\ FieldsOK
           /\ InsClass \in [Id -> InsChain \cup {Nil}]
           /\ CodeClass \in [Id -> Listed \cup {Nil}]
           /\ Spells(ins, InsChain, InsClass, InsLists)
           /\ Spells(code, Listed, CodeClass, CodeLists)
BY DEF IInv, TypeOK, FieldsOK, Spells, Partition

LEMMA CreateStep ==
    ASSUME IInv, NEW id \in Id, NEW opc \in OpCode, Create(id, opc)
    PROVE  Yields([InsLists EXCEPT !["alive"] = Append(InsLists["alive"], id)],
                  Added(CodeLists, id, opc))
<1>1. /\ FieldsOK /\ InsClass \in [Id -> InsChain \cup {Nil}]
      /\ CodeClass \in [Id -> Listed \cup {Nil}]
      /\ Spells(ins, InsChain, InsClass, InsLists)
      /\ Spells(code, Listed, CodeClass, CodeLists)
  BY InsClassType
<1>2. FieldsOK'
  BY <1>1 DEF Create, Slot, FieldsOK
<1>3. InsClass[id] = Nil /\ CodeClass[id] = Nil
  BY DEF Create, Slot, InsClass, CodeClass
<1>4. InsClass' = [InsClass EXCEPT ![id] = "alive"]
  <2>1. \A i \in Id : InsClass'[i] = IF i = id THEN "alive" ELSE InsClass[i]
    BY <1>1 DEF Create, Slot, InsClass, FieldsOK
  <2>2. QED
    BY <1>1, <2>1 DEF InsClass
<1>5. CodeClass' = [CodeClass EXCEPT ![id] = CodeOf(opc)]
  <2>1. \A i \in Id : CodeClass'[i] = IF i = id THEN CodeOf(opc) ELSE CodeClass[i]
    BY <1>1 DEF Create, Slot, CodeClass, CodeOf, FieldsOK
  <2>2. QED
    BY <1>1, <2>1 DEF CodeClass
<1>6. Spells(PushBack(ins, "alive", id), InsChain, [InsClass EXCEPT ![id] = "alive"],
             [InsLists EXCEPT !["alive"] = Append(InsLists["alive"], id)])
  <2>1. "alive" \in InsChain
    BY DEF InsChain
  <2>2. QED
    BY <1>1, <1>3, <2>1, PushSpells, Zenon
<1>7. Spells(AddToCodeList(code, id, opc), Listed, [CodeClass EXCEPT ![id] = CodeOf(opc)],
             Added(CodeLists, id, opc))
  BY <1>1, <1>3, AddSpells, Zenon
<1>8. ins' = PushBack(ins, "alive", id) /\ code' = AddToCodeList(code, id, opc)
  BY DEF Create
<1>9. QED
  BY <1>2, <1>4, <1>5, <1>6, <1>7, <1>8, Zenon DEF Yields
LEMMA CreateSeqStep ==
    ASSUME IInv, NEW id \in Id, CreateSeq(id)
    PROVE  Yields([InsLists EXCEPT !["dead"] = Append(InsLists["dead"], id)], CodeLists)
<1>1. /\ FieldsOK /\ InsClass \in [Id -> InsChain \cup {Nil}]
      /\ CodeClass \in [Id -> Listed \cup {Nil}]
      /\ Spells(ins, InsChain, InsClass, InsLists)
      /\ Spells(code, Listed, CodeClass, CodeLists)
  BY InsClassType
<1>2. FieldsOK'
  BY <1>1, BankAssumption DEF CreateSeq, Slot, FieldsOK
<1>3. InsClass[id] = Nil
  BY DEF CreateSeq, Slot, InsClass
<1>4. InsClass' = [InsClass EXCEPT ![id] = "dead"]
  <2>1. \A i \in Id : InsClass'[i] = IF i = id THEN "dead" ELSE InsClass[i]
    BY <1>1 DEF CreateSeq, Slot, InsClass, FieldsOK
  <2>2. QED
    BY <1>1, <2>1 DEF InsClass
<1>5. CodeClass' = CodeClass
  <2>1. \A i \in Id : CodeClass'[i] = CodeClass[i]
    BY <1>1, BankAssumption DEF CreateSeq, Slot, CodeClass, FieldsOK
  <2>2. QED
    BY <1>1, <2>1 DEF CodeClass
<1>6. Spells(PushBack(ins, "dead", id), InsChain, [InsClass EXCEPT ![id] = "dead"],
             [InsLists EXCEPT !["dead"] = Append(InsLists["dead"], id)])
  <2>1. "dead" \in InsChain
    BY DEF InsChain
  <2>2. QED
    BY <1>1, <1>3, <2>1, PushSpells, Zenon
<1>7. ins' = PushBack(ins, "dead", id) /\ code' = code
  BY DEF CreateSeq
<1>8. QED
  BY <1>1, <1>2, <1>4, <1>5, <1>6, <1>7, Zenon DEF Yields

LEMMA MarkAliveStep ==
    ASSUME IInv, NEW id \in Id, MarkAlive(id)
    PROVE  Yields(Moved(InsLists, "dead", "alive", id), CodeLists)
<1>1. /\ FieldsOK /\ InsClass \in [Id -> InsChain \cup {Nil}]
      /\ CodeClass \in [Id -> Listed \cup {Nil}]
      /\ Spells(ins, InsChain, InsClass, InsLists)
      /\ Spells(code, Listed, CodeClass, CodeLists)
  BY InsClassType
<1>2. FieldsOK'
  BY <1>1 DEF MarkAlive, FieldsOK
<1>3. InsClass[id] = "dead"
  BY <1>1 DEF MarkAlive, InsClass, FieldsOK
<1>4. InsClass' = [InsClass EXCEPT ![id] = "alive"]
  <2>1. \A i \in Id : InsClass'[i] = IF i = id THEN "alive" ELSE InsClass[i]
    BY <1>1 DEF MarkAlive, InsClass, FieldsOK
  <2>2. QED
    BY <1>1, <2>1 DEF InsClass
<1>5. CodeClass' = CodeClass
  BY DEF MarkAlive, CodeClass
<1>6. Spells(PushBack(Unlink(ins, "dead", id), "alive", id), InsChain,
             [InsClass EXCEPT ![id] = "alive"], Moved(InsLists, "dead", "alive", id))
  <2>1. "dead" \in InsChain /\ "alive" \in InsChain /\ "dead" # "alive"
    BY DEF InsChain
  <2>2. QED
    BY <1>1, <1>3, <2>1, MoveSpells, Zenon
<1>7. ins' = PushBack(Unlink(ins, "dead", id), "alive", id) /\ code' = code
  BY DEF MarkAlive
<1>8. QED
  BY <1>1, <1>2, <1>4, <1>5, <1>6, <1>7, Zenon DEF Yields

LEMMA MarkDeadStep ==
    ASSUME IInv, NEW id \in Id, MarkDead(id)
    PROVE  Yields(Moved(InsLists, "alive", "dead", id), CodeLists)
<1>1. /\ FieldsOK /\ InsClass \in [Id -> InsChain \cup {Nil}]
      /\ CodeClass \in [Id -> Listed \cup {Nil}]
      /\ Spells(ins, InsChain, InsClass, InsLists)
      /\ Spells(code, Listed, CodeClass, CodeLists)
  BY InsClassType
<1>2. FieldsOK'
  BY <1>1 DEF MarkDead, FieldsOK
<1>3. InsClass[id] = "alive"
  BY <1>1 DEF MarkDead, InsClass, FieldsOK
<1>4. InsClass' = [InsClass EXCEPT ![id] = "dead"]
  <2>1. \A i \in Id : InsClass'[i] = IF i = id THEN "dead" ELSE InsClass[i]
    BY <1>1 DEF MarkDead, InsClass, FieldsOK
  <2>2. QED
    BY <1>1, <2>1 DEF InsClass
<1>5. CodeClass' = CodeClass
  BY DEF MarkDead, CodeClass
<1>6. Spells(PushBack(Unlink(ins, "alive", id), "dead", id), InsChain,
             [InsClass EXCEPT ![id] = "dead"], Moved(InsLists, "alive", "dead", id))
  <2>1. "dead" \in InsChain /\ "alive" \in InsChain /\ "alive" # "dead"
    BY DEF InsChain
  <2>2. QED
    BY <1>1, <1>3, <2>1, MoveSpells, Zenon
<1>7. ins' = PushBack(Unlink(ins, "alive", id), "dead", id) /\ code' = code
  BY DEF MarkDead
<1>8. QED
  BY <1>1, <1>2, <1>4, <1>5, <1>6, <1>7, Zenon DEF Yields

LEMMA ChangeOpcodeStep ==
    ASSUME IInv, NEW id \in Id, NEW opc \in OpCode, ChangeOpcode(id, opc)
    PROVE  Yields(InsLists, Added(Removed(CodeLists, id, opcode[id]), id, opc))
<1>1. /\ FieldsOK /\ InsClass \in [Id -> InsChain \cup {Nil}]
      /\ CodeClass \in [Id -> Listed \cup {Nil}]
      /\ Spells(ins, InsChain, InsClass, InsLists)
      /\ Spells(code, Listed, CodeClass, CodeLists)
  BY InsClassType
<1> DEFINE bare == [CodeClass EXCEPT ![id] = Nil]
           cut == RemoveFromCodeList(code, id, opcode[id])
           rest == Removed(CodeLists, id, opcode[id])
<1>2. FieldsOK'
  BY <1>1 DEF ChangeOpcode, FieldsOK
<1>3. CodeClass[id] = CodeOf(opcode[id])
  BY <1>1 DEF ChangeOpcode, CodeClass, CodeOf
<1>4. InsClass' = InsClass
  BY DEF ChangeOpcode, InsClass
<1>5. CodeClass' = [bare EXCEPT ![id] = CodeOf(opc)] /\ bare[id] = Nil
  <2>1. \A i \in Id : CodeClass'[i] = IF i = id THEN CodeOf(opc) ELSE CodeClass[i]
    BY <1>1 DEF ChangeOpcode, CodeClass, CodeOf, FieldsOK
  <2>2. QED
    BY <1>1, <2>1 DEF CodeClass
<1>6. Spells(cut, Listed, bare, rest)
  BY <1>1, <1>3, RemoveSpells, Zenon
<1> HIDE DEF bare, cut, rest
<1>7. Spells(AddToCodeList(cut, id, opc), Listed, [bare EXCEPT ![id] = CodeOf(opc)],
             Added(rest, id, opc))
  BY <1>5, <1>6, AddSpells, Zenon
<1>8. ins' = ins /\ code' = AddToCodeList(cut, id, opc)
  BY DEF ChangeOpcode, cut
<1>9. Yields(InsLists, Added(rest, id, opc))
  BY <1>1, <1>2, <1>4, <1>5, <1>7, <1>8, Zenon DEF Yields
<1>10. QED
  BY <1>9, Zenon DEF rest

\* The chain destroy takes an op from.
Flagged(id) == IF dead[id] THEN "dead" ELSE "alive"

LEMMA RetireStep ==
    ASSUME IInv, NEW id \in intree, Retire(id), sweep' \in BOOLEAN
    PROVE  Yields(Moved(InsLists, Flagged(id), "gone", id),
                  Removed(CodeLists, id, opcode[id]))
<1>1. /\ FieldsOK /\ InsClass \in [Id -> InsChain \cup {Nil}]
      /\ CodeClass \in [Id -> Listed \cup {Nil}]
      /\ Spells(ins, InsChain, InsClass, InsLists)
      /\ Spells(code, Listed, CodeClass, CodeLists)
  BY InsClassType
<1>2. FieldsOK' /\ id \in Id
  BY <1>1 DEF Retire, FieldsOK, fields
<1>3. /\ InsClass[id] = Flagged(id) /\ CodeClass[id] = CodeOf(opcode[id])
      /\ Flagged(id) \in InsChain /\ "gone" \in InsChain /\ Flagged(id) # "gone"
  BY <1>1 DEF Retire, InsClass, CodeClass, CodeOf, FieldsOK, Flagged, InsChain
<1>4. InsClass' = [InsClass EXCEPT ![id] = "gone"]
  <2>1. \A i \in Id : InsClass'[i] = IF i = id THEN "gone" ELSE InsClass[i]
    BY <1>1 DEF Retire, InsClass, FieldsOK, fields
  <2>2. QED
    BY <1>1, <2>1 DEF InsClass
<1>5. CodeClass' = [CodeClass EXCEPT ![id] = Nil]
  <2>1. \A i \in Id : CodeClass'[i] = IF i = id THEN Nil ELSE CodeClass[i]
    BY <1>1 DEF Retire, CodeClass, FieldsOK, fields
  <2>2. QED
    BY <1>1, <2>1 DEF CodeClass
<1>6. Spells(PushBack(Unlink(ins, Flagged(id), id), "gone", id), InsChain,
             [InsClass EXCEPT ![id] = "gone"], Moved(InsLists, Flagged(id), "gone", id))
  BY <1>1, <1>2, <1>3, MoveSpells, Zenon
<1>7. Spells(RemoveFromCodeList(code, id, opcode[id]), Listed,
             [CodeClass EXCEPT ![id] = Nil], Removed(CodeLists, id, opcode[id]))
  BY <1>1, <1>2, <1>3, RemoveSpells, Zenon
<1>8. /\ ins' = PushBack(Unlink(ins, Flagged(id), id), "gone", id)
      /\ code' = RemoveFromCodeList(code, id, opcode[id])
  BY DEF Retire, Flagged
<1>9. QED
  BY <1>2, <1>4, <1>5, <1>6, <1>7, <1>8, Zenon DEF Yields

\* Nothing is linked, and nothing is spelled.
LEMMA EmptySpells ==
    ASSUME NEW chains, Nil \notin chains
    PROVE  Spells(Empty(chains), chains, [id \in Id |-> Nil], [c \in chains |-> <<>>])
<1> DEFINE l == Empty(chains)
           class == [id \in Id |-> Nil]
           L == [c \in chains |-> <<>>]
<1>1. /\ l = [prev |-> Detached, next |-> Detached, head |-> [c \in chains |-> Nil],
              tail |-> [c \in chains |-> Nil], len |-> [c \in chains |-> 0]]
      /\ l \in Links(chains)
  BY DEF Empty, Links, Detached
<1>2. Len(<<>>) = 0 /\ <<>> \in Seq(Id)
  OBVIOUS
<1>3. \A id \in Id : ~Occurs(id, <<>>)
  BY <1>2 DEF Occurs
<1>4. Distinct(<<>>)
  BY <1>2 DEF Distinct
<1>5. Partition(chains, class, L)
  BY <1>2, <1>3, <1>4 DEF Partition
<1>6. ASSUME NEW c \in chains PROVE SpellsChain(l, c, <<>>)
  <2>1. l.head[c] = Nil /\ l.tail[c] = Nil /\ l.len[c] = 0
    BY <1>1
  <2>2. First(<<>>) = Nil /\ Last(<<>>) = Nil
    BY <1>2 DEF First, Last
  <2>3. Joins(l.next, <<>>) /\ JoinsBack(l.prev, <<>>)
    BY <1>2 DEF Joins, JoinsBack
  <2>4. QED
    BY <1>2, <2>1, <2>2, <2>3 DEF SpellsChain
<1>7. \A id \in Id : l.prev[id] = Nil /\ l.next[id] = Nil
  BY <1>1 DEF Detached
<1>8. QED
  BY <1>1, <1>5, <1>6, <1>7 DEF Spells

LEMMA ClearStep ==
    ASSUME IInv, Clear
    PROVE  Yields([c \in InsChain |-> <<>>], [c \in Listed |-> <<>>])
<1>1. FieldsOK' /\ InsClass' = [id \in Id |-> Nil] /\ CodeClass' = [id \in Id |-> Nil]
  BY BankAssumption DEF Clear, IInv, TypeOK, FieldsOK, InsClass, CodeClass
<1>2. ins' = Empty(InsChain) /\ code' = Empty(Listed)
  BY DEF Clear
<1>3. Nil \notin InsChain /\ Nil \notin Listed
  BY BankAssumption
<1>4. /\ Spells(Empty(InsChain), InsChain, [id \in Id |-> Nil], [c \in InsChain |-> <<>>])
      /\ Spells(Empty(Listed), Listed, [id \in Id |-> Nil], [c \in Listed |-> <<>>])
  BY <1>3, EmptySpells, Zenon
<1>5. QED
  BY <1>1, <1>2, <1>4, Zenon DEF Yields

\* A step that leaves the ops and the links alone.
LEMMA SameStep ==
    ASSUME IInv, UNCHANGED <<intree, gone, fields, ins, code>>, sweep' \in BOOLEAN
    PROVE  Yields(InsLists, CodeLists)
<1>1. /\ FieldsOK /\ Spells(ins, InsChain, InsClass, InsLists)
      /\ Spells(code, Listed, CodeClass, CodeLists)
  BY InsClassType
<1>2. FieldsOK' /\ InsClass' = InsClass /\ CodeClass' = CodeClass
  BY <1>1 DEF FieldsOK, InsClass, CodeClass, fields
<1>3. ins' = ins /\ code' = code
  OBVIOUS
<1>4. QED
  BY <1>1, <1>2, <1>3, Zenon DEF Yields

\* What the dead chain reads, and where an op is in it.
LEMMA DeadList ==
    ASSUME IInv
    PROVE  /\ InsLists["dead"] \in Seq(Id) /\ Distinct(InsLists["dead"])
           /\ SpellsChain(ins, "dead", InsLists["dead"]) /\ "dead" \in InsChain
           /\ \A id \in intree : dead[id] => Occurs(id, InsLists["dead"])
<1>1. "dead" \in InsChain
  BY DEF InsChain
<1>2. ASSUME NEW id \in intree, dead[id] PROVE InsClass[id] = "dead" /\ id \in Id
  BY <1>2 DEF IInv, TypeOK, InsClass
<1>3. QED
  BY <1>1, <1>2 DEF IInv, Spells, Partition

\* Where the element at position p of s is when position a is dropped.
LEMMA DropKeeps ==
    ASSUME NEW s \in Seq(Id), NEW a \in 1..Len(s), NEW p \in 1..Len(s), p # a
    PROVE  \E q \in 1..Len(Drop(s, a)) : Drop(s, a)[q] = s[p]
<1>1. IsDrop(Drop(s, a), s, a)
  BY DropType, Zenon
<1>2. CASE p < a
  <2>1. p \in 1..Len(s) - 1
    BY <1>2
  <2>2. QED
    BY <1>1, <1>2, <2>1 DEF IsDrop
<1>3. CASE p > a
  <2>1. p - 1 \in 1..Len(s) - 1 /\ ~(p - 1 < a) /\ (p - 1) + 1 = p
    BY <1>3
  <2>2. QED
    BY <1>1, <2>1 DEF IsDrop
<1>4. QED
  BY <1>2, <1>3

LEMMA InsertAfterDeadStep ==
    ASSUME IInv, NEW id \in Id, NEW prev \in Id, InsertAfterDead(id, prev)
    PROVE  \E a \in 1..Len(InsLists["dead"]) :
             \E q \in 1..Len(Drop(InsLists["dead"], a)) :
               /\ InsLists["dead"][a] = id /\ Drop(InsLists["dead"], a)[q] = prev
               /\ Yields([InsLists EXCEPT !["dead"] = Put(Drop(InsLists["dead"], a), q, id)],
                         CodeLists)
<1> DEFINE D == InsLists["dead"]
<1>1. /\ FieldsOK /\ InsClass \in [Id -> InsChain \cup {Nil}]
      /\ Spells(ins, InsChain, InsClass, InsLists)
      /\ Spells(code, Listed, CodeClass, CodeLists)
  BY InsClassType
<1>2. D \in Seq(Id) /\ Distinct(D) /\ "dead" \in InsChain /\ Occurs(id, D) /\ Occurs(prev, D)
  BY DeadList DEF InsertAfterDead
<1>3. PICK a \in 1..Len(D) : D[a] = id
  BY <1>2 DEF Occurs
<1>4. PICK p \in 1..Len(D) : D[p] = prev
  BY <1>2 DEF Occurs
<1>5. p # a /\ id # prev
  BY <1>3, <1>4 DEF InsertAfterDead
<1> DEFINE W == Drop(D, a)
<1>6. PICK q \in 1..Len(W) : W[q] = prev
  BY <1>2, <1>4, <1>5, DropKeeps
<1> DEFINE l1 == Unlink(ins, "dead", id)
           class1 == [InsClass EXCEPT ![id] = Nil]
           L1 == [InsLists EXCEPT !["dead"] = W]
<1>7. Spells(l1, InsChain, class1, L1)
  BY <1>1, <1>2, <1>3, UnlinkSpells, Zenon
<1>8. InsLists \in [InsChain -> Seq(Id)]
  BY <1>1 DEF Spells, Partition
<1>9. L1["dead"] = W /\ class1[id] = Nil
  BY <1>1, <1>2, <1>8
<1>10. q \in 0..Len(W) /\ W \in Seq(Id) /\ Before(W, q) = prev
  <2>1. IsDrop(W, D, a)
    BY <1>2, DropType, Zenon
  <2>2. QED
    BY <2>1, <1>6 DEF IsDrop, Before
<1> HIDE DEF l1, class1, L1, W, D
<1>11. Spells(InsertAfter(l1, "dead", Before(L1["dead"], q), id), InsChain,
              [class1 EXCEPT ![id] = "dead"], [L1 EXCEPT !["dead"] = Put(L1["dead"], q, id)])
  <2>1. q \in 0..Len(L1["dead"])
    BY <1>9, <1>10
  <2>2. QED
    BY <1>2, <1>7, <1>9, <2>1, InsertSpells, Zenon
<1>12. [L1 EXCEPT !["dead"] = Put(L1["dead"], q, id)]
         = [InsLists EXCEPT !["dead"] = Put(W, q, id)]
  <2>1. [L1 EXCEPT !["dead"] = Put(W, q, id)] = [InsLists EXCEPT !["dead"] = Put(W, q, id)]
    BY <1>8 DEF L1
  <2>2. QED
    BY <1>9, <2>1
<1>13. InsClass' = [class1 EXCEPT ![id] = "dead"] /\ CodeClass' = CodeClass /\ FieldsOK'
  <2>1. InsClass' = InsClass /\ CodeClass' = CodeClass /\ FieldsOK'
    BY <1>1 DEF InsertAfterDead, FieldsOK, InsClass, CodeClass, fields
  <2>2. InsClass[id] = "dead"
    BY <1>1 DEF InsertAfterDead, FieldsOK, InsClass
  <2>3. QED
    BY <1>1, <2>1, <2>2 DEF class1
<1>14. ins' = InsertAfter(l1, "dead", Before(L1["dead"], q), id) /\ code' = code
  BY <1>9, <1>10 DEF InsertAfterDead, l1
<1>15. Yields([InsLists EXCEPT !["dead"] = Put(W, q, id)], CodeLists)
  BY <1>1, <1>11, <1>12, <1>13, <1>14, Zenon DEF Yields
<1>16. QED
  BY <1>3, <1>6, <1>15 DEF D, W

\* The ops read from position a of a chain on are the rest of its list.
LEMMA FollowRest ==
    ASSUME NEW link \in [Id -> Id \cup {Nil}], NEW s \in Seq(Id), Distinct(s),
           Joins(link, s), NEW a \in 1..Len(s)
    PROVE  /\ Len(Follow(link, s[a])) = Len(s) - a + 1
           /\ \A k \in 1..Len(s) - a + 1 : Follow(link, s[a])[k] = s[k + a - 1]
<1> DEFINE t == SubSeq(s, a, Len(s))
           M == Len(s) - a + 1
<1>1. t \in Seq(Id) /\ Len(t) = M /\ \A k \in 1..M : t[k] = s[k + a - 1]
  OBVIOUS
<1>2. M \in Nat /\ M >= 1 /\ \A k \in 1..M : k + a - 1 \in 1..Len(s)
  OBVIOUS
<1> HIDE DEF t
<1>3. Distinct(t)
  <2> SUFFICES ASSUME NEW i \in 1..M, NEW j \in 1..M, t[i] = t[j] PROVE i = j
    BY <1>1 DEF Distinct
  <2>1. s[i + a - 1] = s[j + a - 1]
    BY <1>1
  <2>2. i + a - 1 = j + a - 1
    BY <1>2, <2>1 DEF Distinct
  <2>3. QED
    BY <2>2
<1>4. Joins(link, t)
  <2> SUFFICES ASSUME NEW i \in 1..M PROVE link[t[i]] = IF i = M THEN Nil ELSE t[i + 1]
    BY <1>1 DEF Joins
  <2>1. i + a - 1 \in 1..Len(s) /\ (i = M <=> i + a - 1 = Len(s)) /\ (i + a - 1) + 1 = (i + 1) + a - 1
    OBVIOUS
  <2>2. link[s[i + a - 1]] = IF i = M THEN Nil ELSE s[(i + 1) + a - 1]
    BY <2>1 DEF Joins
  <2>3. i # M => i + 1 \in 1..M
    OBVIOUS
  <2>4. QED
    BY <1>1, <2>2, <2>3
<1>5. First(t) = s[a]
  BY <1>1, <1>2 DEF First
<1>6. Follow(link, First(t)) = t
  BY <1>1, <1>3, <1>4, FollowSpells, Zenon
<1>7. QED
  BY <1>1, <1>5, <1>6

\* Run a..b of the dead list is put after position p, or stays where it is.
LEMMA MoveSequenceDeadStep ==
    ASSUME IInv, NEW first \in Id, NEW last \in Id, NEW prev \in Id,
           MoveSequenceDead(first, last, prev)
    PROVE  \/ Yields(InsLists, CodeLists) /\ UNCHANGED vars
           \/ \E a \in 1..Len(InsLists["dead"]) : \E b \in a..Len(InsLists["dead"]) :
                \E p \in 1..Len(InsLists["dead"]) :
                  /\ p \notin a..b /\ p # a - 1 /\ InsLists["dead"][p] = prev
                  /\ Yields([InsLists EXCEPT !["dead"] = Swap(InsLists["dead"],
                                 RunX(a, b, p), RunY(a, b, p), RunZ(a, b, p))],
                            CodeLists)
<1> DEFINE D == InsLists["dead"]
           range == Follow(ins.next, first)
<1>1. /\ FieldsOK /\ InsClass \in [Id -> InsChain \cup {Nil}]
      /\ Spells(ins, InsChain, InsClass, InsLists)
      /\ Spells(code, Listed, CodeClass, CodeLists)
  BY InsClassType
<1>2. /\ D \in Seq(Id) /\ Distinct(D) /\ "dead" \in InsChain
      /\ Occurs(first, D) /\ Occurs(last, D) /\ Occurs(prev, D)
      /\ SpellsChain(ins, "dead", D)
  BY DeadList DEF MoveSequenceDead
<1>3. /\ ins \in Links(InsChain) /\ ins.next \in [Id -> Id \cup {Nil}]
      /\ Joins(ins.next, D)
  BY <1>1, <1>2 DEF Spells, Links, SpellsChain
<1>4. PICK a \in 1..Len(D) : D[a] = first
  BY <1>2 DEF Occurs
<1>5. PICK p \in 1..Len(D) : D[p] = prev
  BY <1>2 DEF Occurs
<1> HIDE DEF D
<1>6. PICK k \in 1..Len(range) :
          range[k] = last /\ \A i \in 1..k - 1 : range[i] # prev /\ range[i] # last
  BY DEF MoveSequenceDead
<1>7. /\ Len(range) = Len(D) - a + 1
      /\ \A i \in 1..Len(D) - a + 1 : range[i] = D[i + a - 1]
  <2>1. /\ Len(Follow(ins.next, D[a])) = Len(D) - a + 1
        /\ \A i \in 1..Len(D) - a + 1 : Follow(ins.next, D[a])[i] = D[i + a - 1]
    BY <1>2, <1>3, FollowRest
  <2>2. QED
    BY <1>4, <2>1
<1> HIDE DEF range
<1> DEFINE b == k + a - 1
<1>8. b \in a..Len(D) /\ D[b] = last /\ k \in 1..Len(D) - a + 1
  BY <1>2, <1>6, <1>7
<1>9. p \in a..b => p = b
  <2> SUFFICES ASSUME p \in a..b, p # b PROVE FALSE
    OBVIOUS
  <2>1. p - a + 1 \in 1..k - 1 /\ p - a + 1 \in 1..Len(D) - a + 1 /\ (p - a + 1) + a - 1 = p
    BY <1>2, <1>8
  <2>2. range[p - a + 1] = D[p]
    BY <1>7, <2>1
  <2>3. QED
    BY <1>5, <1>6, <2>1, <2>2
<1> HIDE DEF b
<1>10. /\ ins' = SpliceAfter(ins, "dead", prev, first, last)
       /\ UNCHANGED <<intree, gone, fields, code, sweep>>
  BY DEF MoveSequenceDead
<1>11. CASE p = b \/ p = a - 1
  <2>1. p = b => prev = last
    BY <1>5, <1>8
  <2>2. p = a - 1 => ins.next[prev] = first
    <3> HAVE p = a - 1
    <3>1. p \in 1..Len(D) /\ p # Len(D) /\ p + 1 = a
      BY <1>2
    <3>2. ins.next[D[p]] = D[p + 1]
      BY <1>3, <3>1 DEF Joins
    <3>3. QED
      BY <1>4, <1>5, <3>1, <3>2
  <2>3. ins' = ins
    BY <1>10, <1>11, <2>1, <2>2 DEF SpliceAfter
  <2>4. UNCHANGED <<intree, gone, fields, ins, code>> /\ sweep' \in BOOLEAN
    BY <1>1, <1>10, <2>3 DEF FieldsOK
  <2>5. Yields(InsLists, CodeLists)
    BY <2>4, SameStep
  <2>6. QED
    BY <1>10, <2>3, <2>5 DEF vars
<1>12. CASE p # b /\ p # a - 1
  <2> DEFINE x == RunX(a, b, p)
             y == RunY(a, b, p)
             z == RunZ(a, b, p)
             new == SpliceAfter(ins, "dead", prev, first, last)
  <2>1. p \notin a..b
    BY <1>9, <1>12
  <2>2. Runs(D, x, y, z) /\ SwapLinks(new, ins, "dead", D, x, y, z)
    <3>1. Runs(D, x, y, z) /\ SwapLinks(SpliceAfter(ins, "dead", D[p], D[a], D[b]), ins, "dead", D, x, y, z)
      BY <1>2, <1>3, <1>8, <1>12, <2>1, SpliceSwaps, Zenon
    <3>2. QED
      BY <1>4, <1>5, <1>8, <3>1, Zenon
  <2> HIDE DEF x, y, z, new
  <2>3. Spells(new, InsChain, InsClass, [InsLists EXCEPT !["dead"] = Swap(D, x, y, z)])
    BY <1>1, <1>2, <2>2, SwapSpells, Zenon DEF D
  <2>4. FieldsOK' /\ InsClass' = InsClass /\ CodeClass' = CodeClass
    BY <1>1, <1>10 DEF FieldsOK, InsClass, CodeClass, fields
  <2>5. Yields([InsLists EXCEPT !["dead"] = Swap(D, x, y, z)], CodeLists)
    BY <1>1, <1>10, <2>3, <2>4, Zenon DEF Yields, new
  <2>6. QED
    BY <1>5, <1>8, <1>12, <2>1, <2>5 DEF D, x, y, z
<1>13. QED
  BY <1>11, <1>12

\* One turn of destroy_dead takes the first op of the dead list.
LEMMA DestroyNextStep ==
    ASSUME IInv, DestroyNext
    PROVE  \E id \in intree :
             /\ dead[id] /\ Len(InsLists["dead"]) > 0 /\ id = InsLists["dead"][1]
             /\ sweep' = (Len(InsLists["dead"]) > 1)
             /\ Retire(id)
             /\ Yields(Moved(InsLists, "dead", "gone", id), Removed(CodeLists, id, opcode[id]))
<1> DEFINE D == InsLists["dead"]
           id == ins.head["dead"]
<1>1. /\ D \in Seq(Id) /\ Distinct(D) /\ "dead" \in InsChain
      /\ SpellsChain(ins, "dead", D)
  BY DeadList
<1>2. id # Nil /\ sweep' = (ins.next[id] # Nil) /\ Retire(id)
  BY DEF DestroyNext
<1>3. id = First(D)
  BY <1>1 DEF SpellsChain
<1>4. Len(D) > 0 /\ id = D[1] /\ 1 \in 1..Len(D)
  BY <1>1, <1>2, <1>3 DEF First
<1>5. ins.next[id] = IF 1 = Len(D) THEN Nil ELSE D[2]
  <2>1. ins.next[D[1]] = IF 1 = Len(D) THEN Nil ELSE D[1 + 1]
    BY <1>1, <1>4 DEF SpellsChain, Joins
  <2>2. QED
    BY <1>4, <2>1
<1>6. sweep' = (Len(D) > 1)
  <2>1. Len(D) > 1 => D[2] # Nil
    BY <1>1, BankAssumption
  <2>2. CASE Len(D) = 1
    <3>1. ins.next[id] = Nil /\ ~(Len(D) > 1)
      BY <1>5, <2>2
    <3>2. QED
      BY <1>2, <3>1
  <2>3. CASE Len(D) > 1
    <3>1. ins.next[id] = D[2]
      BY <1>5, <2>3
    <3>2. QED
      BY <1>2, <2>1, <2>3, <3>1
  <2>4. Len(D) = 1 \/ Len(D) > 1
    <3> DEFINE n == Len(D)
    <3>1. n \in Nat /\ n # 0
      BY <1>1, <1>4
    <3> HIDE DEF n
    <3>2. n = 1 \/ n > 1
      BY <3>1
    <3>3. QED
      BY <3>2 DEF n
  <2>5. QED
    BY <2>2, <2>3, <2>4
<1>7. id \in Id /\ InsClass[id] = "dead"
  <2>1. Occurs(id, D) /\ id \in Id
    BY <1>1, <1>4 DEF Occurs
  <2>2. QED
    BY <1>1, <2>1 DEF IInv, Spells, Partition
<1>8. id \in intree /\ dead[id]
  BY <1>7, BankAssumption DEF InsClass, InsChain
<1>9. sweep' \in BOOLEAN /\ Flagged(id) = "dead"
  BY <1>6, <1>8 DEF Flagged
<1> HIDE DEF id, D
<1>10. Yields(Moved(InsLists, "dead", "gone", id), Removed(CodeLists, id, opcode[id]))
  <2>1. Yields(Moved(InsLists, Flagged(id), "gone", id), Removed(CodeLists, id, opcode[id]))
    BY <1>2, <1>8, <1>9, RetireStep, Zenon
  <2>2. QED
    BY <1>9, <2>1, Zenon
<1>11. QED
  BY <1>2, <1>4, <1>6, <1>8, <1>10 DEF D
-----------------------------------------------------------------------------
(***************************************************************************)
(* The refinement: each action's lists are those of an operation of        *)
(* OpLists.                                                                *)
(***************************************************************************)

\* The lists of either pair of links side by side.
Joint(A, B) == [c \in InsChain \cup Listed |-> IF c \in InsChain THEN A[c] ELSE B[c]]

LEMMA ReadJoint ==
    ListsRead = Joint(InsLists, CodeLists)
<1>1. ASSUME NEW c \in InsChain \cup Listed
      PROVE  (IF c \in InsChain THEN Walk(ins, c) ELSE Walk(code, c))
               = IF c \in InsChain THEN InsLists[c] ELSE CodeLists[c]
  BY DEF InsLists, CodeLists
<1>2. QED
  BY <1>1 DEF ListsRead, Joint

LEMMA YieldsJoint ==
    ASSUME NEW A, NEW B, Yields(A, B)
    PROVE  ListsRead' = Joint(A, B)
<1>1. InsLists' = A /\ CodeLists' = B
  BY YieldsInv
<1>2. ASSUME NEW c \in InsChain \cup Listed
      PROVE  (IF c \in InsChain THEN Walk(ins', c) ELSE Walk(code', c))
               = IF c \in InsChain THEN A[c] ELSE B[c]
  BY <1>1 DEF InsLists, CodeLists
<1>3. QED
  BY <1>2 DEF ListsRead, Joint

\* The lists M are the lists L of these chains with id taken out of those in
\* over and appended where to says.
EditOf(M, L, chains, id, over, to) ==
    \A c \in chains :
        M[c] = IF c \notin over THEN L[c]
               ELSE IF c \in to THEN Append(Lists!Without(L[c], id), id)
               ELSE Lists!Without(L[c], id)

Relists(M, id, over, to) == M = Lists!Relisted(id, over, to)

LEMMA EditsRelist ==
    ASSUME NEW A, NEW B, NEW id, NEW over, NEW to,
           EditOf(A, InsLists, InsChain, id, over, to),
           EditOf(B, CodeLists, Listed, id, over, to)
    PROVE  Relists(Joint(A, B), id, over, to)
<1>1. Lists!Chain = InsChain \cup Listed
  BY DEF Lists!Chain, Lists!InsChain, InsChain
<1>2. ASSUME NEW c \in InsChain \cup Listed
      PROVE  (IF c \in InsChain THEN A[c] ELSE B[c])
               = IF c \notin over THEN ListsRead[c]
                 ELSE IF c \in to THEN Append(Lists!Without(ListsRead[c], id), id)
                 ELSE Lists!Without(ListsRead[c], id)
  <2>1. ListsRead[c] = IF c \in InsChain THEN InsLists[c] ELSE CodeLists[c]
    BY ReadJoint DEF Joint
  <2>2. CASE c \in InsChain
    BY <2>1, <2>2, Zenon DEF EditOf
  <2>3. CASE c \notin InsChain
    <3>1. c \in Listed
      BY <2>3
    <3>2. QED
      BY <2>1, <2>3, <3>1, Zenon DEF EditOf
  <2>4. QED
    BY <2>2, <2>3
<1>3. QED
  BY <1>1, <1>2, Zenon DEF Joint, Relists, Lists!Relisted

\* An op is in no list but that of its class.
Absent(L, c, id) == Lists!Without(L[c], id) = L[c]

LEMMA NotElsewhere ==
    ASSUME NEW chains, NEW l, NEW class, NEW L, Spells(l, chains, class, L),
           NEW id \in Id, NEW c \in chains, class[id] # c
    PROVE  Absent(L, c, id)
<1>1. L[c] \in Seq(Id) /\ ~Occurs(id, L[c])
  BY DEF Spells, Partition
<1>2. QED
  BY <1>1, WithoutNone, Zenon DEF Absent

LEMMA MovedEdits ==
    ASSUME NEW chains, NEW l, NEW class, NEW L, Spells(l, chains, class, L),
           NEW c \in chains, NEW d \in chains, c # d, NEW id \in Id, class[id] = c,
           NEW over, NEW to, c \in over, d \in over, \A e \in chains : e \in to <=> e = d
    PROVE  EditOf(Moved(L, c, d, id), L, chains, id, over, to)
<1>1. ASSUME NEW e \in chains, e # c PROVE Absent(L, e, id)
  <2>1. class[id] # e
    BY <1>1
  <2>2. QED
    BY <2>1, NotElsewhere, Zenon
<1>2. L \in [chains -> Seq(Id)]
  BY DEF Spells, Partition
<1>3. \A e \in chains : Moved(L, c, d, id)[e] =
          IF e = d THEN Append(L[d], id) ELSE IF e = c THEN Lists!Without(L[c], id) ELSE L[e]
  BY <1>2 DEF Moved
<1>4. QED
  BY <1>1, <1>3, Zenon DEF EditOf, Absent

LEMMA AppendedEdits ==
    ASSUME NEW chains, NEW l, NEW class, NEW L, Spells(l, chains, class, L),
           NEW d \in chains, NEW id \in Id, class[id] = Nil,
           NEW over, NEW to, chains \subseteq over, \A e \in chains : e \in to <=> e = d
    PROVE  EditOf([L EXCEPT ![d] = Append(L[d], id)], L, chains, id, over, to)
<1>1. ASSUME NEW e \in chains PROVE Absent(L, e, id)
  <2>1. class[id] # e
    BY DEF Spells, Partition
  <2>2. QED
    BY <2>1, NotElsewhere, Zenon
<1>2. L \in [chains -> Seq(Id)]
  BY DEF Spells, Partition
<1> DEFINE M == [L EXCEPT ![d] = Append(L[d], id)]
<1>3. \A e \in chains : M[e] = IF e = d THEN Append(L[d], id) ELSE L[e]
  BY <1>2
<1>4. \A e \in chains : e \in over
  OBVIOUS
<1> HIDE DEF M
<1>5. EditOf(M, L, chains, id, over, to)
  BY <1>1, <1>3, <1>4, Zenon DEF EditOf, Absent
<1>6. QED
  BY <1>5 DEF M

LEMMA SameEdits ==
    ASSUME NEW chains, NEW L, NEW id, NEW over, NEW to, \A e \in chains : e \notin over
    PROVE  EditOf(L, L, chains, id, over, to)
BY Zenon DEF EditOf

LEMMA AddedEdits ==
    ASSUME NEW l, NEW class, NEW L, Spells(l, Listed, class, L),
           NEW id \in Id, class[id] = Nil, NEW opc,
           NEW over, NEW to, Listed \subseteq over, \A e \in Listed : e \in to <=> e = opc
    PROVE  EditOf(Added(L, id, opc), L, Listed, id, over, to)
<1>1. ASSUME NEW e \in Listed PROVE Absent(L, e, id)
  <2>1. class[id] # e
    BY DEF Spells, Partition
  <2>2. QED
    BY <2>1, NotElsewhere, Zenon
<1>2. L \in [Listed -> Seq(Id)]
  BY DEF Spells, Partition
<1>3. \A e \in Listed : Added(L, id, opc)[e] = IF e = opc THEN Append(L[e], id) ELSE L[e]
  BY <1>2 DEF Added
<1>4. \A e \in Listed : e \in over
  OBVIOUS
<1>5. QED
  BY <1>1, <1>3, <1>4, Zenon DEF EditOf, Absent

\* The op is only taken out.
TakenOut(M, L, id) == \A e \in Listed : M[e] = Lists!Without(L[e], id)

LEMMA RemovedEdits ==
    ASSUME NEW l, NEW class, NEW L, Spells(l, Listed, class, L),
           NEW id \in Id, NEW opc, class[id] = CodeOf(opc)
    PROVE  TakenOut(Removed(L, id, opc), L, id)
<1>1. ASSUME NEW e \in Listed, e # opc PROVE Absent(L, e, id)
  <2>1. Nil \notin Listed
    BY DEF Spells, Partition
  <2>2. class[id] # e
    BY <1>1, <2>1 DEF CodeOf
  <2>3. QED
    BY <2>2, NotElsewhere, Zenon
<1>2. L \in [Listed -> Seq(Id)]
  BY DEF Spells, Partition
<1>3. \A e \in Listed : Removed(L, id, opc)[e] = IF e = opc THEN Lists!Without(L[e], id) ELSE L[e]
  BY <1>2 DEF Removed
<1>4. QED
  BY <1>1, <1>3, Zenon DEF Absent, TakenOut

\* Which lists an op is in.
LEMMA Members ==
    ASSUME IInv, NEW id \in Id
    PROVE  /\ \A c \in InsChain : Lists!In(c, id) <=> InsClass[id] = c
           /\ \A c \in Listed : Lists!In(c, id) <=> CodeClass[id] = c
<1>1. ASSUME NEW c \in InsChain \cup Listed
      PROVE  Lists!In(c, id) <=> Occurs(id, IF c \in InsChain THEN InsLists[c] ELSE CodeLists[c])
  <2>1. ListsRead[c] = IF c \in InsChain THEN InsLists[c] ELSE CodeLists[c]
    BY ReadJoint DEF Joint
  <2>2. Lists!In(c, id) <=> Occurs(id, ListsRead[c])
    BY DEF Lists!In, Lists!Ran, Occurs
  <2>3. QED
    BY <2>1, <2>2, Zenon
<1>2. ASSUME NEW c \in InsChain PROVE Lists!In(c, id) <=> InsClass[id] = c
  <2>1. InsClass[id] = c <=> Occurs(id, InsLists[c])
    BY DEF IInv, Spells, Partition
  <2>2. QED
    BY <1>1, <2>1
<1>3. ASSUME NEW c \in Listed PROVE Lists!In(c, id) <=> CodeClass[id] = c
  <2>1. CodeClass[id] = c <=> Occurs(id, CodeLists[c])
    BY DEF IInv, Spells, Partition
  <2>2. c \notin InsChain
    BY BankAssumption
  <2>3. QED
    BY <1>1, <2>1, <2>2
<1>4. QED
  BY <1>2, <1>3

\* Chain names are told apart, and the chains of OpLists are the seven.
LEMMA ChainNames ==
    /\ Lists!Chain = InsChain \cup Listed /\ InsChain = {"alive", "dead", "gone"}
    /\ \A c \in Listed : c \notin InsChain
    /\ \A c \in InsChain : c \notin Listed
BY BankAssumption DEF Lists!Chain, Lists!InsChain, InsChain

LEMMA CreateRefines ==
    ASSUME IInv, NEW id \in Id, NEW opc \in OpCode, Create(id, opc)
    PROVE  Lists!Create(id, "alive", opc)
<1> DEFINE A == [InsLists EXCEPT !["alive"] = Append(InsLists["alive"], id)]
           B == Added(CodeLists, id, opc)
           to == {"alive"} \cup ({opc} \cap Listed)
           over == Lists!Chain
<1>1. Yields(A, B)
  BY CreateStep
<1>2. InsClass[id] = Nil /\ CodeClass[id] = Nil
  BY DEF Create, Slot, InsClass, CodeClass
<1>3. /\ "alive" \in InsChain /\ \A e \in InsChain : e \in to <=> e = "alive"
      /\ \A e \in Listed : e \in to <=> e = opc
      /\ InsChain \subseteq over /\ Listed \subseteq over
  BY ChainNames
<1>4. /\ Spells(ins, InsChain, InsClass, InsLists)
      /\ Spells(code, Listed, CodeClass, CodeLists)
  BY InsClassType
<1> HIDE DEF to, over
<1>5. EditOf(A, InsLists, InsChain, id, over, to)
  BY <1>2, <1>3, <1>4, AppendedEdits, Zenon
<1>6. EditOf(B, CodeLists, Listed, id, over, to)
  BY <1>2, <1>3, <1>4, AddedEdits, Zenon
<1> HIDE DEF A, B
<1>7. Relists(Joint(A, B), id, over, to)
  BY <1>5, <1>6, EditsRelist, Zenon
<1>8. ListsRead' = Lists!Relisted(id, over, to)
  BY <1>1, <1>7, YieldsJoint, Zenon DEF Relists
<1>9. \A d \in Lists!Chain : ~Lists!In(d, id)
  <2>1. /\ \A c \in InsChain : Lists!In(c, id) <=> InsClass[id] = c
        /\ \A c \in Listed : Lists!In(c, id) <=> CodeClass[id] = c
    BY Members
  <2>2. QED
    BY <1>2, <2>1, ChainNames, BankAssumption
<1>10. opcode' = [opcode EXCEPT ![id] = opc]
  BY DEF Create, Slot
<1>11. QED
  BY <1>8, <1>9, <1>10, Zenon DEF Lists!Create, over, to

LEMMA CreateSeqRefines ==
    ASSUME IInv, NEW id \in Id, CreateSeq(id)
    PROVE  Lists!Create(id, "dead", Copy)
<1> DEFINE A == [InsLists EXCEPT !["dead"] = Append(InsLists["dead"], id)]
           B == CodeLists
           to == {"dead"} \cup ({Copy} \cap Listed)
           over == Lists!Chain
<1>1. Yields(A, B)
  BY CreateSeqStep
<1>2. InsClass[id] = Nil /\ CodeClass[id] = Nil
  BY DEF CreateSeq, Slot, InsClass, CodeClass
<1>3. /\ "dead" \in InsChain /\ \A e \in InsChain : e \in to <=> e = "dead"
      /\ \A e \in Listed : e \in to <=> e = Copy
      /\ InsChain \subseteq over /\ Listed \subseteq over
  BY ChainNames
<1>4. /\ Spells(ins, InsChain, InsClass, InsLists)
      /\ Spells(code, Listed, CodeClass, CodeLists)
  BY InsClassType
<1> HIDE DEF to, over
<1>5. EditOf(A, InsLists, InsChain, id, over, to)
  BY <1>2, <1>3, <1>4, AppendedEdits, Zenon
<1>6. EditOf(B, CodeLists, Listed, id, over, to)
  <2>1. EditOf(Added(CodeLists, id, Copy), CodeLists, Listed, id, over, to)
    BY <1>2, <1>3, <1>4, AddedEdits, Zenon
  <2>2. Added(CodeLists, id, Copy) = CodeLists
    BY BankAssumption DEF Added
  <2>3. QED
    BY <2>1, <2>2
<1> HIDE DEF A, B
<1>7. Relists(Joint(A, B), id, over, to)
  BY <1>5, <1>6, EditsRelist, Zenon DEF B
<1>8. ListsRead' = Lists!Relisted(id, over, to)
  BY <1>1, <1>7, YieldsJoint, Zenon DEF Relists
<1>9. \A d \in Lists!Chain : ~Lists!In(d, id)
  <2>1. /\ \A c \in InsChain : Lists!In(c, id) <=> InsClass[id] = c
        /\ \A c \in Listed : Lists!In(c, id) <=> CodeClass[id] = c
    BY Members
  <2>2. QED
    BY <1>2, <2>1, ChainNames, BankAssumption
<1>10. opcode' = [opcode EXCEPT ![id] = Copy]
  BY DEF CreateSeq, Slot
<1>11. QED
  BY <1>8, <1>9, <1>10, Zenon DEF Lists!Create, over, to

\* An op that changes its flag goes from one list to the end of the other.
LEMMA ReviveRefines ==
    ASSUME IInv, NEW id \in Id, NEW from \in InsChain, NEW to \in InsChain, from # to,
           InsClass[id] = from, Yields(Moved(InsLists, from, to, id), CodeLists),
           opcode' = opcode
    PROVE  Lists!Revive(id, from, to)
<1> DEFINE A == Moved(InsLists, from, to, id)
           over == {from, to}
           dest == {to}
<1>1. /\ Spells(ins, InsChain, InsClass, InsLists)
      /\ Spells(code, Listed, CodeClass, CodeLists)
  BY InsClassType
<1>2. /\ from \in over /\ to \in over /\ \A e \in InsChain : e \in dest <=> e = to
      /\ \A e \in Listed : e \notin over
  BY ChainNames
<1> HIDE DEF over, dest
<1>3. EditOf(A, InsLists, InsChain, id, over, dest)
  BY <1>1, <1>2, MovedEdits, Zenon
<1>4. EditOf(CodeLists, CodeLists, Listed, id, over, dest)
  BY <1>2, SameEdits, Zenon
<1> HIDE DEF A
<1>5. Relists(Joint(A, CodeLists), id, over, dest)
  BY <1>3, <1>4, EditsRelist, Zenon
<1>6. ListsRead' = Joint(A, CodeLists)
  BY YieldsJoint, Zenon DEF A
<1>7. Lists!In(from, id)
  BY Members
<1>8. QED
  BY <1>5, <1>6, <1>7, Zenon DEF Lists!Revive, Relists, over, dest

LEMMA ChangeOpcodeRefines ==
    ASSUME IInv, NEW id \in Id, NEW opc \in OpCode, ChangeOpcode(id, opc)
    PROVE  Lists!SetOpcode(id, opc)
<1> DEFINE R == Removed(CodeLists, id, opcode[id])
           B == Added(R, id, opc)
           to == {opc} \cap Listed
           over == Listed
<1>1. Yields(InsLists, B)
  BY ChangeOpcodeStep
<1>2. /\ Spells(ins, InsChain, InsClass, InsLists)
      /\ Spells(code, Listed, CodeClass, CodeLists)
      /\ CodeClass[id] = CodeOf(opcode[id])
      /\ InsClass[id] = "alive" \/ InsClass[id] = "dead"
  BY InsClassType DEF ChangeOpcode, CodeClass, InsClass, CodeOf, FieldsOK
<1>3. TakenOut(R, CodeLists, id)
  BY <1>2, RemovedEdits, Zenon
<1>4. R \in [Listed -> Seq(Id)]
  <2>1. Spells(RemoveFromCodeList(code, id, opcode[id]), Listed,
               [CodeClass EXCEPT ![id] = Nil], R)
    BY <1>2, RemoveSpells, Zenon
  <2>2. QED
    BY <2>1 DEF Spells, Partition
<1> HIDE DEF R
<1>5. \A e \in Listed : B[e] = IF e = opc THEN Append(R[e], id) ELSE R[e]
  BY <1>4 DEF Added
<1>6. (\A e \in InsChain : e \notin over) /\ \A e \in Listed : e \in over /\ (e \in to <=> e = opc)
  BY ChainNames
<1> HIDE DEF B, over, to
<1>7. EditOf(B, CodeLists, Listed, id, over, to)
  BY <1>3, <1>5, <1>6, Zenon DEF EditOf, TakenOut
<1>8. EditOf(InsLists, InsLists, InsChain, id, over, to)
  BY <1>6, SameEdits, Zenon
<1>9. ListsRead' = Lists!Relisted(id, over, to)
  <2>1. Relists(Joint(InsLists, B), id, over, to)
    BY <1>7, <1>8, EditsRelist, Zenon
  <2>2. QED
    BY <1>1, <2>1, YieldsJoint, Zenon DEF Relists
<1>10. Lists!In("alive", id) \/ Lists!In("dead", id)
  <2>1. "alive" \in InsChain /\ "dead" \in InsChain
    BY DEF InsChain
  <2>2. QED
    BY <1>2, <2>1, Members
<1>11. opcode' = [opcode EXCEPT ![id] = opc]
  BY DEF ChangeOpcode
<1>12. QED
  BY <1>9, <1>10, <1>11, Zenon DEF Lists!SetOpcode, over, to

LEMMA RetireRefines ==
    ASSUME IInv, NEW id \in intree, Retire(id), sweep' \in BOOLEAN
    PROVE  Lists!Retire(id)
<1> DEFINE A == Moved(InsLists, Flagged(id), "gone", id)
           B == Removed(CodeLists, id, opcode[id])
           to == {"gone"}
           over == Lists!Chain
<1>1. Yields(A, B)
  BY RetireStep
<1>2. /\ Spells(ins, InsChain, InsClass, InsLists)
      /\ Spells(code, Listed, CodeClass, CodeLists)
      /\ FieldsOK /\ id \in Id
  BY InsClassType DEF FieldsOK
<1>3. /\ InsClass[id] = Flagged(id) /\ CodeClass[id] = CodeOf(opcode[id])
      /\ Flagged(id) \in {"alive", "dead"}
  BY <1>2 DEF InsClass, CodeClass, CodeOf, FieldsOK, Flagged
<1>4. /\ Flagged(id) \in InsChain /\ "gone" \in InsChain /\ Flagged(id) # "gone"
      /\ \A e \in InsChain : e \in over /\ (e \in to <=> e = "gone")
      /\ \A e \in Listed : e \in over /\ e \notin to
      /\ "alive" \in InsChain /\ "dead" \in InsChain
  BY <1>3, ChainNames
<1> HIDE DEF to, over
<1>5. EditOf(A, InsLists, InsChain, id, over, to)
  <2>1. Flagged(id) \in over /\ "gone" \in over
    BY <1>4
  <2>2. QED
    BY <1>2, <1>3, <1>4, <2>1, MovedEdits, Zenon
<1>6. EditOf(B, CodeLists, Listed, id, over, to)
  <2>1. TakenOut(B, CodeLists, id)
    BY <1>2, <1>3, RemovedEdits, Zenon
  <2> HIDE DEF B
  <2>2. QED
    BY <1>4, <2>1, Zenon DEF EditOf, TakenOut
<1> HIDE DEF A, B
<1>7. Relists(Joint(A, B), id, over, to)
  BY <1>5, <1>6, EditsRelist, Zenon
<1>8. ListsRead' = Lists!Relisted(id, over, to)
  BY <1>1, <1>7, YieldsJoint, Zenon DEF Relists
<1>9. Lists!In("alive", id) \/ Lists!In("dead", id)
  BY <1>2, <1>3, <1>4, Members
<1>10. opcode' = opcode
  BY DEF Retire, fields
<1>11. QED
  BY <1>8, <1>9, <1>10, Zenon DEF Lists!Retire, over, to

\* The list s with the run a..b taken out.
CutOut(s, a, b) == SubSeq(s, 1, a - 1) \o SubSeq(s, b + 1, Len(s))

IsCut(t, s, a, b) ==
    /\ t \in Seq(Id) /\ Len(t) = Len(s) - (b - a + 1)
    /\ \A i \in 1..Len(t) : t[i] = IF i < a THEN s[i] ELSE s[i + (b - a + 1)]

LEMMA CutType ==
    ASSUME NEW s \in Seq(Id), NEW a \in 1..Len(s), NEW b \in a..Len(s)
    PROVE  IsCut(CutOut(s, a, b), s, a, b)
<1> DEFINE x == SubSeq(s, 1, a - 1)
           y == SubSeq(s, b + 1, Len(s))
           t == x \o y
           N == Len(s)
<1>1. a \in Nat /\ b \in Nat /\ N \in Nat /\ 1 <= a /\ a <= b /\ b <= N
  OBVIOUS
<1>2. x \in Seq(Id) /\ Len(x) = a - 1 /\ \A i \in 1..a - 1 : x[i] = s[i]
  <2>1. \A i \in 1..a - 1 : i \in 1..N
    BY <1>1
  <2>2. QED
    BY <1>1, <2>1
<1>3. y \in Seq(Id) /\ Len(y) = N - b /\ \A i \in 1..N - b : y[i] = s[i + b]
  OBVIOUS
<1> HIDE DEF x, y
<1>4. /\ t \in Seq(Id) /\ Len(t) = Len(x) + Len(y)
      /\ \A i \in 1..Len(x) + Len(y) : t[i] = IF i <= Len(x) THEN x[i] ELSE y[i - Len(x)]
  <2>1. x \in Seq(Id) /\ y \in Seq(Id)
    BY <1>2, <1>3
  <2>2. QED
    BY <2>1
<1> HIDE DEF t
<1>5. Len(t) = N - (b - a + 1)
  BY <1>1, <1>2, <1>3, <1>4
<1>6. ASSUME NEW i \in 1..Len(t)
      PROVE  t[i] = IF i < a THEN s[i] ELSE s[i + (b - a + 1)]
  <2>1. i \in Nat /\ 1 <= i /\ i <= N - (b - a + 1)
    BY <1>5, <1>4
  <2>2. CASE i < a
    <3>1. i \in 1..a - 1 /\ i <= Len(x) /\ i \in 1..Len(x) + Len(y)
      BY <1>1, <1>2, <1>3, <2>1, <2>2
    <3>2. t[i] = x[i]
      BY <1>4, <3>1
    <3>3. QED
      BY <1>2, <2>2, <3>1, <3>2
  <2>3. CASE ~(i < a)
    <3>1. /\ ~(i <= Len(x)) /\ i \in 1..Len(x) + Len(y) /\ i - Len(x) = i - (a - 1)
          /\ i - (a - 1) \in 1..N - b /\ (i - (a - 1)) + b = i + (b - a + 1)
      BY <1>1, <1>2, <1>3, <2>1, <2>3
    <3>2. t[i] = y[i - (a - 1)]
      BY <1>4, <3>1
    <3>3. y[i - (a - 1)] = s[(i - (a - 1)) + b]
      BY <1>3, <3>1
    <3>4. QED
      BY <2>3, <3>1, <3>2, <3>3
  <2>4. QED
    BY <2>2, <2>3
<1>7. IsCut(t, s, a, b)
  BY <1>4, <1>5, <1>6 DEF IsCut, N
<1>8. QED
  BY <1>7 DEF t, x, y, CutOut

\* Taking a run out leaves no repetition.
LEMMA CutDistinct ==
    ASSUME NEW s \in Seq(Id), Distinct(s), NEW a \in 1..Len(s), NEW b \in a..Len(s),
           NEW t, IsCut(t, s, a, b)
    PROVE  Distinct(t)
<1> DEFINE N == Len(s)
           M == Len(t)
<1>1. a \in Nat /\ b \in Nat /\ N \in Nat /\ 1 <= a /\ a <= b /\ b <= N
      /\ M = N - (b - a + 1)
  BY DEF IsCut
<1>2. \A i, j \in 1..N : s[i] = s[j] => i = j
  BY DEF Distinct
<1>3. \A i \in 1..M : t[i] = IF i < a THEN s[i] ELSE s[i + (b - a + 1)]
  BY DEF IsCut
<1> HIDE DEF N, M
<1> SUFFICES ASSUME NEW i \in 1..M, NEW j \in 1..M, t[i] = t[j] PROVE i = j
  BY DEF Distinct, M
<1> DEFINE u == IF i < a THEN i ELSE i + (b - a + 1)
           v == IF j < a THEN j ELSE j + (b - a + 1)
<1>4. u \in 1..N /\ v \in 1..N /\ (u = v => i = j)
  BY <1>1
<1>5. t[i] = s[u] /\ t[j] = s[v]
  BY <1>3
<1> HIDE DEF u, v
<1>6. QED
  BY <1>2, <1>4, <1>5

\* The list t with the list u put in after position q.
IsAfter(v, t, q, u) ==
    /\ v \in Seq(Id) /\ Len(v) = Len(t) + Len(u)
    /\ \A i \in 1..Len(t) + Len(u) :
           v[i] = IF i <= q THEN t[i] ELSE IF i <= q + Len(u) THEN u[i - q] ELSE t[i - Len(u)]

LEMMA AfterType ==
    ASSUME NEW t \in Seq(Id), Distinct(t), NEW q \in 1..Len(t), NEW u \in Seq(Id)
    PROVE  IsAfter(Lists!After(t, t[q], u), t, q, u)
<1> DEFINE x == SubSeq(t, 1, q)
           y == SubSeq(t, q + 1, Len(t))
           v == x \o u \o y
           N == Len(t)
           M == Len(u)
<1>1. Lists!At(t, t[q]) = q
  <2>1. \A i \in 1..Len(t) : t[i] = t[q] <=> i = q
    BY DEF Distinct
  <2>2. QED
    BY <2>1 DEF Lists!At
<1>2. Lists!After(t, t[q], u) = v
  BY <1>1 DEF Lists!After
<1>3. q \in Nat /\ N \in Nat /\ M \in Nat /\ 1 <= q /\ q <= N
  OBVIOUS
<1>4. x \in Seq(Id) /\ Len(x) = q /\ \A i \in 1..q : x[i] = t[i]
  OBVIOUS
<1>5. y \in Seq(Id) /\ Len(y) = N - q /\ \A i \in 1..N - q : y[i] = t[i + q]
  OBVIOUS
<1> DEFINE z == x \o u
<1> HIDE DEF x, y
<1>6. /\ z \in Seq(Id) /\ Len(z) = q + M
      /\ \A i \in 1..q + M : z[i] = IF i <= q THEN x[i] ELSE u[i - q]
  BY <1>4, SMTT(60)
<1>7. v = z \o y
  OBVIOUS
<1> HIDE DEF z, v
<1>8. /\ v \in Seq(Id) /\ Len(v) = (q + M) + (N - q)
      /\ \A i \in 1..(q + M) + (N - q) : v[i] = IF i <= q + M THEN z[i] ELSE y[i - (q + M)]
  <2>1. z \in Seq(Id) /\ y \in Seq(Id) /\ Len(z) = q + M /\ Len(y) = N - q
    BY <1>5, <1>6
  <2>2. /\ z \o y \in Seq(Id) /\ Len(z \o y) = Len(z) + Len(y)
        /\ \A i \in 1..Len(z) + Len(y) :
               (z \o y)[i] = IF i <= Len(z) THEN z[i] ELSE y[i - Len(z)]
    <3>1. z \in Seq(Id) /\ y \in Seq(Id)
      BY <2>1
    <3>2. QED
      BY <3>1
  <2>3. QED
    BY <1>7, <2>1, <2>2
<1>9. (q + M) + (N - q) = N + M
  BY <1>3
<1>10. ASSUME NEW i \in 1..N + M
       PROVE  v[i] = IF i <= q THEN t[i] ELSE IF i <= q + M THEN u[i - q] ELSE t[i - M]
  <2>1. CASE i <= q
    <3>1. i \in 1..q /\ i \in 1..q + M /\ i <= q + M
      BY <1>3, <2>1
    <3>2. QED
      BY <1>4, <1>6, <1>8, <1>9, <2>1, <3>1
  <2>2. CASE q < i /\ i <= q + M
    <3>1. i \in 1..q + M /\ ~(i <= q)
      BY <1>3, <2>2
    <3>2. QED
      BY <1>6, <1>8, <1>9, <2>2, <3>1
  <2>3. CASE q + M < i
    <3>1. /\ ~(i <= q + M) /\ ~(i <= q) /\ i - (q + M) \in 1..N - q
          /\ (i - (q + M)) + q = i - M
      BY <1>3, <2>3
    <3>2. v[i] = y[i - (q + M)]
      BY <1>8, <1>9, <3>1
    <3>3. y[i - (q + M)] = t[(i - (q + M)) + q]
      BY <1>5, <3>1
    <3>4. QED
      BY <3>1, <3>2, <3>3
  <2>4. QED
    BY <1>3, <2>1, <2>2, <2>3
<1>11. IsAfter(v, t, q, u)
  BY <1>8, <1>9, <1>10 DEF IsAfter, N, M
<1>12. QED
  BY <1>2, <1>11

\* Moving one op is dropping it and putting it back.
LEMMA MoveOne ==
    ASSUME NEW s \in Seq(Id), Distinct(s), NEW a \in 1..Len(s), NEW q \in 1..Len(Drop(s, a))
    PROVE  Put(Drop(s, a), q, s[a])
             = Lists!After(CutOut(s, a, a), Drop(s, a)[q], SubSeq(s, a, a))
<1> DEFINE t == CutOut(s, a, a)
           d == Drop(s, a)
           u == SubSeq(s, a, a)
<1>1. a \in a..Len(s)
  OBVIOUS
<1>2. IsCut(t, s, a, a) /\ Distinct(t)
  BY <1>1, CutType, CutDistinct, Zenon
<1>3. IsDrop(d, s, a)
  BY DropType, Zenon
<1>4. u \in Seq(Id) /\ Len(u) = 1 /\ u[1] = s[a] /\ s[a] \in Id
  OBVIOUS
<1> HIDE DEF t, u, d
<1>5. t = d
  <2>1. t \in Seq(Id) /\ d \in Seq(Id) /\ Len(t) = Len(d) /\ Len(t) = Len(s) - 1
    BY <1>2, <1>3 DEF IsCut, IsDrop
  <2>2. a \in Nat /\ a - a + 1 = 1
    OBVIOUS
  <2>3. ASSUME NEW i \in 1..Len(t) PROVE t[i] = IF i < a THEN s[i] ELSE s[i + 1]
    <3>1. t[i] = IF i < a THEN s[i] ELSE s[i + (a - a + 1)]
      BY <1>2 DEF IsCut
    <3>2. i + (a - a + 1) = i + 1
      BY <2>1, <2>2
    <3>3. QED
      BY <3>1, <3>2
  <2>4. \A i \in 1..Len(t) : d[i] = IF i < a THEN s[i] ELSE s[i + 1]
    BY <1>3, <2>1 DEF IsDrop
  <2>5. \A i \in 1..Len(t) : t[i] = d[i]
    BY <2>3, <2>4
  <2>6. t \in Seq(Id) /\ d \in Seq(Id) /\ Len(t) = Len(d)
    BY <2>1
  <2>7. QED
    BY <2>5, <2>6
<1>6. t \in Seq(Id) /\ q \in 1..Len(t) /\ q \in 0..Len(t)
  BY <1>2, <1>5 DEF IsCut, d
<1> DEFINE v == Lists!After(t, t[q], u)
           w == Put(t, q, s[a])
<1>7. IsAfter(v, t, q, u)
  BY <1>2, <1>4, <1>6, AfterType, Zenon
<1>8. IsPut(w, t, q, s[a])
  BY <1>4, <1>6, PutType, Zenon
<1> HIDE DEF v, w
<1>9. v = w
  <2>1. v \in Seq(Id) /\ w \in Seq(Id) /\ Len(v) = Len(t) + 1 /\ Len(w) = Len(t) + 1
    BY <1>4, <1>7, <1>8 DEF IsAfter, IsPut
  <2>2. ASSUME NEW i \in 1..Len(t) + 1 PROVE v[i] = w[i]
    <3>1. v[i] = IF i <= q THEN t[i] ELSE IF i <= q + 1 THEN u[i - q] ELSE t[i - 1]
      BY <1>4, <1>7 DEF IsAfter
    <3>2. w[i] = IF i <= q THEN t[i] ELSE IF i = q + 1 THEN s[a] ELSE t[i - 1]
      BY <1>8 DEF IsPut
    <3>3. CASE i = q + 1
      <4>1. ~(i <= q) /\ i <= q + 1 /\ i - q = 1
        BY <1>6, <3>3
      <4>2. QED
        BY <1>4, <3>1, <3>2, <3>3, <4>1
    <3>4. CASE i # q + 1
      <4>1. i <= q + 1 => i <= q
        BY <1>6, <3>4
      <4>2. QED
        BY <3>1, <3>2, <3>4, <4>1
    <3>5. QED
      BY <3>3, <3>4
  <2>3. QED
    BY <2>1, <2>2
<1>10. Put(d, q, s[a]) = Lists!After(t, d[q], u)
  BY <1>5, <1>9 DEF v, w
<1>11. QED
  BY <1>10, Zenon DEF t, d, u

\* Moving a run exchanges it with the ops it passes.
LEMMA MoveRun ==
    ASSUME NEW s \in Seq(Id), Distinct(s), NEW a \in 1..Len(s), NEW b \in a..Len(s),
           NEW p \in 1..Len(s), p \notin a..b, p # a - 1
    PROVE  Swap(s, RunX(a, b, p), RunY(a, b, p), RunZ(a, b, p))
             = Lists!After(CutOut(s, a, b), s[p], SubSeq(s, a, b))
<1> DEFINE t == CutOut(s, a, b)
           u == SubSeq(s, a, b)
           N == Len(s)
           K == b - a + 1
           x == RunX(a, b, p)
           y == RunY(a, b, p)
           z == RunZ(a, b, p)
           w == Swap(s, x, y, z)
           q == IF p > b THEN p - K ELSE p
           v == Lists!After(t, t[q], u)
<1>1. a \in Nat /\ b \in Nat /\ N \in Nat /\ 1 <= a /\ a <= b /\ b <= N
      /\ p \in 1..N /\ (p > b \/ p < a - 1)
  OBVIOUS
<1>2. K \in Nat /\ K >= 1 /\ K = b - a + 1
  BY <1>1
<1>3. IsCut(t, s, a, b) /\ Distinct(t)
  BY CutType, CutDistinct, Zenon
<1>4. u \in Seq(Id) /\ Len(u) = K /\ \A i \in 1..K : u[i] = s[i + a - 1]
  OBVIOUS
<1>5. IsSwap(w, s, x, y, z)
  <2>1. Runs(s, x, y, z)
    BY <1>1 DEF Runs, RunX, RunY, RunZ, N
  <2> HIDE DEF x, y, z
  <2>2. QED
    BY <2>1, SwapType, Zenon
<1> HIDE DEF t, u, w, K, N
<1>6. /\ t \in Seq(Id) /\ Len(t) = N - K
      /\ \A i \in 1..N - K : t[i] = IF i < a THEN s[i] ELSE s[i + K]
  BY <1>3 DEF IsCut, K, N
<1>7. q \in 1..Len(t) /\ t[q] = s[p]
  <2>1. CASE p > b
    <3>1. p - K \in 1..N - K /\ ~(p - K < a) /\ (p - K) + K = p
      BY <1>1, <1>2, <2>1
    <3>2. QED
      BY <1>6, <2>1, <3>1
  <2>2. CASE ~(p > b)
    <3>1. p \in 1..N - K /\ p < a
      BY <1>1, <1>2, <2>2
    <3>2. QED
      BY <1>6, <2>2, <3>1
  <2>3. QED
    BY <2>1, <2>2
<1> HIDE DEF q
<1>8. IsAfter(v, t, q, u)
  BY <1>3, <1>4, <1>6, <1>7, AfterType, Zenon
<1> HIDE DEF v, x, y, z
<1>9. v \in Seq(Id) /\ w \in Seq(Id) /\ Len(v) = N /\ Len(w) = N
  BY <1>1, <1>2, <1>4, <1>5, <1>6, <1>8 DEF IsAfter, IsSwap, N
<1>10. \A i \in 1..N :
           v[i] = IF i <= q THEN t[i] ELSE IF i <= q + K THEN u[i - q] ELSE t[i - K]
  <2>1. Len(t) + Len(u) = N
    BY <1>1, <1>2, <1>4, <1>6
  <2>2. QED
    BY <1>4, <1>8, <2>1 DEF IsAfter
<1>11. /\ \A i \in 1..N : i < x \/ i > z => w[i] = s[i]
       /\ \A i \in 1..N : x <= i /\ i < x + (z - y) => w[i] = s[i + (y - x + 1)]
       /\ \A i \in 1..N : x + (z - y) <= i /\ i <= z => w[i] = s[i - (z - y)]
  BY <1>5 DEF IsSwap, N
<1>12. ASSUME NEW i \in 1..N PROVE v[i] = w[i]
  <2>1. CASE p > b
    <3>1. q = p - K /\ x = a /\ y = b /\ z = p
      BY <2>1 DEF q, x, y, z, RunX, RunY, RunZ
    <3>2. CASE i <= q
      <4>1. i \in 1..N - K
        BY <1>1, <1>2, <3>1, <3>2
      <4>2. v[i] = IF i < a THEN s[i] ELSE s[i + K]
        BY <1>6, <1>10, <3>2, <4>1
      <4>3. i < a => i < x
        BY <3>1
      <4>4. ~(i < a) => x <= i /\ i < x + (z - y) /\ i + (y - x + 1) = i + K
        BY <1>1, <1>2, <3>1, <3>2
      <4>5. QED
        BY <1>11, <4>2, <4>3, <4>4
    <3>3. CASE q < i /\ i <= q + K
      <4>1. i - q \in 1..K /\ ~(i <= q)
        BY <1>1, <1>2, <3>1, <3>3
      <4>2. v[i] = s[(i - q) + a - 1]
        BY <1>4, <1>10, <3>3, <4>1
      <4>3. (i - q) + a - 1 = i - (z - y) /\ x + (z - y) <= i /\ i <= z
        BY <1>1, <1>2, <3>1, <3>3
      <4>4. QED
        BY <1>11, <4>2, <4>3
    <3>4. CASE i > q + K
      <4>1. i - K \in 1..N - K /\ ~(i - K < a) /\ (i - K) + K = i /\ ~(i <= q) /\ ~(i <= q + K)
            /\ i > z
        <5>1. q + K = p /\ i > p /\ i \in Nat /\ i <= N /\ p > b /\ p \in Nat
          BY <1>1, <1>2, <2>1, <3>1, <3>4
        <5>2. ~(i <= q) /\ ~(i <= q + K) /\ i > z
          BY <1>2, <3>1, <5>1
        <5>3. i - K \in 1..N - K /\ ~(i - K < a) /\ (i - K) + K = i
          BY <1>1, <1>2, <5>1
        <5>4. QED
          BY <5>2, <5>3
      <4>2. v[i] = t[i - K]
        BY <1>10, <4>1
      <4>3. t[i - K] = s[(i - K) + K]
        BY <1>6, <4>1
      <4>4. QED
        BY <1>11, <4>1, <4>2, <4>3
    <3>5. QED
      BY <1>1, <1>2, <3>1, <3>2, <3>3, <3>4
  <2>2. CASE ~(p > b)
    <3>1. q = p /\ x = p + 1 /\ y = a - 1 /\ z = b /\ p < a - 1
      BY <1>1, <2>2 DEF q, x, y, z, RunX, RunY, RunZ
    <3>2. CASE i <= q
      <4>1. i \in 1..N - K /\ i < a /\ i < x
        BY <1>1, <1>2, <3>1, <3>2
      <4>2. QED
        BY <1>6, <1>10, <1>11, <3>2, <4>1
    <3>3. CASE q < i /\ i <= q + K
      <4>1. i - q \in 1..K /\ ~(i <= q)
        BY <1>1, <1>2, <3>1, <3>3
      <4>2. v[i] = s[(i - q) + a - 1]
        BY <1>4, <1>10, <3>3, <4>1
      <4>3. (i - q) + a - 1 = i + (y - x + 1) /\ x <= i /\ i < x + (z - y)
        BY <1>1, <1>2, <3>1, <3>3
      <4>4. QED
        BY <1>11, <4>2, <4>3
    <3>4. CASE i > q + K
      <4>1. i - K \in 1..N - K /\ ~(i <= q) /\ ~(i <= q + K)
        BY <1>1, <1>2, <3>1, <3>4
      <4>2. v[i] = IF i - K < a THEN s[i - K] ELSE s[(i - K) + K]
        <5>1. v[i] = t[i - K]
          BY <1>10, <4>1
        <5>2. t[i - K] = IF i - K < a THEN s[i - K] ELSE s[(i - K) + K]
          BY <1>6, <4>1
        <5>3. QED
          BY <5>1, <5>2
      <4>3. i - K < a => x + (z - y) <= i /\ i <= z /\ i - (z - y) = i - K
        BY <1>1, <1>2, <3>1, <3>4
      <4>4. ~(i - K < a) => i > z /\ (i - K) + K = i
        BY <1>1, <1>2, <3>1, <3>4
      <4>5. QED
        BY <1>11, <4>2, <4>3, <4>4
    <3>5. QED
      BY <1>1, <1>2, <3>1, <3>2, <3>3, <3>4
  <2>3. QED
    BY <2>1, <2>2
<1>13. v = w
  BY <1>9, <1>12
<1>14. QED
  BY <1>7, <1>13, Zenon DEF v, w, t, u, x, y, z

LEMMA JointDead ==
    ASSUME NEW X
    PROVE  Joint([InsLists EXCEPT !["dead"] = X], CodeLists) = [ListsRead EXCEPT !["dead"] = X]
<1>1. InsLists = [c \in InsChain |-> InsLists[c]] /\ "dead" \in InsChain
  BY DEF InsLists, InsChain
<1>2. \A c \in InsChain : [InsLists EXCEPT !["dead"] = X][c] = IF c = "dead" THEN X ELSE InsLists[c]
  BY <1>1
<1>3. ListsRead = [c \in InsChain \cup Listed |-> IF c \in InsChain THEN InsLists[c] ELSE CodeLists[c]]
  BY ReadJoint DEF Joint
<1>4. QED
  BY <1>1, <1>2, <1>3 DEF Joint

\* The dead list moved about.
LEMMA MoveRefines ==
    ASSUME IInv, NEW a \in 1..Len(InsLists["dead"]), NEW b \in a..Len(InsLists["dead"]),
           NEW at \in Id, Occurs(at, InsLists["dead"]),
           \A k \in a..b : InsLists["dead"][k] # at, NEW X,
           Yields([InsLists EXCEPT !["dead"] = X], CodeLists),
           X = Lists!After(CutOut(InsLists["dead"], a, b), at, SubSeq(InsLists["dead"], a, b)),
           opcode' = opcode
    PROVE  a \in 1..Len(ListsRead["dead"]) /\ b \in 1..Len(ListsRead["dead"])
           /\ Lists!MoveDead(a, b, at)
<1>1. "dead" \in InsChain /\ InsLists["dead"] \in Seq(Id)
  BY DeadList
<1>2. ListsRead["dead"] = InsLists["dead"]
  BY <1>1, ReadJoint DEF Joint
<1>3. a <= b /\ b \in 1..Len(InsLists["dead"])
  BY <1>1
<1>4. Lists!In("dead", at)
  BY <1>2 DEF Lists!In, Lists!Ran, Occurs
<1>5. ListsRead' = [ListsRead EXCEPT !["dead"] = X]
  <2>1. ListsRead' = Joint([InsLists EXCEPT !["dead"] = X], CodeLists)
    BY YieldsJoint, Zenon
  <2>2. QED
    BY <2>1, JointDead, Zenon
<1>6. QED
  BY <1>2, <1>3, <1>4, <1>5, Zenon DEF Lists!MoveDead, CutOut

LEMMA InsertAfterDeadRefines ==
    ASSUME IInv, NEW id \in Id, NEW prev \in Id, InsertAfterDead(id, prev)
    PROVE  \E i, j \in 1..Len(ListsRead["dead"]) : Lists!MoveDead(i, j, prev)
<1> DEFINE D == InsLists["dead"]
<1>1. D \in Seq(Id) /\ Distinct(D) /\ Occurs(prev, D)
  BY DeadList DEF InsertAfterDead
<1>2. PICK a \in 1..Len(D) : \E q \in 1..Len(Drop(D, a)) :
          /\ D[a] = id /\ Drop(D, a)[q] = prev
          /\ Yields([InsLists EXCEPT !["dead"] = Put(Drop(D, a), q, id)], CodeLists)
  BY InsertAfterDeadStep
<1>3. PICK q \in 1..Len(Drop(D, a)) :
          /\ D[a] = id /\ Drop(D, a)[q] = prev
          /\ Yields([InsLists EXCEPT !["dead"] = Put(Drop(D, a), q, id)], CodeLists)
  BY <1>2
<1> DEFINE X == Put(Drop(D, a), q, id)
<1>4. X = Lists!After(CutOut(D, a, a), prev, SubSeq(D, a, a))
  <2>1. Put(Drop(D, a), q, D[a]) = Lists!After(CutOut(D, a, a), Drop(D, a)[q], SubSeq(D, a, a))
    BY <1>1, <1>3, MoveOne
  <2>2. QED
    BY <1>3, <2>1, Zenon
<1>5. a \in a..Len(D) /\ \A k \in a..a : D[k] # prev
  BY <1>3 DEF InsertAfterDead
<1>6. opcode' = opcode /\ Yields([InsLists EXCEPT !["dead"] = X], CodeLists)
  BY <1>3 DEF InsertAfterDead, fields
<1> HIDE DEF X
<1>7. a \in 1..Len(ListsRead["dead"]) /\ Lists!MoveDead(a, a, prev)
  BY <1>1, <1>4, <1>5, <1>6, MoveRefines, Zenon
<1>8. QED
  BY <1>7

LEMMA MoveSequenceDeadRefines ==
    ASSUME IInv, NEW first \in Id, NEW last \in Id, NEW prev \in Id,
           MoveSequenceDead(first, last, prev)
    PROVE  \/ UNCHANGED vars
           \/ \E i, j \in 1..Len(ListsRead["dead"]) : Lists!MoveDead(i, j, prev)
<1> DEFINE D == InsLists["dead"]
<1>1. D \in Seq(Id) /\ Distinct(D) /\ Occurs(prev, D)
  BY DeadList DEF MoveSequenceDead
<1> SUFFICES ASSUME ~UNCHANGED vars
             PROVE  \E i, j \in 1..Len(ListsRead["dead"]) : Lists!MoveDead(i, j, prev)
  OBVIOUS
<1> DEFINE moved(i, j, k) ==
               /\ k \notin i..j /\ k # i - 1 /\ D[k] = prev
               /\ Yields([InsLists EXCEPT !["dead"] = Swap(D, RunX(i, j, k), RunY(i, j, k),
                                                           RunZ(i, j, k))], CodeLists)
<1>2. \E i \in 1..Len(D) : \E j \in i..Len(D) : \E k \in 1..Len(D) : moved(i, j, k)
  BY MoveSequenceDeadStep
<1> HIDE DEF moved
<1>3. PICK a \in 1..Len(D) : \E j \in a..Len(D) : \E k \in 1..Len(D) : moved(a, j, k)
  BY <1>2
<1>4. PICK b \in a..Len(D) : \E k \in 1..Len(D) : moved(a, b, k)
  BY <1>3
<1>5. PICK p \in 1..Len(D) : moved(a, b, p)
  BY <1>4
<1>6. /\ p \notin a..b /\ p # a - 1 /\ D[p] = prev
      /\ Yields([InsLists EXCEPT !["dead"] = Swap(D, RunX(a, b, p), RunY(a, b, p),
                                                  RunZ(a, b, p))], CodeLists)
  BY <1>5 DEF moved
<1> DEFINE X == Swap(D, RunX(a, b, p), RunY(a, b, p), RunZ(a, b, p))
<1>7. X = Lists!After(CutOut(D, a, b), prev, SubSeq(D, a, b))
  <2>1. X = Lists!After(CutOut(D, a, b), D[p], SubSeq(D, a, b))
    BY <1>1, <1>6, MoveRun
  <2>2. QED
    BY <1>6, <2>1, Zenon
<1>8. \A k \in a..b : D[k] # prev
  <2> TAKE k \in a..b
  <2>1. k \in 1..Len(D) /\ k # p
    BY <1>1, <1>6
  <2>2. QED
    BY <1>1, <1>6, <2>1 DEF Distinct
<1>9. opcode' = opcode /\ Yields([InsLists EXCEPT !["dead"] = X], CodeLists)
  BY <1>6 DEF MoveSequenceDead, fields
<1> HIDE DEF X
<1>10. a \in 1..Len(ListsRead["dead"]) /\ b \in 1..Len(ListsRead["dead"])
      /\ Lists!MoveDead(a, b, prev)
  BY <1>1, <1>7, <1>8, <1>9, MoveRefines, Zenon
<1>11. QED
  BY <1>10

LEMMA ClearRefines ==
    ASSUME IInv, Clear
    PROVE  Lists!Clear
<1>1. ListsRead' = Joint([c \in InsChain |-> <<>>], [c \in Listed |-> <<>>])
  BY ClearStep, YieldsJoint, Zenon
<1>2. ListsRead' = [c \in Lists!Chain |-> <<>>]
  BY <1>1, ChainNames DEF Joint
<1>3. opcode' = [id \in Id |-> Copy]
  BY DEF Clear
<1>4. QED
  BY <1>2, <1>3 DEF Lists!Clear

LEMMA SameRefines ==
    ASSUME IInv, UNCHANGED <<intree, gone, fields, ins, code>>, sweep' \in BOOLEAN
    PROVE  UNCHANGED <<ListsRead, opcode>>
BY DEF ListsRead, Walk, Follow, fields

\* One turn of the sweep retires the first dead op; none is left when it ends.
LEMMA DestroyNextRefines ==
    ASSUME IInv, sweep, DestroyNext
    PROVE  Lists!SweepRetires
<1> DEFINE D == InsLists["dead"]
<1>1. PICK id \in intree :
             /\ dead[id] /\ Len(D) > 0 /\ id = D[1]
             /\ sweep' = (Len(D) > 1)
             /\ Retire(id)
             /\ Yields(Moved(InsLists, "dead", "gone", id), Removed(CodeLists, id, opcode[id]))
  BY DestroyNextStep
<1>2. "dead" \in InsChain /\ D \in Seq(Id) /\ Distinct(D) /\ "gone" # "dead"
  BY DeadList
<1>3. ListsRead["dead"] = D
  BY <1>2, ReadJoint DEF Joint
<1>4. Lists!Retire(id)
  BY <1>1, RetireRefines
<1>5. ListsRead'["dead"] = Lists!Without(D, id)
  <2>1. ListsRead' = Joint(Moved(InsLists, "dead", "gone", id), Removed(CodeLists, id, opcode[id]))
    BY <1>1, YieldsJoint, Zenon
  <2>2. ListsRead'["dead"] = Moved(InsLists, "dead", "gone", id)["dead"]
    BY <1>2, <2>1 DEF Joint
  <2>3. Moved(InsLists, "dead", "gone", id)["dead"] = Lists!Without(D, id)
    BY <1>2 DEF Moved, InsLists
  <2>4. QED
    BY <2>2, <2>3
<1> HIDE DEF D
<1>6. 1 \in 1..Len(D)
  BY <1>1, <1>2
<1>7. Lists!Without(D, id) = Drop(D, 1)
  BY <1>1, <1>2, <1>6, WithoutDrops
<1>8. IsDrop(Drop(D, 1), D, 1)
  BY <1>2, <1>6, DropType, Zenon
<1>9. (Drop(D, 1) # <<>>) <=> (Len(D) > 1)
  <2>1. Drop(D, 1) \in Seq(Id) /\ Len(Drop(D, 1)) = Len(D) - 1 /\ Len(D) \in Nat
    BY <1>2, <1>8 DEF IsDrop
  <2>2. QED
    BY <1>1, <2>1
<1>10. sweep' = (ListsRead'["dead"] # <<>>)
  BY <1>1, <1>5, <1>7, <1>9
<1>11. ListsRead["dead"] # <<>>
  BY <1>1, <1>2, <1>3
<1>12. QED
  BY <1>1, <1>3, <1>4, <1>10, <1>11, Zenon DEF Lists!SweepRetires
-----------------------------------------------------------------------------
(***************************************************************************)
(* The theorems.                                                           *)
(***************************************************************************)

LEMMA InitInv ==
    ASSUME Init
    PROVE  /\ IInv /\ ListsRead = [c \in InsChain \cup Listed |-> <<>>]
<1> DEFINE A == [c \in InsChain |-> <<>>]
           B == [c \in Listed |-> <<>>]
<1>1. FieldsOK /\ InsClass = [id \in Id |-> Nil] /\ CodeClass = [id \in Id |-> Nil]
  BY BankAssumption DEF Init, FieldsOK, InsClass, CodeClass
<1>2. ins = Empty(InsChain) /\ code = Empty(Listed)
  BY DEF Init
<1>3. Nil \notin InsChain /\ Nil \notin Listed
  BY BankAssumption
<1>4. Spells(ins, InsChain, InsClass, A) /\ Spells(code, Listed, CodeClass, B)
  <2>1. Spells(Empty(InsChain), InsChain, [id \in Id |-> Nil], A)
    BY <1>3, EmptySpells, Zenon
  <2>2. Spells(Empty(Listed), Listed, [id \in Id |-> Nil], B)
    BY <1>3, EmptySpells, Zenon
  <2>3. QED
    BY <1>1, <1>2, <2>1, <2>2, Zenon
<1> HIDE DEF A, B
<1>5. A = InsLists /\ B = CodeLists
  BY <1>4, SpellsRead, Zenon DEF InsLists, CodeLists
<1>6. ins \in Links(InsChain) /\ code \in Links(Listed)
  BY <1>4 DEF Spells
<1>7. IInv
  BY <1>1, <1>4, <1>5, <1>6 DEF IInv, TypeOK, FieldsOK
<1>8. ListsRead = Joint(A, B)
  BY <1>5, ReadJoint
<1>9. QED
  BY <1>7, <1>8 DEF Joint, A, B

\* Every step keeps the invariant.
LEMMA StepInv ==
    ASSUME IInv, [Next]_vars
    PROVE  IInv'
<1> USE YieldsInv
<1>1. ASSUME NEW id \in Id, NEW opc \in OpCode, Create(id, opc) PROVE IInv'
  BY <1>1, CreateStep
<1>2. ASSUME NEW id \in Id, NEW opc \in OpCode, ChangeOpcode(id, opc) PROVE IInv'
  BY <1>2, ChangeOpcodeStep
<1>3. ASSUME NEW id \in Id, CreateSeq(id) PROVE IInv'
  BY <1>3, CreateSeqStep
<1>4. ASSUME NEW id \in Id, MarkAlive(id) PROVE IInv'
  BY <1>4, MarkAliveStep
<1>5. ASSUME NEW id \in Id, MarkDead(id) PROVE IInv'
  BY <1>5, MarkDeadStep
<1>6. ASSUME NEW id \in Id, Destroy(id) PROVE IInv'
  <2>1. id \in intree /\ Retire(id) /\ sweep' \in BOOLEAN
    BY <1>6 DEF Destroy, IInv, TypeOK
  <2>2. QED
    BY <2>1, RetireStep
<1>7. ASSUME NEW id \in Id, NEW prev \in Id, InsertAfterDead(id, prev) PROVE IInv'
  <2>1. \E A : Yields(A, CodeLists)
    BY <1>7, InsertAfterDeadStep, Zenon
  <2>2. QED
    BY <2>1
<1>8. ASSUME NEW first \in Id, NEW last \in Id, NEW prev \in Id,
             MoveSequenceDead(first, last, prev)
      PROVE  IInv'
  <2>1. \E A : Yields(A, CodeLists)
    BY <1>8, MoveSequenceDeadStep, Zenon
  <2>2. QED
    BY <2>1
<1>9. ASSUME DestroyDead \/ DestroyNone \/ UNCHANGED vars PROVE IInv'
  <2>1. UNCHANGED <<intree, gone, fields, ins, code>> /\ sweep' \in BOOLEAN
    BY <1>9 DEF DestroyDead, DestroyNone, vars, IInv, TypeOK
  <2>2. QED
    BY <2>1, SameStep
<1>10. ASSUME Clear PROVE IInv'
  BY <1>10, ClearStep
<1>11. ASSUME DestroyNext PROVE IInv'
  BY <1>11, DestroyNextStep
<1>12. QED
  BY <1>1, <1>2, <1>3, <1>4, <1>5, <1>6, <1>7, <1>8, <1>9, <1>10, <1>11 DEF Next

LEMMA Invariant ==
    Spec => []IInv
<1>1. Init => IInv
  BY InitInv
<1>2. IInv /\ [Next]_vars => IInv'
  BY StepInv
<1>3. QED
  BY <1>1, <1>2, PTL DEF Spec

\* The fields and the links of PcodeOpBank stay of their types, no op is both
\* in the tree and retired, and no length of a chain goes below zero.
THEOREM TypeCorrect == Spec => []TypeOK
<1>1. IInv => TypeOK
  BY DEF IInv
<1>2. QED
  BY <1>1, Invariant, PTL

\* Whatever the bank does, and for any number of ops and of opcodes with a
\* list: the links of an op are those of the one chain its dead flag, its
\* place in the tree and its opcode say it is in, and every chain walked
\* either way yields its ops, each once, as many as its length says.
THEOREM ChainsSound == Spec => []LinksSound
<1>1. IInv => LinksSound
  <2> HAVE IInv
  <2>1. QED
    BY SpellsSound, SpellsWhole, Zenon DEF IInv, LinksSound
<1>2. QED
  BY <1>1, Invariant, PTL

\* The opcode and the dead flag in the cell of an op, which the rule pools
\* read without a lock, are the op's own.
THEOREM ShadowsCorrect == Spec => []ShadowsAgree
<1> DEFINE Agree == cellOpcode = opcode /\ cellDead = dead
<1>1. Init => Agree
  BY DEF Init
<1>2. Agree /\ [Next]_vars => Agree'
  BY DEF Next, Create, ChangeOpcode, CreateSeq, Slot, MarkAlive, MarkDead, Destroy, Retire,
         InsertAfterDead, MoveSequenceDead, DestroyDead, DestroyNext, DestroyNone, Clear,
         fields, vars
<1>3. Agree => ShadowsAgree
  BY DEF ShadowsAgree
<1>4. QED
  BY <1>1, <1>2, <1>3, PTL DEF Spec

LEMMA StepRefines ==
    ASSUME IInv, [Next]_vars
    PROVE  [Lists!Next]_<<ListsRead, opcode, sweep>>
<1> SUFFICES ASSUME Next PROVE [Lists!Next]_<<ListsRead, opcode, sweep>>
  <2>1. UNCHANGED vars => UNCHANGED <<ListsRead, opcode, sweep>>
    BY DEF vars, fields, ListsRead, Walk, Follow
  <2>2. QED
    BY <2>1
<1>1. ASSUME ~sweep, UNCHANGED sweep, Lists!Edit PROVE Lists!Next
  BY <1>1 DEF Lists!Next
<1>2. ASSUME ~sweep, NEW id \in Id, NEW opc \in OpCode, Create(id, opc) PROVE Lists!Next
  <2>1. Lists!Create(id, "alive", opc) /\ UNCHANGED sweep
    BY <1>2, CreateRefines DEF Create, Slot
  <2>2. Lists!Edit
    BY <2>1 DEF Lists!Edit
  <2>3. QED
    BY <1>1, <1>2, <2>1, <2>2
<1>3. ASSUME ~sweep, NEW id \in Id, NEW opc \in OpCode, ChangeOpcode(id, opc) PROVE Lists!Next
  <2>1. Lists!SetOpcode(id, opc) /\ UNCHANGED sweep
    BY <1>3, ChangeOpcodeRefines DEF ChangeOpcode
  <2>2. Lists!Edit
    BY <2>1 DEF Lists!Edit
  <2>3. QED
    BY <1>1, <1>3, <2>1, <2>2
<1>4. ASSUME ~sweep, NEW id \in Id, CreateSeq(id) PROVE Lists!Next
  <2>1. Lists!Create(id, "dead", Copy) /\ UNCHANGED sweep
    BY <1>4, CreateSeqRefines DEF CreateSeq, Slot
  <2>2. Lists!Edit
    BY <2>1 DEF Lists!Edit
  <2>3. QED
    BY <1>1, <1>4, <2>1, <2>2
<1>5. ASSUME ~sweep, NEW id \in Id, MarkAlive(id) PROVE Lists!Next
  <2>1. InsClass[id] = "dead"
    BY <1>5 DEF MarkAlive, InsClass, IInv, TypeOK
  <2>2. Yields(Moved(InsLists, "dead", "alive", id), CodeLists)
    BY <1>5, MarkAliveStep
  <2>3. "dead" \in InsChain /\ "alive" \in InsChain /\ "dead" # "alive"
    BY DEF InsChain
  <2>4. opcode' = opcode /\ UNCHANGED sweep
    BY <1>5 DEF MarkAlive
  <2>5. Lists!Revive(id, "dead", "alive")
    BY <2>1, <2>2, <2>3, <2>4, ReviveRefines, Zenon
  <2>6. Lists!Edit
    BY <2>5 DEF Lists!Edit
  <2>7. QED
    BY <1>1, <1>5, <2>4, <2>6
<1>6. ASSUME ~sweep, NEW id \in Id, MarkDead(id) PROVE Lists!Next
  <2>1. InsClass[id] = "alive"
    BY <1>6 DEF MarkDead, InsClass, IInv, TypeOK
  <2>2. Yields(Moved(InsLists, "alive", "dead", id), CodeLists)
    BY <1>6, MarkDeadStep
  <2>3. "dead" \in InsChain /\ "alive" \in InsChain /\ "alive" # "dead"
    BY DEF InsChain
  <2>4. opcode' = opcode /\ UNCHANGED sweep
    BY <1>6 DEF MarkDead
  <2>5. Lists!Revive(id, "alive", "dead")
    BY <2>1, <2>2, <2>3, <2>4, ReviveRefines, Zenon
  <2>6. Lists!Edit
    BY <2>5 DEF Lists!Edit
  <2>7. QED
    BY <1>1, <1>6, <2>4, <2>6
<1>7. ASSUME ~sweep, NEW id \in Id, Destroy(id) PROVE Lists!Next
  <2>1. id \in intree /\ Retire(id) /\ UNCHANGED sweep /\ sweep' \in BOOLEAN
    BY <1>7 DEF Destroy, IInv, TypeOK
  <2>2. Lists!Retire(id)
    BY <2>1, RetireRefines
  <2>3. Lists!Edit
    BY <2>2 DEF Lists!Edit
  <2>4. QED
    BY <1>1, <1>7, <2>1, <2>3
<1>8. ASSUME ~sweep, NEW id \in Id, NEW prev \in Id, InsertAfterDead(id, prev) PROVE Lists!Next
  <2>1. \E i, j \in 1..Len(ListsRead["dead"]) : Lists!MoveDead(i, j, prev)
    BY <1>8, InsertAfterDeadRefines
  <2>2. Lists!Edit /\ UNCHANGED sweep
    BY <1>8, <2>1 DEF Lists!Edit, InsertAfterDead
  <2>3. QED
    BY <1>1, <1>8, <2>2
<1>9. ASSUME ~sweep, NEW first \in Id, NEW last \in Id, NEW prev \in Id,
             MoveSequenceDead(first, last, prev)
      PROVE  [Lists!Next]_<<ListsRead, opcode, sweep>>
  <2>1. CASE UNCHANGED vars
    BY <2>1 DEF vars, fields, ListsRead, Walk, Follow
  <2>2. CASE \E i, j \in 1..Len(ListsRead["dead"]) : Lists!MoveDead(i, j, prev)
    <3>1. Lists!Edit /\ UNCHANGED sweep
      BY <1>9, <2>2 DEF Lists!Edit, MoveSequenceDead
    <3>2. QED
      BY <1>1, <1>9, <3>1
  <2>3. QED
    BY <1>9, <2>1, <2>2, MoveSequenceDeadRefines
<1>10. ASSUME ~sweep, DestroyDead PROVE Lists!Next
  <2>1. UNCHANGED <<intree, gone, fields, ins, code>> /\ sweep' = TRUE
    BY <1>10 DEF DestroyDead
  <2>2. UNCHANGED <<ListsRead, opcode>>
    BY <2>1, SameRefines
  <2>3. QED
    BY <1>10, <2>1, <2>2 DEF Lists!Next, Lists!SweepStarts
<1>11. ASSUME ~sweep, Clear PROVE Lists!Next
  <2>1. Lists!Clear /\ UNCHANGED sweep
    BY <1>11, ClearRefines DEF Clear
  <2>2. Lists!Edit
    BY <2>1 DEF Lists!Edit
  <2>3. QED
    BY <1>1, <1>11, <2>1, <2>2
<1>12. ASSUME sweep, DestroyNext PROVE Lists!Next
  BY <1>12, DestroyNextRefines DEF Lists!Next
<1>13. ASSUME sweep, DestroyNone PROVE Lists!Next
  <2>1. UNCHANGED <<intree, gone, fields, ins, code>> /\ sweep' = FALSE /\ ins.head["dead"] = Nil
    BY <1>13 DEF DestroyNone
  <2>2. UNCHANGED <<ListsRead, opcode>>
    BY <2>1, SameRefines
  <2>3. ListsRead["dead"] = <<>>
    <3>1. /\ InsLists["dead"] \in Seq(Id) /\ "dead" \in InsChain
          /\ SpellsChain(ins, "dead", InsLists["dead"])
      BY DeadList
    <3>2. First(InsLists["dead"]) = Nil
      BY <2>1, <3>1 DEF SpellsChain
    <3>3. Len(InsLists["dead"]) = 0
      BY <3>1, <3>2, BankAssumption DEF First
    <3>4. ListsRead["dead"] = InsLists["dead"]
      BY <3>1, ReadJoint DEF Joint
    <3>5. QED
      BY <3>1, <3>3, <3>4
  <2>4. QED
    BY <1>13, <2>1, <2>2, <2>3 DEF Lists!Next, Lists!SweepOfNone
<1>14. QED
  BY <1>2, <1>3, <1>4, <1>5, <1>6, <1>7, <1>8, <1>9, <1>10, <1>11, <1>12, <1>13 DEF Next

\* The chains, read along their links, are seven std::lists: every operation
\* of the bank is one operation on them (or, for a run moved to where it is,
\* none), and destroy_dead retires the dead ops in order and leaves none,
\* although each op leaves the chain that is being walked.
THEOREM BankImplementsLists == Spec => ImplementsLists
<1>1. Init => Lists!Init
  <2>1. ASSUME Init PROVE Lists!Init
    <3>1. ListsRead = [c \in Lists!Chain |-> <<>>]
      BY <2>1, InitInv, ChainNames
    <3>2. QED
      BY <2>1, <3>1 DEF Init, Lists!Init
  <2>2. QED
    BY <2>1
<1>2. IInv /\ [Next]_vars => [Lists!Next]_<<ListsRead, opcode, sweep>>
  BY StepRefines
<1>3. QED
  BY <1>1, <1>2, Invariant, PTL DEF Spec, ImplementsLists, Lists!Spec
=============================================================================
