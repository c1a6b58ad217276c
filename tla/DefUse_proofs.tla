--------------------------- MODULE DefUse_proofs -----------------------------
(***************************************************************************)
(* The two ends of every link of DefUse agree and its tree is keyed by     *)
(* what the varnodes are, for every number of ops, varnodes and slots.     *)
(***************************************************************************)
EXTENDS DefUse, FiniteSetTheorems, SequenceTheorems, NaturalsInduction, TLAPS

-----------------------------------------------------------------------------
(***************************************************************************)
(* Loops.                                                                  *)
(***************************************************************************)

\* A nonempty set of naturals has a least element.
LEMMA NatMin ==
    ASSUME NEW T \in SUBSET Nat, T # {}
    PROVE  \E x \in T : \A y \in T : x <= y
<1> DEFINE R == {ss \in Nat \X Nat : ss[1] < ss[2]}
<1>1. IsWellFoundedOn(R, Nat)
  BY NatLessThanWellFounded, Zenon DEF OpToRel
<1>2. PICK x \in T : \A y \in T : ~(<<y, x>> \in R)
  BY <1>1, WFMin, Zenon
<1>3. \A y \in T : ~(y < x)
  <2> TAKE y \in T
  <2>1. <<y, x>> \in Nat \X Nat /\ <<y, x>>[1] = y /\ <<y, x>>[2] = x
    OBVIOUS
  <2>2. ~(<<y, x>> \in R)
    BY <1>2
  <2>3. QED
    BY <2>1, <2>2
<1>4. QED
  BY <1>3

\* The rounds of a loop stay in J, round by round.
Rounds(J, run, n) == \A i \in 1..n : run[i - 1] \in J[i - 1] => run[i] \in J[i]

\* What the first round enters with, and each round keeps, holds of them all.
LEMMA RoundsHold ==
    ASSUME NEW n \in Nat, NEW J, NEW run, run[0] \in J[0], Rounds(J, run, n)
    PROVE  \A i \in 0..n : run[i] \in J[i]
<1> DEFINE T == {i \in Nat : i <= n /\ run[i] \notin J[i]}
<1>1. ASSUME T # {} PROVE FALSE
  <2>1. T \in SUBSET Nat
    OBVIOUS
  <2>2. PICK i \in T : \A j \in T : i <= j
    BY <1>1, <2>1, NatMin, Zenon
  <2>3. i \in Nat /\ i <= n /\ run[i] \notin J[i]
    OBVIOUS
  <2>4. i # 0
    BY <2>3
  <2>5. i - 1 \in Nat /\ i - 1 <= n /\ ~(i <= i - 1) /\ i \in 1..n
    BY <2>3, <2>4
  <2>6. i - 1 \notin T
    BY <2>2, <2>5, Zenon
  <2>7. run[i - 1] \in J[i - 1]
    BY <2>5, <2>6
  <2>8. QED
    BY <2>3, <2>5, <2>7 DEF Rounds
<1>2. QED
  BY <1>1

\* run is the loop of n rounds from h in which round i maps x to
\* step[<<x, i>>].
IsLoop(run, n, h, step) ==
    run = [i \in 0..n |-> IF i = 0 THEN h ELSE step[<<run[i - 1], i>>]]

\* A loop of n rounds exists, as a function.
LEMMA LoopExists ==
    ASSUME NEW n \in Nat, NEW h, NEW step
    PROVE  \E run : IsLoop(run, n, h, step)
<1> DEFINE T == {m \in Nat : ~\E run : IsLoop(run, m, h, step)}
<1>1. ASSUME T # {} PROVE FALSE
  <2>1. T \in SUBSET Nat
    OBVIOUS
  <2>2. PICK m \in T : \A j \in T : m <= j
    BY <1>1, <2>1, NatMin, Zenon
  <2>3. m \in Nat /\ ~\E run : IsLoop(run, m, h, step)
    OBVIOUS
  <2>4. CASE m = 0
    <3> DEFINE r == [i \in 0..0 |-> h]
    <3>1. \A i \in 0..0 : i = 0
      OBVIOUS
    <3>2. r = [i \in 0..0 |-> IF i = 0 THEN h ELSE step[<<r[i - 1], i>>]]
      <4> HIDE DEF r
      <4>1. r = [i \in 0..0 |-> h]
        BY DEF r
      <4>2. [i \in 0..0 |-> h] = [i \in 0..0 |-> IF i = 0 THEN h ELSE step[<<r[i - 1], i>>]]
        BY <3>1, Zenon
      <4>3. QED
        BY <4>1, <4>2, Zenon
    <3>3. IsLoop(r, 0, h, step)
      BY <3>2, Zenon DEF IsLoop
    <3>4. QED
      BY <2>3, <2>4, <3>3, Zenon
  <2>5. CASE m # 0
    <3>1. m - 1 \in Nat /\ ~(m <= m - 1)
      BY <2>3, <2>5
    <3>2. m - 1 \notin T
      BY <2>2, <3>1, Zenon
    <3>3. PICK q : IsLoop(q, m - 1, h, step)
      BY <3>1, <3>2
    <3> DEFINE r == [i \in 0..m |-> IF i = m THEN step[<<q[m - 1], m>>] ELSE q[i]]
    <3>4. \A i \in 0..m - 1 : q[i] = IF i = 0 THEN h ELSE step[<<q[i - 1], i>>]
      <4>1. q = [i \in 0..m - 1 |-> IF i = 0 THEN h ELSE step[<<q[i - 1], i>>]]
        BY <3>3, Zenon DEF IsLoop
      <4>2. QED
        BY <4>1, Zenon
    <3>5. \A i \in 0..m : /\ i # m => i \in 0..m - 1
                          /\ i # 0 => i - 1 \in 0..m - 1 /\ i - 1 \in 0..m /\ i - 1 # m
      BY <2>3, <2>5
    <3>6. \A i \in 0..m : r[i] = IF i = m THEN step[<<q[m - 1], m>>] ELSE q[i]
      OBVIOUS
    <3>7. r = [i \in 0..m |-> r[i]]
      OBVIOUS
    <3> HIDE DEF r
    <3>8. \A i \in 0..m : i # 0 => r[i - 1] = q[i - 1]
      BY <3>5, <3>6, Zenon
    <3>9. \A i \in 0..m : r[i] = IF i = 0 THEN h ELSE step[<<r[i - 1], i>>]
      BY <2>5, <3>4, <3>5, <3>6, <3>8, Zenon
    <3>10. r = [i \in 0..m |-> IF i = 0 THEN h ELSE step[<<r[i - 1], i>>]]
      BY <3>7, <3>9, Zenon
    <3>11. QED
      BY <2>3, <3>10, Zenon DEF IsLoop
  <2>6. QED
    BY <2>4, <2>5
<1>2. QED
  BY <1>1

\* A loop whose rounds map J[i - 1] into J[i] has all its rounds in J.
LEMMA LoopRuns ==
    ASSUME NEW n \in Nat, NEW h, NEW step, NEW J, h \in J[0],
           \A i \in 1..n : \A t \in J[i - 1] : step[<<t, i>>] \in J[i]
    PROVE  \E run : IsLoop(run, n, h, step) /\ \A i \in 0..n : run[i] \in J[i]
<1>1. PICK run : IsLoop(run, n, h, step)
  BY LoopExists, Zenon
<1>2. \A i \in 0..n : run[i] = IF i = 0 THEN h ELSE step[<<run[i - 1], i>>]
  <2>1. run = [i \in 0..n |-> IF i = 0 THEN h ELSE step[<<run[i - 1], i>>]]
    BY <1>1, Zenon DEF IsLoop
  <2>2. QED
    BY <2>1, Zenon
<1>3. 0 \in 0..n /\ \A i \in 1..n : i \in 0..n /\ i # 0
  OBVIOUS
<1>4. run[0] \in J[0] /\ Rounds(J, run, n)
  BY <1>2, <1>3, Zenon DEF Rounds
<1>5. QED
  BY <1>1, <1>4, RoundsHold, Zenon
-----------------------------------------------------------------------------
(***************************************************************************)
(* Counting the places of a value in a list.                               *)
(***************************************************************************)

\* RemoveAt: one entry fewer, those behind it one place down.
LEMMA RemoveAtFacts ==
    ASSUME NEW S, NEW s \in Seq(S), NEW k \in 1..Len(s)
    PROVE  /\ RemoveAt(s, k) \in Seq(S) /\ Len(RemoveAt(s, k)) = Len(s) - 1
           /\ \A i \in 1..Len(s) - 1 :
                  RemoveAt(s, k)[i] = s[IF i < k THEN i ELSE i + 1]
<1> DEFINE l == SubSeq(s, 1, k - 1)
           r == SubSeq(s, k + 1, Len(s))
<1>1. l \in Seq(S) /\ Len(l) = k - 1 /\ \A i \in 1..k - 1 : l[i] = s[i]
  OBVIOUS
<1>2. r \in Seq(S) /\ Len(r) = Len(s) - k /\ \A i \in 1..Len(s) - k : r[i] = s[i + k]
  OBVIOUS
<1>3. RemoveAt(s, k) = l \o r
  BY DEF RemoveAt
<1> HIDE DEF l, r
<1>4. Len(l \o r) = Len(s) - 1 /\ l \o r \in Seq(S)
  <2>1. l \o r \in Seq(S) /\ Len(l \o r) = Len(l) + Len(r)
    BY <1>1, <1>2, ConcatProperties, Zenon
  <2>2. Len(s) \in Nat /\ k \in Nat
    OBVIOUS
  <2>3. QED
    BY <1>1, <1>2, <2>1, <2>2
<1>5. ASSUME NEW i \in 1..Len(s) - 1
      PROVE  (l \o r)[i] = s[IF i < k THEN i ELSE i + 1]
  <2>1. CASE i < k
    <3>1. i \in 1..k - 1 /\ i \in 1..Len(l)
      BY <1>1, <2>1
    <3>2. (l \o r)[i] = l[i]
      <4>1. i \in 1..Len(l) + Len(r) /\ i <= Len(l)
        BY <1>1, <1>2, <3>1
      <4>2. QED
        BY <1>1, <1>2, <4>1, ConcatProperties
    <3>3. QED
      BY <1>1, <2>1, <3>1, <3>2
  <2>2. CASE ~(i < k)
    <3>1. i - (k - 1) \in 1..Len(s) - k /\ (i - (k - 1)) + k = i + 1
          /\ i \in Len(l) + 1..Len(l) + Len(r)
      <4>1. PICK n, a, b : n = Len(s) /\ a = Len(l) /\ b = Len(r)
        OBVIOUS
      <4>2. /\ n \in Nat /\ k \in 1..n /\ a = k - 1 /\ b = n - k
            /\ i \in 1..n - 1 /\ ~(i < k)
        BY <1>1, <1>2, <2>2, <4>1
      <4>3. i - (k - 1) \in 1..n - k /\ (i - (k - 1)) + k = i + 1 /\ i \in a + 1..a + b
        BY <4>2
      <4>4. QED
        BY <4>1, <4>3
    <3>2. (l \o r)[i] = r[i - (k - 1)]
      <4>1. i \in 1..Len(l) + Len(r) /\ ~(i <= Len(l)) /\ i - Len(l) = i - (k - 1)
        BY <1>1, <1>2, <3>1
      <4>2. QED
        BY <1>1, <1>2, <4>1, ConcatProperties
    <3>3. QED
      BY <1>2, <2>2, <3>1, <3>2
  <2>3. QED
    BY <2>1, <2>2
<1>6. QED
  BY <1>3, <1>4, <1>5

Places(q, x) == {i \in 1..Len(q) : q[i] = x}

\* A list holds each entry a natural number of times.
LEMMA CountType ==
    ASSUME NEW S, NEW q \in Seq(S), NEW x
    PROVE  /\ IsFiniteSet(Places(q, x)) /\ Count(q, x) = Cardinality(Places(q, x))
           /\ Count(q, x) \in Nat
<1>1. Count(q, x) = Cardinality(Places(q, x))
  <2>1. DOMAIN q = 1..Len(q)
    OBVIOUS
  <2>2. QED
    BY <2>1 DEF Count, Places
<1>2. IsFiniteSet(Places(q, x))
  <2>1. Places(q, x) \in SUBSET (1..Len(q)) /\ 1 \in Int /\ Len(q) \in Int
    BY DEF Places
  <2>2. IsFiniteSet(1..Len(q))
    BY <2>1, FS_Interval
  <2>3. QED
    BY <2>1, <2>2, FS_Subset
<1>3. QED
  BY <1>1, <1>2, FS_CardinalityType

\* A list counts an entry it does not hold as 0.
LEMMA CountZero ==
    ASSUME NEW S, NEW q \in Seq(S), NEW x
    PROVE  Count(q, x) = 0 <=> \A i \in 1..Len(q) : q[i] # x
<1>1. Count(q, x) = 0 <=> Places(q, x) = {}
  BY CountType, FS_EmptySet
<1>2. QED
  BY <1>1 DEF Places

\* Taking out place k takes one x away when x was there.
LEMMA CountRemoveAt ==
    ASSUME NEW S, NEW q \in Seq(S), NEW k \in 1..Len(q), NEW x
    PROVE  Count(q, x) = Count(RemoveAt(q, k), x) + (IF q[k] = x THEN 1 ELSE 0)
<1>1. PICK r : r = RemoveAt(q, k)
  OBVIOUS
<1>2. /\ r \in Seq(S) /\ Len(r) = Len(q) - 1
      /\ \A i \in 1..Len(q) - 1 : r[i] = q[IF i < k THEN i ELSE i + 1]
  BY <1>1, RemoveAtFacts
<1>3. Len(q) \in Nat /\ k \in Nat
  OBVIOUS
<1> DEFINE P == Places(q, x) \ {k}
           R == Places(r, x)
           f == [i \in R |-> IF i < k THEN i ELSE i + 1]
<1>4. \A i \in R : f[i] \in P /\ i \in Nat
  <2> TAKE i \in R
  <2>1. i \in 1..Len(q) - 1 /\ r[i] = x
    BY <1>2 DEF Places
  <2>2. f[i] = IF i < k THEN i ELSE i + 1
    OBVIOUS
  <2>3. r[i] = q[f[i]]
    BY <1>2, <2>1, <2>2
  <2>4. f[i] \in 1..Len(q) /\ f[i] # k
    BY <1>3, <2>1, <2>2
  <2>5. QED
    BY <2>1, <2>3, <2>4 DEF Places
<1>5. \A i, j \in R : f[i] = f[j] => i = j
  <2> TAKE i, j \in R
  <2>1. i \in Nat /\ j \in Nat /\ f[i] = (IF i < k THEN i ELSE i + 1)
        /\ f[j] = (IF j < k THEN j ELSE j + 1)
    BY <1>4
  <2> HIDE DEF f
  <2>2. QED
    BY <1>3, <2>1
<1>6. \A p \in P : \E i \in R : f[i] = p
  <2> TAKE p \in P
  <2>1. p \in 1..Len(q) /\ q[p] = x /\ p # k
    BY DEF Places
  <2>2. CASE p < k
    <3>1. p \in 1..Len(q) - 1
      BY <1>3, <2>1, <2>2
    <3>2. p \in R
      BY <1>2, <2>1, <2>2, <3>1 DEF Places
    <3>3. f[p] = p
      BY <2>2, <3>2
    <3>4. QED
      BY <3>2, <3>3
  <2>3. CASE ~(p < k)
    <3>1. p - 1 \in 1..Len(q) - 1 /\ ~(p - 1 < k) /\ (p - 1) + 1 = p
      BY <1>3, <2>1, <2>3
    <3>2. p - 1 \in R
      BY <1>2, <2>1, <3>1 DEF Places
    <3>3. f[p - 1] = p
      BY <3>1, <3>2
    <3>4. QED
      BY <3>2, <3>3
  <2>4. QED
    BY <2>2, <2>3
<1>7. f \in Bijection(R, P)
  <2>1. f \in [R -> P]
    BY <1>4
  <2> HIDE DEF f, P, R
  <2>2. QED
    BY <1>5, <1>6, <2>1, Zenon DEF Bijection, Injection, Surjection, IsInjective
<1>8. IsFiniteSet(Places(q, x)) /\ IsFiniteSet(R)
  BY <1>2, CountType
<1>9. Cardinality(R) = Cardinality(P)
  <2> HIDE DEF f, P, R
  <2>1. ExistsBijection(R, P)
    BY <1>7, Zenon DEF ExistsBijection
  <2>2. QED
    BY <1>8, <2>1, FS_Bijection
<1>10. Cardinality(P) = Cardinality(Places(q, x)) - (IF k \in Places(q, x) THEN 1 ELSE 0)
  <2>1. PICK c : c = Cardinality(Places(q, x))
    OBVIOUS
  <2>2. c \in Nat
    BY <1>8, <2>1, FS_CardinalityType, Zenon
  <2>3. Cardinality(P) = IF k \in Places(q, x) THEN c - 1 ELSE c
    BY <1>8, <2>1, FS_RemoveElement, Zenon
  <2> HIDE DEF P
  <2>4. QED
    BY <2>1, <2>2, <2>3
<1>11. k \in Places(q, x) <=> q[k] = x
  BY DEF Places
<1>12. Count(q, x) = Cardinality(Places(q, x)) /\ Count(q, x) \in Nat
       /\ Count(r, x) = Cardinality(R)
  BY <1>2, CountType
<1>13. QED
  BY <1>1, <1>9, <1>10, <1>11, <1>12

\* q with a value put in before place k; taking it out again gives q.
Inserted(q, k, a) == Append(SubSeq(q, 1, k - 1), a) \o SubSeq(q, k, Len(q))

\* A list with an entry inserted counts it once more.
LEMMA CountInsert ==
    ASSUME NEW S, NEW q \in Seq(S), NEW k \in 1..Len(q) + 1, NEW a \in S
    PROVE  /\ Inserted(q, k, a) \in Seq(S) /\ Len(Inserted(q, k, a)) = Len(q) + 1
           /\ \A x : Count(Inserted(q, k, a), x) = Count(q, x) + (IF a = x THEN 1 ELSE 0)
<1>r. PICK r : r = Inserted(q, k, a)
  OBVIOUS
<1>1. PICK l : l = Append(SubSeq(q, 1, k - 1), a)
  OBVIOUS
<1>2. PICK t : t = SubSeq(q, k, Len(q))
  OBVIOUS
<1>3. Len(q) \in Nat /\ k \in Nat /\ k - 1 \in Nat
  OBVIOUS
<1>4. l \in Seq(S) /\ Len(l) = k /\ l[k] = a /\ \A i \in 1..k - 1 : l[i] = q[i]
  <2>1. /\ SubSeq(q, 1, k - 1) \in Seq(S) /\ Len(SubSeq(q, 1, k - 1)) = k - 1
        /\ \A i \in 1..k - 1 : SubSeq(q, 1, k - 1)[i] = q[i]
    BY <1>3
  <2>2. PICK u : u = SubSeq(q, 1, k - 1)
    OBVIOUS
  <2>3. u \in Seq(S) /\ Len(u) = k - 1 /\ l = Append(u, a)
    BY <1>1, <2>1, <2>2
  <2>4. /\ l \in Seq(S) /\ Len(l) = (k - 1) + 1 /\ l[(k - 1) + 1] = a
        /\ \A i \in 1..k - 1 : l[i] = u[i]
    BY <2>3, AppendProperties
  <2>5. (k - 1) + 1 = k
    BY <1>3
  <2>6. QED
    BY <2>1, <2>2, <2>4, <2>5
<1>5. t \in Seq(S) /\ Len(t) = Len(q) - k + 1 /\ \A i \in 1..Len(t) : t[i] = q[k + i - 1]
  BY <1>2, <1>3
<1>6. r = l \o t
  BY <1>1, <1>2, <1>r DEF Inserted
<1>7. r \in Seq(S) /\ Len(r) = Len(l) + Len(t)
  BY <1>4, <1>5, <1>6, ConcatProperties, Zenon
<1>n. PICK n : n = Len(q)
  OBVIOUS
<1>m. PICK m : m = Len(t)
  OBVIOUS
<1>a. n \in Nat /\ k \in Nat /\ k \in 1..n + 1 /\ m = n - k + 1
  BY <1>3, <1>5, <1>n, <1>m
<1>8. Len(r) = Len(q) + 1 /\ Len(r) = n + 1 /\ Len(r) = k + m
  <2>1. Len(r) = k + m
    BY <1>4, <1>7, <1>m
  <2>2. k + m = n + 1
    BY <1>a
  <2>3. QED
    BY <2>1, <2>2, <1>n
<1>b. PICK p : p = Len(r)
  OBVIOUS
<1>c. p = n + 1
  BY <1>8, <1>b
<1>9. ASSUME NEW i \in 1..Len(r)
      PROVE  r[i] = IF i < k THEN q[i] ELSE IF i = k THEN a ELSE q[i - 1]
  <2>1. CASE i <= k
    <3>0. i \in 1..n + 1
      BY <1>8
    <3>1. i \in 1..k
      BY <1>a, <2>1, <3>0
    <3>2. r[i] = l[i]
      BY <1>4, <1>5, <1>6, <3>1
    <3>3. i < k => i \in 1..k - 1
      BY <1>a, <2>1, <3>0
    <3>4. QED
      BY <1>4, <2>1, <3>2, <3>3
  <2>2. CASE ~(i <= k)
    <3>0. i \in 1..n + 1
      BY <1>8
    <3>1. i - k \in 1..m /\ k + (i - k) - 1 = i - 1 /\ i \in k + 1..k + m
          /\ ~(i < k) /\ i # k
      BY <1>a, <2>2, <3>0
    <3>2. r[i] = t[i - k]
      <4>1. i \in Len(l) + 1..Len(l) + Len(t) /\ i - Len(l) = i - k
        BY <1>4, <1>m, <3>1
      <4>2. r[i] = t[i - Len(l)]
        BY <1>4, <1>5, <1>6, <4>1, ConcatProperties
      <4>3. QED
        BY <4>1, <4>2
    <3>3. t[i - k] = q[k + (i - k) - 1]
      BY <1>5, <1>m, <3>1, Zenon
    <3>4. QED
      BY <3>1, <3>2, <3>3, Zenon
  <2>3. QED
    BY <2>1, <2>2
<1>10. k \in 1..Len(r) /\ r[k] = a
  <2>1. k \in 1..n + 1 /\ ~(k < k)
    BY <1>a
  <2>2. QED
    BY <1>8, <1>9, <2>1, Zenon
<1>11. PICK d : d = RemoveAt(r, k)
  OBVIOUS
<1>12. d \in Seq(S) /\ Len(d) = Len(q)
       /\ \A i \in 1..Len(q) : d[i] = r[IF i < k THEN i ELSE i + 1]
  <2>1. /\ d \in Seq(S) /\ Len(d) = Len(r) - 1
        /\ \A i \in 1..Len(r) - 1 : d[i] = r[IF i < k THEN i ELSE i + 1]
    BY <1>7, <1>10, <1>11, RemoveAtFacts
  <2>2. Len(r) - 1 = Len(q)
    <3>1. p - 1 = n
      BY <1>a, <1>c
    <3>2. QED
      BY <3>1, <1>b, <1>n
  <2>3. QED
    BY <2>1, <2>2
<1>13. \A i \in 1..Len(q) : d[i] = q[i]
  <2> TAKE i \in 1..Len(q)
  <2>0. i \in 1..n
    BY <1>n
  <2>1. i \in 1..Len(r) /\ i + 1 \in 1..Len(r) /\ (i + 1) - 1 = i
    <3>1. i \in 1..p /\ i + 1 \in 1..p /\ (i + 1) - 1 = i
      BY <1>a, <1>c, <2>0
    <3>2. QED
      BY <3>1, <1>b
  <2>2. CASE i < k
    BY <1>9, <1>12, <2>1, <2>2
  <2>3. CASE ~(i < k)
    <3>1. ~(i + 1 < k) /\ i + 1 # k
      BY <1>a, <2>0, <2>3
    <3>2. QED
      BY <1>9, <1>12, <2>1, <2>3, <3>1
  <2>4. QED
    BY <2>2, <2>3
<1>14. d = q
  BY <1>12, <1>13, SeqEqual
<1>15. \A x : Count(r, x) = Count(d, x) + (IF r[k] = x THEN 1 ELSE 0)
  <2> TAKE x
  <2>1. r \in Seq(S)
    BY <1>7
  <2>2. Count(r, x) = Count(RemoveAt(r, k), x) + (IF r[k] = x THEN 1 ELSE 0)
    BY <1>10, <2>1, CountRemoveAt
  <2>3. QED
    BY <1>11, <2>2
<1>16. QED
  BY <1>7, <1>8, <1>10, <1>14, <1>15, <1>r

\* The count of an appended list.
LEMMA CountAppend ==
    ASSUME NEW S, NEW q \in Seq(S), NEW a \in S
    PROVE  /\ Append(q, a) \in Seq(S) /\ Len(Append(q, a)) = Len(q) + 1
           /\ \A x : Count(Append(q, a), x) = Count(q, x) + (IF a = x THEN 1 ELSE 0)
<1>1. Len(q) \in Nat /\ Len(q) + 1 \in 1..Len(q) + 1 /\ (Len(q) + 1) - 1 = Len(q)
  OBVIOUS
<1>2. SubSeq(q, 1, Len(q)) = q /\ SubSeq(q, Len(q) + 1, Len(q)) = <<>>
  BY <1>1, SubSeqFull, SubSeqEmpty
<1>3. Append(q, a) \in Seq(S)
  OBVIOUS
<1>4. Append(q, a) \o <<>> = Append(q, a)
  BY <1>3, ConcatEmptySeq
<1>5. Inserted(q, Len(q) + 1, a) = Append(q, a)
  BY <1>1, <1>2, <1>4 DEF Inserted
<1>6. PICK k : k = Len(q) + 1
  OBVIOUS
<1>7. k \in 1..Len(q) + 1 /\ Inserted(q, k, a) = Append(q, a)
  BY <1>1, <1>5, <1>6
<1>8. /\ Inserted(q, k, a) \in Seq(S) /\ Len(Inserted(q, k, a)) = Len(q) + 1
      /\ \A x : Count(Inserted(q, k, a), x) = Count(q, x) + (IF a = x THEN 1 ELSE 0)
  <2>1. k \in 1..Len(q) + 1
    BY <1>7
  <2>2. QED
    BY <2>1, CountInsert
<1>9. QED
  BY <1>7, <1>8

\* Nothing is in the empty list.
LEMMA CountEmpty ==
    ASSUME NEW x
    PROVE  Count(<<>>, x) = 0 /\ <<>> \in Seq({}) /\ Len(<<>>) = 0
<1>1. <<>> \in Seq({}) /\ Len(<<>>) = 0 /\ 1..0 = {}
  OBVIOUS
<1>2. QED
  BY <1>1, CountZero

Updated(q, k, a) == [q EXCEPT ![k] = a]

\* A list with one entry replaced.
LEMMA UpdateFacts ==
    ASSUME NEW S, NEW q \in Seq(S), NEW k \in 1..Len(q), NEW a \in S
    PROVE  /\ Updated(q, k, a) \in Seq(S) /\ Len(Updated(q, k, a)) = Len(q)
           /\ Updated(q, k, a)[k] = a
           /\ \A i \in 1..Len(q) : i # k => Updated(q, k, a)[i] = q[i]
  BY DEF Updated

\* What is replaced is counted once less, what replaces it once more.
LEMMA CountUpdate ==
    ASSUME NEW S, NEW q \in Seq(S), NEW k \in 1..Len(q), NEW a \in S, NEW x
    PROVE  Count(Updated(q, k, a), x) + (IF q[k] = x THEN 1 ELSE 0)
                = Count(q, x) + (IF a = x THEN 1 ELSE 0)
<1>r. PICK r : r = Updated(q, k, a)
  OBVIOUS
<1>1. Len(q) \in Nat /\ k \in Nat
  OBVIOUS
<1>2. /\ r \in Seq(S) /\ Len(r) = Len(q) /\ r[k] = a
      /\ \A i \in 1..Len(q) : i # k => r[i] = q[i]
  <2>1. /\ Updated(q, k, a) \in Seq(S) /\ Len(Updated(q, k, a)) = Len(q)
        /\ Updated(q, k, a)[k] = a
        /\ \A i \in 1..Len(q) : i # k => Updated(q, k, a)[i] = q[i]
    BY UpdateFacts
  <2>2. QED
    BY <1>r, <2>1
<1>3. PICK d : d = RemoveAt(q, k)
  OBVIOUS
<1>4. PICK e : e = RemoveAt(r, k)
  OBVIOUS
<1>5. /\ d \in Seq(S) /\ Len(d) = Len(q) - 1
      /\ \A i \in 1..Len(q) - 1 : d[i] = q[IF i < k THEN i ELSE i + 1]
  BY <1>3, RemoveAtFacts
<1>6. /\ e \in Seq(S) /\ Len(e) = Len(q) - 1
      /\ \A i \in 1..Len(q) - 1 : e[i] = r[IF i < k THEN i ELSE i + 1]
  <2>1. k \in 1..Len(r)
    BY <1>2
  <2>2. /\ e \in Seq(S) /\ Len(e) = Len(r) - 1
        /\ \A i \in 1..Len(r) - 1 : e[i] = r[IF i < k THEN i ELSE i + 1]
    BY <1>2, <1>4, <2>1, RemoveAtFacts
  <2>3. QED
    BY <1>2, <2>2
<1>7. \A i \in 1..Len(q) - 1 : e[i] = d[i]
  <2> TAKE i \in 1..Len(q) - 1
  <2>1. /\ i \in 1..Len(q) /\ i + 1 \in 1..Len(q) /\ (i < k => i # k)
        /\ (~(i < k) => i + 1 # k)
    BY <1>1
  <2>2. QED
    BY <1>2, <1>5, <1>6, <2>1
<1>8. e = d
  BY <1>5, <1>6, <1>7, SeqEqual
<1>9. k \in 1..Len(r)
  BY <1>2
<1>10. Count(q, x) = Count(d, x) + (IF q[k] = x THEN 1 ELSE 0)
  BY <1>3, CountRemoveAt
<1>11. Count(r, x) = Count(d, x) + (IF r[k] = x THEN 1 ELSE 0)
  <2>1. r \in Seq(S)
    BY <1>2
  <2>2. Count(r, x) = Count(RemoveAt(r, k), x) + (IF r[k] = x THEN 1 ELSE 0)
    BY <1>9, <2>1, CountRemoveAt
  <2>3. QED
    BY <1>4, <1>8, <2>2
<1>12. Count(d, x) \in Nat
  BY <1>5, CountType
<1>13. QED
  BY <1>2, <1>10, <1>11, <1>12, <1>r

Swapped(q, i, j) == [q EXCEPT ![i] = q[j], ![j] = q[i]]

\* Swapping two entries counts nothing differently.
LEMMA CountSwap ==
    ASSUME NEW S, NEW q \in Seq(S), NEW i \in 1..Len(q), NEW j \in 1..Len(q), i # j
    PROVE  /\ Swapped(q, i, j) \in Seq(S) /\ Len(Swapped(q, i, j)) = Len(q)
           /\ \A x : Count(Swapped(q, i, j), x) = Count(q, x)
<1>0. PICK a, b : a = q[i] /\ b = q[j]
  OBVIOUS
<1>1. a \in S /\ b \in S
  BY <1>0
<1>2. PICK m : m = Updated(q, i, b)
  OBVIOUS
<1>3. /\ m \in Seq(S) /\ Len(m) = Len(q) /\ \A k \in 1..Len(q) : k # i => m[k] = q[k]
      /\ \A x : Count(m, x) + (IF q[i] = x THEN 1 ELSE 0)
                   = Count(q, x) + (IF b = x THEN 1 ELSE 0)
  <2>1. b \in S
    BY <1>1
  <2>2. QED
    <3>1. /\ Updated(q, i, b) \in Seq(S) /\ Len(Updated(q, i, b)) = Len(q)
          /\ \A k \in 1..Len(q) : k # i => Updated(q, i, b)[k] = q[k]
          /\ \A x : Count(Updated(q, i, b), x) + (IF q[i] = x THEN 1 ELSE 0)
                       = Count(q, x) + (IF b = x THEN 1 ELSE 0)
      <4>1. Updated(q, i, b) \in Seq(S)
        BY <2>1, UpdateFacts
      <4>3. Len(Updated(q, i, b)) = Len(q)
        BY <2>1, UpdateFacts
      <4>4. \A k \in 1..Len(q) : k # i => Updated(q, i, b)[k] = q[k]
        BY <2>1 DEF Updated
      <4>2. ASSUME NEW x
            PROVE  Count(Updated(q, i, b), x) + (IF q[i] = x THEN 1 ELSE 0)
                       = Count(q, x) + (IF b = x THEN 1 ELSE 0)
        BY <2>1, CountUpdate
      <4>5. QED
        BY <4>1, <4>2, <4>3, <4>4, Zenon
    <3>2. QED
      BY <1>2, <3>1
<1>4. PICK n : n = Updated(m, j, a)
  OBVIOUS
<1>5. j \in 1..Len(m) /\ m[j] = b
  BY <1>0, <1>3
<1>6. /\ n \in Seq(S) /\ Len(n) = Len(m)
      /\ \A x : Count(n, x) + (IF m[j] = x THEN 1 ELSE 0)
                   = Count(m, x) + (IF a = x THEN 1 ELSE 0)
  <2>1. a \in S /\ m \in Seq(S) /\ j \in 1..Len(m)
    BY <1>1, <1>3, <1>5
  <2>2. QED
    <3>1. /\ Updated(m, j, a) \in Seq(S) /\ Len(Updated(m, j, a)) = Len(m)
          /\ \A x : Count(Updated(m, j, a), x) + (IF m[j] = x THEN 1 ELSE 0)
                       = Count(m, x) + (IF a = x THEN 1 ELSE 0)
      <4>1. Updated(m, j, a) \in Seq(S) /\ Len(Updated(m, j, a)) = Len(m)
        BY <2>1, UpdateFacts
      <4>2. ASSUME NEW x
            PROVE  Count(Updated(m, j, a), x) + (IF m[j] = x THEN 1 ELSE 0)
                       = Count(m, x) + (IF a = x THEN 1 ELSE 0)
        BY <2>1, CountUpdate
      <4>3. QED
        BY <4>1, <4>2, Zenon
    <3>2. QED
      BY <1>4, <3>1
<1>7. Swapped(q, i, j) = n
  BY <1>0, <1>2, <1>4 DEF Updated, Swapped
<1>8. ASSUME NEW x PROVE Count(n, x) = Count(q, x)
  <2>1. Count(n, x) \in Nat /\ Count(m, x) \in Nat /\ Count(q, x) \in Nat
    BY <1>3, <1>6, CountType
  <2>2. QED
    BY <1>0, <1>3, <1>5, <1>6, <2>1
<1>9. QED
  BY <1>3, <1>6, <1>7, <1>8

\* The first place of x in q, 0 when there is none.
First(q, x) == SelectInSeq(q, LAMBDA y : y = x)

\* SelectInSeq finds the first place of an entry.
LEMMA FirstFacts ==
    ASSUME NEW S, NEW q \in Seq(S), NEW x
    PROVE  /\ First(q, x) \in 0..Len(q)
           /\ First(q, x) = 0 <=> Count(q, x) = 0
           /\ First(q, x) # 0 => First(q, x) \in 1..Len(q) /\ q[First(q, x)] = x
           /\ Len(q) > 0 /\ q[1] = x => First(q, x) = 1
<1> DEFINE I == {i \in 1..Len(q) : q[i] = x}
<1>1. First(q, x) = IF I # {} THEN Min(I) ELSE 0
  BY DEF First, SelectInSeq
<1>2. Min(I) = CHOOSE m \in I : \A y \in I : m <= y
  BY DEF Min
<1>3. I \in SUBSET Nat
  OBVIOUS
<1>4. ASSUME I # {} PROVE Min(I) \in I /\ \A y \in I : Min(I) <= y
  <2> HIDE DEF I
  <2>1. \E m \in I : \A y \in I : m <= y
    BY <1>3, <1>4, NatMin, Zenon
  <2>2. QED
    BY <1>2, <2>1, Zenon
<1>5. I = {} <=> Count(q, x) = 0
  BY CountZero
<1>6. Len(q) > 0 /\ q[1] = x => 1 \in I /\ \A y \in I : 1 <= y
  OBVIOUS
<1>7. I # {} => Min(I) \in 1..Len(q) /\ q[Min(I)] = x
  BY <1>4
<1>8. Len(q) > 0 /\ q[1] = x => Min(I) = 1
  <2>1. I # {} => Min(I) \in Nat
    BY <1>3, <1>4
  <2> HIDE DEF I
  <2>2. QED
    BY <1>4, <1>6, <2>1
<1>9. Len(q) \in Nat
  OBVIOUS
<1> HIDE DEF I
<1>10. QED
  BY <1>1, <1>5, <1>6, <1>7, <1>8, <1>9

\* RemoveFirst takes one occurrence of an entry that is there.
LEMMA RemoveFirstFacts ==
    ASSUME NEW S, NEW q \in Seq(S), NEW a
    PROVE  /\ RemoveFirst(q, a) \in Seq(S)
           /\ Count(q, a) = 0 => RemoveFirst(q, a) = q
           /\ Count(q, a) # 0 =>
                \A x : Count(q, x) = Count(RemoveFirst(q, a), x)
                                        + (IF a = x THEN 1 ELSE 0)
           /\ Len(q) > 0 /\ q[1] = a => RemoveFirst(q, a) = SubSeq(q, 2, Len(q))
<1>1. Count(q, a) = 0 <=> ~\E i \in 1..Len(q) : q[i] = a
  BY CountZero
<1>2. RemoveFirst(q, a) = IF Count(q, a) = 0 THEN q ELSE RemoveAt(q, First(q, a))
  BY <1>1 DEF RemoveFirst, First
<1>3. PICK k : k = First(q, a)
  OBVIOUS
<1>4. /\ Count(q, a) # 0 => k \in 1..Len(q) /\ q[k] = a
      /\ Len(q) > 0 /\ q[1] = a => k = 1 /\ Count(q, a) # 0
  BY <1>3, FirstFacts
<1>5. ASSUME Count(q, a) # 0
      PROVE  /\ RemoveAt(q, k) \in Seq(S)
             /\ \A x : Count(q, x) = Count(RemoveAt(q, k), x) + (IF a = x THEN 1 ELSE 0)
  BY <1>4, <1>5, RemoveAtFacts, CountRemoveAt
<1>6. ASSUME Len(q) > 0, q[1] = a
      PROVE  RemoveAt(q, k) = SubSeq(q, 2, Len(q))
  <2>1. k = 1 /\ k - 1 = 0 /\ k + 1 = 2
    BY <1>4, <1>6
  <2>2. SubSeq(q, 1, 0) = <<>>
    BY SubSeqEmpty
  <2>3. SubSeq(q, 2, Len(q)) \in Seq(S)
    OBVIOUS
  <2>4. <<>> \o SubSeq(q, 2, Len(q)) = SubSeq(q, 2, Len(q))
    BY <2>3, ConcatEmptySeq
  <2>5. QED
    BY <2>1, <2>2, <2>4 DEF RemoveAt
<1>7. QED
  BY <1>2, <1>3, <1>4, <1>5, <1>6

\* What is left of q from place k + 1 on loses its head.
LEMMA RestHead ==
    ASSUME NEW S, NEW q \in Seq(S), NEW k \in 1..Len(q)
    PROVE  /\ RemoveFirst(SubSeq(q, k, Len(q)), q[k]) = SubSeq(q, k + 1, Len(q))
           /\ SubSeq(q, k, Len(q)) \in Seq(S) /\ Count(SubSeq(q, k, Len(q)), q[k]) # 0
<1>1. PICK u : u = SubSeq(q, k, Len(q))
  OBVIOUS
<1>2. PICK n : n = Len(q)
  OBVIOUS
<1>3. n \in Nat /\ k \in 1..n
  BY <1>2
<1>4. u \in Seq(S) /\ Len(u) = n - k + 1 /\ \A i \in 1..n - k + 1 : u[i] = q[k + i - 1]
  BY <1>1, <1>2
<1>5. 1 \in 1..n - k + 1 /\ k + 1 - 1 = k
  BY <1>3
<1>6. u[1] = q[k] /\ Len(u) > 0
  BY <1>3, <1>4, <1>5
<1>7. RemoveFirst(u, q[k]) = SubSeq(u, 2, Len(u))
  BY <1>4, <1>6, RemoveFirstFacts
<1>8. SubSeq(u, 2, Len(u)) = SubSeq(q, k + 1, n)
  <2>1. PICK v : v = SubSeq(u, 2, n - k + 1)
    OBVIOUS
  <2>2. PICK w : w = SubSeq(q, k + 1, n)
    OBVIOUS
  <2>3. v \in Seq(S) /\ Len(v) = n - k /\ \A i \in 1..n - k : v[i] = u[i + 1]
    BY <1>3, <1>4, <2>1
  <2>4. w \in Seq(S) /\ Len(w) = n - k /\ \A i \in 1..n - k : w[i] = q[k + i]
    <3>1. k + 1 \in Int /\ \A i \in k + 1..n : q[i] \in S
      BY <1>2, <1>3
    <3>2. /\ w \in Seq(S) /\ Len(w) = IF k + 1 <= n THEN n - (k + 1) + 1 ELSE 0
          /\ \A i \in 1..n - (k + 1) + 1 : w[i] = q[(k + 1) + i - 1]
      BY <1>3, <2>2, <3>1, SubSeqProperties
    <3>3. n - (k + 1) + 1 = n - k /\ (~(k + 1 <= n) => n - k = 0)
      BY <1>3
    <3>4. \A i \in 1..n - k : (k + 1) + i - 1 = k + i
      BY <1>3
    <3>5. QED
      BY <3>2, <3>3, <3>4
  <2>5. \A i \in 1..n - k : v[i] = w[i]
    <3> TAKE i \in 1..n - k
    <3>1. i + 1 \in 1..n - k + 1 /\ k + (i + 1) - 1 = k + i
      BY <1>3
    <3>2. QED
      BY <1>4, <2>3, <2>4, <3>1
  <2>6. v = w
    BY <2>3, <2>4, <2>5, SeqEqual
  <2>7. QED
    BY <1>4, <2>1, <2>2, <2>6
<1>9. Count(u, q[k]) # 0
  <2>1. 1 \in 1..Len(u)
    BY <1>4, <1>5
  <2>2. QED
    BY <1>4, <1>6, <2>1, CountZero
<1>10. QED
  BY <1>1, <1>2, <1>4, <1>7, <1>8, <1>9

\* A value that is in q once is at one place.
LEMMA CountOnce ==
    ASSUME NEW S, NEW q \in Seq(S), NEW i \in 1..Len(q), NEW j \in 1..Len(q),
           q[i] = q[j], Count(q, q[i]) = 1
    PROVE  i = j
<1>1. PICK x : x = q[i]
  OBVIOUS
<1>2. IsFiniteSet(Places(q, x)) /\ Cardinality(Places(q, x)) = 1
  BY <1>1, CountType
<1>3. PICK k : Places(q, x) = {k}
  BY <1>2, FS_Singleton, Zenon
<1>4. i \in Places(q, x) /\ j \in Places(q, x)
  BY <1>1 DEF Places
<1>5. QED
  BY <1>3, <1>4
-----------------------------------------------------------------------------
(***************************************************************************)
(* States and the invariant.                                               *)
(***************************************************************************)

Entries == Vn \cup {Null}

State ==
    [loc : [Vn -> Storage], state : [Vn -> {"free", "input", "written"}],
     def : [Vn -> Op \cup {NoOp}], descend : [Vn -> Seq(Op)],
     key : [Vn -> Key \cup {Null}], tree : SUBSET (Key \X Vn),
     made : 0..MaxVn, inrefs : [Op -> Seq(Entries)],
     output : [Op -> Entries], dead : SUBSET Op,
     abort : {"no", "free", "constant", "bound"}]

\* The tree's entries are filed under what their varnodes are now, each under
\* a key of its own.
Canon(s) ==
    /\ \A e \in s.tree : e[1] = KeyOf(s, e[2]) /\ e[1] = s.key[e[2]]
    /\ \A d, e \in s.tree : d[1] = e[1] => d = e

\* Varnodes that are not made yet are free and nothing knows them.
Young(s) ==
    /\ \A e \in s.tree : e[2] < s.made
    /\ \A v \in Vn : v >= s.made =>
           /\ s.state[v] = "free" /\ s.def[v] = NoOp /\ s.descend[v] = <<>>
           /\ \A o \in Op : Count(s.inrefs[o], v) = 0

Writer(s) == \A v \in Vn : s.state[v] = "written" => s.def[v] \in Op

\* Varnode v lists each op as often as the op reads it.
ReadsOf(s, v) == \A o \in Op : Count(s.descend[v], o) = Count(s.inrefs[o], v)

Reads(s) == \A v \in Bank(s) : ReadsOf(s, v)

Writes(s) ==
    \A o \in Op :
        /\ \A v \in Bank(s) : (s.state[v] = "written" /\ s.def[v] = o) <=> s.output[o] = v
        /\ s.output[o] # Null => s.output[o] \in Bank(s)

Short(s) == \A o \in Op : Len(s.inrefs[o]) <= MaxIn

\* The inductive invariant, of any state the edits pass through.
Inv(s) ==
    /\ s \in State
    /\ Canon(s) /\ Young(s) /\ Writer(s) /\ Reads(s) /\ Writes(s) /\ Short(s)

\* Everything but the reads is the same.
Rewired(s, t) ==
    /\ t \in State
    /\ t.loc = s.loc /\ t.state = s.state /\ t.def = s.def /\ t.key = s.key
    /\ t.tree = s.tree /\ t.made = s.made /\ t.output = s.output /\ t.dead = s.dead

\* What the proofs use of the constants.
LEMMA Constants ==
    /\ MaxVn \in Nat /\ MaxIn \in Nat /\ NoOp \notin Op /\ IsFiniteSet(Op)
    /\ Vn \subseteq Nat /\ Null \notin Vn /\ Null \in Entries /\ Vn \subseteq Entries
    /\ (CHOOSE l \in Storage : TRUE) \in Storage
  BY GraphAssumption DEF Vn, Null, Entries

\* The types of the fields.
LEMMA StateType ==
    ASSUME NEW s \in State
    PROVE  /\ s.loc \in [Vn -> Storage] /\ s.state \in [Vn -> {"free", "input", "written"}]
           /\ s.def \in [Vn -> Op \cup {NoOp}] /\ s.descend \in [Vn -> Seq(Op)]
           /\ s.key \in [Vn -> Key \cup {Null}] /\ s.tree \in SUBSET (Key \X Vn)
           /\ s.made \in 0..MaxVn /\ s.inrefs \in [Op -> Seq(Entries)]
           /\ s.output \in [Op -> Entries] /\ s.dead \in SUBSET Op
           /\ s.abort \in {"no", "free", "constant", "bound"}
  BY DEF State

\* A tree entry is a key and a varnode.
LEMMA EntryType ==
    ASSUME NEW s \in State, NEW e \in s.tree
    PROVE  e = <<e[1], e[2]>> /\ e[1] \in Key /\ e[2] \in Vn
<1>1. e \in Key \X Vn
  BY StateType
<1>2. QED
  BY <1>1

\* The bank has varnodes.
LEMMA BankType ==
    ASSUME NEW s \in State
    PROVE  Bank(s) \subseteq Vn
  BY EntryType DEF Bank

\* The key is a function of what the varnode is.
LEMMA KeySame ==
    ASSUME NEW s, NEW t, NEW v, t.loc[v] = s.loc[v], t.state[v] = s.state[v],
           t.def[v] = s.def[v]
    PROVE  KeyOf(t, v) = KeyOf(s, v)
  BY DEF KeyOf, IsFree

\* The parts of a key.
LEMMA KeyFacts ==
    ASSUME NEW s \in State, NEW v \in Vn
    PROVE  /\ KeyOf(s, v) \in Key
           /\ KeyOf(s, v)[1] = s.loc[v] /\ KeyOf(s, v)[2] = s.state[v]
           /\ KeyOf(s, v)[3] = (IF s.state[v] = "written" THEN s.def[v] ELSE NoOp)
           /\ KeyOf(s, v)[4] = (IF s.state[v] = "free" THEN v ELSE Null)
<1>1. s.loc[v] \in Storage /\ s.state[v] \in {"free", "input", "written"}
      /\ s.def[v] \in Op \cup {NoOp}
  BY StateType
<1>2. QED
  BY <1>1 DEF KeyOf, Key, IsFree

\* The entry of a varnode of the bank.
LEMMA BankEntry ==
    ASSUME NEW s, Inv(s), NEW v \in Bank(s)
    PROVE  /\ v \in Vn /\ v < s.made /\ s.made \in Nat /\ <<KeyOf(s, v), v>> \in s.tree
           /\ \A e \in s.tree : e[2] = v => e = <<KeyOf(s, v), v>>
<1>1. s \in State /\ Canon(s) /\ Young(s)
  BY DEF Inv
<1>2. \A e \in s.tree : e[2] = v => e = <<KeyOf(s, v), v>>
  BY <1>1, EntryType DEF Canon
<1>3. PICK e \in s.tree : e[2] = v
  BY DEF Bank
<1>4. v \in Vn /\ v < s.made
  BY <1>1, <1>3, EntryType DEF Young
<1>5. s.made \in Nat
  BY <1>1, StateType, Constants
<1>6. QED
  BY <1>2, <1>3, <1>4, <1>5

\* The bank is what the tree has.
LEMMA BankSame ==
    ASSUME NEW s, NEW t, t.tree = s.tree
    PROVE  Bank(t) = Bank(s)
  BY DEF Bank

\* Edits of the reads keep what is said of the rest.
LEMMA Rewire ==
    ASSUME NEW s, NEW t, Inv(s), Rewired(s, t), Reads(t), Short(t),
           \A v \in Vn : v >= s.made =>
               t.descend[v] = <<>> /\ \A o \in Op : Count(t.inrefs[o], v) = 0
    PROVE  Inv(t) /\ Bank(t) = Bank(s)
<1>1. Bank(t) = Bank(s)
  BY BankSame DEF Rewired
<1>2. \A v : KeyOf(t, v) = KeyOf(s, v)
  BY KeySame DEF Rewired
<1>3. Canon(t)
  BY <1>2 DEF Inv, Canon, Rewired
<1>4. Young(t)
  BY DEF Inv, Young, Rewired
<1>5. Writer(t) /\ Writes(t)
  BY <1>1 DEF Inv, Writer, Writes, Rewired
<1>6. QED
  BY <1>1, <1>3, <1>4, <1>5 DEF Inv, Rewired

\* Lists of reads and readers.
LEMMA ListType ==
    ASSUME NEW s, Inv(s)
    PROVE  /\ \A v \in Vn : s.descend[v] \in Seq(Op)
           /\ \A o \in Op : s.inrefs[o] \in Seq(Entries)
           /\ \A v \in Vn, o \in Op : Count(s.descend[v], o) \in Nat
           /\ \A o \in Op : \A x : Count(s.inrefs[o], x) \in Nat
           /\ \A o \in Op : Len(s.inrefs[o]) \in Nat /\ Len(s.inrefs[o]) <= MaxIn
<1>1. s \in State /\ Short(s)
  BY DEF Inv
<1>2. /\ \A v \in Vn : s.descend[v] \in Seq(Op)
      /\ \A o \in Op : s.inrefs[o] \in Seq(Entries)
  BY <1>1, StateType
<1>3. /\ \A v \in Vn, o \in Op : Count(s.descend[v], o) \in Nat
      /\ \A o \in Op : \A x : Count(s.inrefs[o], x) \in Nat
  BY <1>2, CountType
<1>4. QED
  BY <1>1, <1>2, <1>3 DEF Short
-----------------------------------------------------------------------------
(***************************************************************************)
(* Edits of the reads.                                                     *)
(***************************************************************************)

\* A state with other reads.
LEMMA ReadsFields ==
    ASSUME NEW s \in State, NEW d \in [Vn -> Seq(Op)], NEW i \in [Op -> Seq(Entries)],
           NEW t, t = [s EXCEPT !.descend = d, !.inrefs = i]
    PROVE  /\ Rewired(s, t) /\ t.abort = s.abort /\ t.descend = d /\ t.inrefs = i
  BY DEF State, Rewired

\* erase_descend changes one list of readers.
LEMMA EraseDescendFields ==
    ASSUME NEW s \in State, NEW v \in Vn, NEW o, NEW t, t = EraseDescend(s, v, o)
    PROVE  /\ Rewired(s, t) /\ t.abort = s.abort /\ t.inrefs = s.inrefs
           /\ t.descend = [s.descend EXCEPT ![v] = RemoveFirst(@, o)]
<1>1. s.descend[v] \in Seq(Op) /\ s.descend \in [Vn -> Seq(Op)]
  BY StateType
<1>2. RemoveFirst(s.descend[v], o) \in Seq(Op)
  BY <1>1, RemoveFirstFacts
<1>3. PICK d : d = [s.descend EXCEPT ![v] = RemoveFirst(@, o)]
  OBVIOUS
<1>4. d \in [Vn -> Seq(Op)]
  BY <1>1, <1>2, <1>3
<1>5. t = [s EXCEPT !.descend = d]
  BY <1>3 DEF EraseDescend
<1>6. QED
  BY <1>3, <1>4, <1>5 DEF State, Rewired

\* op_unset_input empties the slot and tells the varnode that was in it.
LEMMA UnsetInputFields ==
    ASSUME NEW s, Inv(s), NEW o \in Op, NEW i \in 1..Len(s.inrefs[o]),
           NEW v, v = s.inrefs[o][i], NEW t, t = OpUnsetInput(s, o, i)
    PROVE  /\ Rewired(s, t) /\ t.abort = s.abort
           /\ t.inrefs[o] = Updated(s.inrefs[o], i, Null)
           /\ \A x \in Op \ {o} : t.inrefs[x] = s.inrefs[x]
           /\ t.descend = IF v \in Vn /\ Count(s.descend[v], o) # 0
                          THEN [s.descend EXCEPT ![v] = RemoveFirst(@, o)] ELSE s.descend
<1>1. s \in State /\ s.inrefs[o] \in Seq(Entries) /\ Null \in Entries
  BY ListType, Constants DEF Inv
<1>2. v \in Entries
  BY <1>1
<1>3. v # Null => v \in Vn
  BY <1>2 DEF Entries
<1>4. v \in Vn => (Contains(s.descend[v], o) <=> Count(s.descend[v], o) # 0)
  <2> HAVE v \in Vn
  <2>1. s.descend[v] \in Seq(Op)
    BY ListType
  <2>2. QED
    BY <2>1, CountZero DEF Contains
<1>5. PICK u : u = IF v # Null /\ Contains(s.descend[v], o)
                   THEN EraseDescend(s, v, o) ELSE s
  OBVIOUS
<1>6. /\ Rewired(s, u) /\ u.abort = s.abort /\ u.inrefs = s.inrefs
      /\ u.descend = IF v \in Vn /\ Count(s.descend[v], o) # 0
                     THEN [s.descend EXCEPT ![v] = RemoveFirst(@, o)] ELSE s.descend
  <2>1. CASE v # Null /\ Contains(s.descend[v], o)
    <3>1. u = EraseDescend(s, v, o) /\ v \in Vn /\ Count(s.descend[v], o) # 0
      BY <1>3, <1>4, <1>5, <2>1
    <3>2. QED
      BY <1>1, <3>1, EraseDescendFields
  <2>2. CASE ~(v # Null /\ Contains(s.descend[v], o))
    <3>1. u = s /\ ~(v \in Vn /\ Count(s.descend[v], o) # 0)
      BY <1>4, <1>5, <2>2, Constants
    <3>2. QED
      BY <1>1, <3>1 DEF Rewired
  <2>3. QED
    BY <2>1, <2>2
<1>7. PICK q : q = Updated(s.inrefs[o], i, Null)
  OBVIOUS
<1>8. q \in Seq(Entries)
  <2>1. Updated(s.inrefs[o], i, Null) \in Seq(Entries)
    BY <1>1, UpdateFacts
  <2>2. QED
    BY <1>7, <2>1
<1>9. t = [u EXCEPT !.inrefs[o][i] = Null]
  BY <1>5 DEF OpUnsetInput
<1>10. u \in State /\ u.inrefs \in [Op -> Seq(Entries)]
  BY <1>6, StateType DEF Rewired
<1>11. PICK f : f = [s.inrefs EXCEPT ![o] = q]
  OBVIOUS
<1>12. /\ f \in [Op -> Seq(Entries)] /\ f[o] = q /\ \A x \in Op \ {o} : f[x] = s.inrefs[x]
       /\ f = [u.inrefs EXCEPT ![o][i] = Null]
  BY <1>6, <1>7, <1>8, <1>10, <1>11 DEF Updated
<1>13. t = [u EXCEPT !.inrefs = f]
  BY <1>9, <1>12
<1>14. Rewired(u, t) /\ t.abort = u.abort /\ t.inrefs = f /\ t.descend = u.descend
  BY <1>10, <1>12, <1>13 DEF State, Rewired
<1>15. Rewired(s, t)
  BY <1>6, <1>14 DEF Rewired
<1>16. QED
  BY <1>6, <1>7, <1>11, <1>12, <1>14, <1>15

\* Emptying a slot, or passing over one that is empty.
LEMMA UnsetInput ==
    ASSUME NEW s, Inv(s), NEW o \in Op, NEW i \in 1..Len(s.inrefs[o]),
           NEW t, t = OpUnsetInput(s, o, i)
    PROVE  /\ Inv(t) /\ Bank(t) = Bank(s) /\ Rewired(s, t) /\ t.abort = s.abort
           /\ t.inrefs[o] = Updated(s.inrefs[o], i, Null)
           /\ \A x \in Op \ {o} : t.inrefs[x] = s.inrefs[x]
           /\ \A x \in Op : Len(t.inrefs[x]) = Len(s.inrefs[x])
           /\ \A x \in Vn : s.descend[x] = <<>> => t.descend[x] = <<>>
<1>1. PICK v : v = s.inrefs[o][i]
  OBVIOUS
<1>2. /\ Rewired(s, t) /\ t.abort = s.abort
      /\ t.inrefs[o] = Updated(s.inrefs[o], i, Null)
      /\ \A x \in Op \ {o} : t.inrefs[x] = s.inrefs[x]
      /\ t.descend = IF v \in Vn /\ Count(s.descend[v], o) # 0
                     THEN [s.descend EXCEPT ![v] = RemoveFirst(@, o)] ELSE s.descend
  BY <1>1, UnsetInputFields, SMTT(30)
<1>3. /\ s \in State /\ s.inrefs[o] \in Seq(Entries) /\ Null \in Entries /\ Null \notin Vn
      /\ s.descend \in [Vn -> Seq(Op)]
  BY ListType, Constants, StateType DEF Inv
<1>4. Len(Updated(s.inrefs[o], i, Null)) = Len(s.inrefs[o])
  BY <1>3, UpdateFacts
<1>5. \A x \in Op : Len(t.inrefs[x]) = Len(s.inrefs[x])
  BY <1>2, <1>4
<1>6. \A x \in Vn : Count(t.inrefs[o], x) = Count(s.inrefs[o], x) - (IF v = x THEN 1 ELSE 0)
  <2> TAKE x \in Vn
  <2>1. Count(Updated(s.inrefs[o], i, Null), x) + (IF s.inrefs[o][i] = x THEN 1 ELSE 0)
            = Count(s.inrefs[o], x) + (IF Null = x THEN 1 ELSE 0)
    BY <1>3, CountUpdate
  <2>2. Null # x
    BY <1>3
  <2>3. Updated(s.inrefs[o], i, Null) \in Seq(Entries)
    BY <1>3, UpdateFacts
  <2>4. Count(Updated(s.inrefs[o], i, Null), x) \in Nat /\ Count(s.inrefs[o], x) \in Nat
    BY <1>3, <2>3, CountType
  <2>5. QED
    BY <1>1, <1>2, <2>1, <2>2, <2>4
<1>7. \A x \in Vn : s.descend[x] = <<>> => t.descend[x] = <<>>
  <2> TAKE x \in Vn
  <2> HAVE s.descend[x] = <<>>
  <2>1. Count(s.descend[x], o) = 0
    BY CountEmpty
  <2>2. QED
    BY <1>2, <1>3, <2>1
<1>8. ASSUME NEW x \in Vn, ReadsOf(s, x) PROVE ReadsOf(t, x)
  <2>1. Count(s.inrefs[o], x) = Count(s.descend[x], o) /\ Count(s.descend[x], o) \in Nat
    BY <1>8, ListType DEF ReadsOf
  <2>2. CASE x # v
    <3>1. t.descend[x] = s.descend[x]
      BY <1>2, <1>3, <2>2
    <3>2. Count(t.inrefs[o], x) = Count(s.inrefs[o], x)
      BY <1>6, <2>1, <2>2
    <3>3. QED
      BY <1>2, <1>8, <3>1, <3>2 DEF ReadsOf
  <2>3. CASE x = v
    <3>1. Count(s.inrefs[o], x) # 0
      BY <1>1, <1>3, <2>3, CountZero
    <3>2. Count(s.descend[x], o) # 0
      BY <2>1, <3>1
    <3>3. t.descend[x] = RemoveFirst(s.descend[x], o)
      BY <1>2, <1>3, <2>3, <3>2
    <3>4. s.descend[x] \in Seq(Op)
      BY <1>3
    <3>5. \A y : Count(s.descend[x], y) = Count(RemoveFirst(s.descend[x], o), y)
                                                + (IF o = y THEN 1 ELSE 0)
      BY <3>2, <3>4, RemoveFirstFacts
    <3>6. RemoveFirst(s.descend[x], o) \in Seq(Op)
      BY <3>4, RemoveFirstFacts
    <3>7. \A y : Count(RemoveFirst(s.descend[x], o), y) \in Nat
      BY <3>6, CountType
    <3>8. ASSUME NEW y \in Op PROVE Count(t.descend[x], y) = Count(t.inrefs[y], x)
      <4>1. Count(s.descend[x], y) = Count(t.descend[x], y) + (IF o = y THEN 1 ELSE 0)
            /\ Count(t.descend[x], y) \in Nat
        BY <3>3, <3>5, <3>7
      <4>2. Count(s.descend[x], y) = Count(s.inrefs[y], x)
        BY <1>8 DEF ReadsOf
      <4>3. CASE y = o
        BY <1>6, <2>3, <4>1, <4>2, <4>3
      <4>4. CASE y # o
        BY <1>2, <4>1, <4>2, <4>4
      <4>5. QED
        BY <4>3, <4>4
    <3>9. QED
      BY <3>8 DEF ReadsOf
  <2>4. QED
    BY <2>2, <2>3
<1>9. Reads(t)
  <2>1. Bank(t) = Bank(s) /\ Bank(s) \subseteq Vn
    BY <1>2, <1>3, BankSame, BankType DEF Rewired
  <2>2. QED
    BY <1>8, <2>1 DEF Inv, Reads
<1>10. ASSUME NEW x \in Vn, x >= s.made
       PROVE  t.descend[x] = <<>> /\ \A y \in Op : Count(t.inrefs[y], x) = 0
  <2>1. s.descend[x] = <<>> /\ \A y \in Op : Count(s.inrefs[y], x) = 0
    BY <1>10 DEF Inv, Young
  <2>2. t.descend[x] = <<>>
    BY <1>7, <2>1
  <2>3. ReadsOf(s, x)
    BY <2>1, CountEmpty DEF ReadsOf
  <2>4. ReadsOf(t, x)
    BY <1>8, <2>3
  <2>5. QED
    BY <2>2, <2>4, CountEmpty DEF ReadsOf
<1>11. Short(t)
  BY <1>5 DEF Inv, Short
<1>12. Inv(t) /\ Bank(t) = Bank(s)
  BY <1>2, <1>9, <1>10, <1>11, Rewire
<1>13. QED
  BY <1>2, <1>5, <1>7, <1>12

WithReads(s, o, q) == [s EXCEPT !.inrefs[o] = q]

\* q is a list of the same varnodes as p.
SameReads(p, q) == \A x \in Vn : Count(q, x) = Count(p, x)

\* The slots of o in another order, or with other empty ones.
LEMMA Rearrange ==
    ASSUME NEW s, Inv(s), NEW o \in Op, NEW q \in Seq(Entries), Len(q) <= MaxIn,
           SameReads(s.inrefs[o], q), NEW t, t = WithReads(s, o, q)
    PROVE  /\ Inv(t) /\ Bank(t) = Bank(s) /\ Rewired(s, t) /\ t.abort = s.abort
           /\ t.inrefs = [s.inrefs EXCEPT ![o] = q] /\ t.descend = s.descend
<1>1. s \in State /\ s.inrefs \in [Op -> Seq(Entries)]
  BY StateType DEF Inv
<1>2. PICK f : f = [s.inrefs EXCEPT ![o] = q]
  OBVIOUS
<1>3. f \in [Op -> Seq(Entries)] /\ f[o] = q /\ \A x \in Op \ {o} : f[x] = s.inrefs[x]
  BY <1>1, <1>2
<1>4. t = [s EXCEPT !.inrefs = f]
  BY <1>2 DEF WithReads
<1>5. Rewired(s, t) /\ t.abort = s.abort /\ t.inrefs = f /\ t.descend = s.descend
  BY <1>1, <1>3, <1>4 DEF State, Rewired
<1>6. \A x \in Vn, y \in Op : Count(t.inrefs[y], x) = Count(s.inrefs[y], x)
  BY <1>3, <1>5 DEF SameReads
<1>7. Bank(t) = Bank(s) /\ Bank(s) \subseteq Vn
  BY <1>1, <1>5, BankSame, BankType DEF Rewired
<1>8. Reads(t)
  BY <1>5, <1>6, <1>7 DEF Inv, Reads, ReadsOf
<1>9. \A x \in Vn : x >= s.made =>
          t.descend[x] = <<>> /\ \A y \in Op : Count(t.inrefs[y], x) = 0
  BY <1>5, <1>6 DEF Inv, Young
<1>10. Short(t)
  BY <1>3, <1>5 DEF Inv, Short
<1>11. Inv(t)
  BY <1>5, <1>8, <1>9, <1>10, Rewire
<1>12. QED
  BY <1>2, <1>5, <1>7, <1>11

\* What a call leaves: a panic, or a graph in order.
Good(s) == s \in State /\ s.abort # "constant" /\ (s.abort = "no" => Inv(s))

\* q is the list p and w once more.
OneMore(p, q, w) == \A x \in Vn : Count(q, x) = Count(p, x) + (IF x = w THEN 1 ELSE 0)

\* A constant that has a reader is copied; the copy has none.
Copied(s, v) == IsConstant(s, v) /\ s.descend[v] # <<>>
CopyOf(s, v) == IF Copied(s, v) THEN Create(s, s.loc[v]) ELSE s
Shared(s, v) == IF Copied(s, v) THEN s.made ELSE v

ReaderAdded(s, t, w, o, q) ==
    /\ Good(t)
    /\ t.abort # "no" => IsFree(s, w)
    /\ t.abort = "no" => /\ Bank(t) = Bank(s) /\ Rewired(s, t)
                         /\ t.inrefs = [s.inrefs EXCEPT ![o] = q]
                         /\ t.descend = [s.descend EXCEPT ![w] = Append(@, o)]

\* One more slot of o holds w.
LEMMA AddReader ==
    ASSUME NEW s, Inv(s), s.abort = "no", NEW o \in Op, NEW w \in Bank(s),
           NEW q \in Seq(Entries), Len(q) <= MaxIn, OneMore(s.inrefs[o], q, w),
           ~Copied(s, w), NEW t, t = WithReads(AddDescend(s, w, o), o, q)
    PROVE  ReaderAdded(s, t, w, o, q)
<1>1. /\ s \in State /\ s.inrefs \in [Op -> Seq(Entries)] /\ w \in Vn
      /\ s.descend \in [Vn -> Seq(Op)] /\ w < s.made /\ s.made \in Nat
  BY StateType, BankEntry DEF Inv
<1>2. PICK f : f = [s.inrefs EXCEPT ![o] = q]
  OBVIOUS
<1>3. f \in [Op -> Seq(Entries)] /\ f[o] = q /\ \A x \in Op \ {o} : f[x] = s.inrefs[x]
  BY <1>1, <1>2
<1>4. PICK d : d = [s.descend EXCEPT ![w] = Append(@, o)]
  OBVIOUS
<1>5. /\ d \in [Vn -> Seq(Op)] /\ d[w] = Append(s.descend[w], o)
      /\ \A x \in Vn \ {w} : d[x] = s.descend[x]
  BY <1>1, <1>4
<1>6. CASE IsFree(s, w) /\ s.descend[w] # <<>>
  <2>1. ~IsConstant(s, w)
    BY <1>6 DEF Copied
  <2>2. t = [[s EXCEPT !.abort = "free"] EXCEPT !.inrefs[o] = q]
    BY <1>6, <2>1 DEF AddDescend, WithReads
  <2>3. t = [s EXCEPT !.abort = "free", !.inrefs = f]
    BY <1>1, <1>2, <2>2 DEF State
  <2>4. t \in State /\ t.abort = "free"
    BY <1>1, <1>3, <2>3 DEF State
  <2>5. QED
    BY <1>6, <2>4 DEF Good, ReaderAdded
<1>7. CASE ~(IsFree(s, w) /\ s.descend[w] # <<>>)
  <2>1. t = [[s EXCEPT !.descend[w] = Append(@, o)] EXCEPT !.inrefs[o] = q]
    BY <1>7 DEF AddDescend, WithReads
  <2>2. t = [s EXCEPT !.descend = d, !.inrefs = f]
    BY <1>1, <1>2, <1>4, <2>1 DEF State
  <2>3. Rewired(s, t) /\ t.abort = "no" /\ t.inrefs = f /\ t.descend = d
    BY <1>1, <1>3, <1>5, <2>2 DEF State, Rewired
  <2>4. Bank(t) = Bank(s) /\ Bank(s) \subseteq Vn
    BY <1>1, <2>3, BankSame, BankType DEF Rewired
  <2>5. ASSUME NEW x \in Bank(s), NEW y \in Op
        PROVE  Count(t.descend[x], y) = Count(t.inrefs[y], x)
    <3>1. x \in Vn /\ Count(s.descend[x], y) = Count(s.inrefs[y], x)
          /\ Count(s.descend[x], y) \in Nat
      BY <2>4, ListType DEF Inv, Reads, ReadsOf
    <3>2. Count(f[y], x) = Count(s.inrefs[y], x) + (IF y = o /\ x = w THEN 1 ELSE 0)
      <4>1. CASE y = o
        BY <1>3, <3>1, <4>1 DEF OneMore
      <4>2. CASE y # o
        <5>1. f[y] = s.inrefs[y]
          BY <1>3, <4>2
        <5>2. QED
          BY <3>1, <4>2, <5>1
      <4>3. QED
        BY <4>1, <4>2
    <3>3. Count(d[x], y) = Count(s.descend[x], y) + (IF y = o /\ x = w THEN 1 ELSE 0)
      <4>1. CASE x = w
        <5>1. s.descend[w] \in Seq(Op)
          BY <1>1
        <5>2. \A z : Count(Append(s.descend[w], o), z)
                        = Count(s.descend[w], z) + (IF o = z THEN 1 ELSE 0)
          BY <5>1, CountAppend
        <5>3. QED
          BY <1>5, <3>1, <4>1, <5>2
      <4>2. CASE x # w
        <5>1. d[x] = s.descend[x]
          BY <1>5, <3>1, <4>2
        <5>2. QED
          BY <3>1, <4>2, <5>1
      <4>3. QED
        BY <4>1, <4>2
    <3>4. QED
      BY <2>3, <3>1, <3>2, <3>3
  <2>6. Reads(t)
    BY <2>4, <2>5 DEF Reads, ReadsOf
  <2>7. ASSUME NEW x \in Vn, x >= s.made
        PROVE  t.descend[x] = <<>> /\ \A y \in Op : Count(t.inrefs[y], x) = 0
    <3>1. x # w /\ x \in Nat
      BY <1>1, <2>7, Constants
    <3>2. s.descend[x] = <<>> /\ \A y \in Op : Count(s.inrefs[y], x) = 0
      BY <2>7 DEF Inv, Young
    <3>3. t.descend[x] = <<>>
      BY <1>5, <2>3, <3>1, <3>2
    <3>4. Count(q, x) = 0
      BY <3>1, <3>2 DEF OneMore
    <3>5. QED
      BY <1>3, <2>3, <3>2, <3>3, <3>4
  <2>8. Short(t)
    BY <1>3, <2>3 DEF Inv, Short
  <2>9. Inv(t)
    <3>1. Rewired(s, t)
      BY <2>3
    <3>2. \A x \in Vn : x >= s.made =>
              t.descend[x] = <<>> /\ \A y \in Op : Count(t.inrefs[y], x) = 0
      BY <2>7, Zenon
    <3>3. PICK u : u = t
      OBVIOUS
    <3>4. /\ Rewired(s, u) /\ Reads(u) /\ Short(u)
          /\ \A x \in Vn : x >= s.made =>
                u.descend[x] = <<>> /\ \A y \in Op : Count(u.inrefs[y], x) = 0
      BY <2>6, <2>8, <3>1, <3>2, <3>3, Zenon
    <3>5. Inv(u)
      BY <3>4, Rewire
    <3>6. QED
      BY <3>3, <3>5, Zenon
  <2>10. QED
    BY <1>2, <1>4, <2>3, <2>4, <2>9 DEF Good, Inv, ReaderAdded
<1>8. QED
  BY <1>6, <1>7

-----------------------------------------------------------------------------
(***************************************************************************)
(* OpUnsetInputs.                                                          *)
(***************************************************************************)

\* t is s after the first n slots of o have been emptied.
Emptied(s, t, o, n) ==
    /\ Inv(t) /\ Rewired(s, t) /\ t.abort = s.abort
    /\ \A x \in Op \ {o} : t.inrefs[x] = s.inrefs[x]
    /\ \A x \in Op : Len(t.inrefs[x]) = Len(s.inrefs[x])
    /\ \A i \in 1..n : t.inrefs[o][i] = Null
    /\ \A x \in Vn : s.descend[x] = <<>> => t.descend[x] = <<>>

\* One round of op_unset_inputs.
LEMMA EmptyOne ==
    ASSUME NEW s, Inv(s), NEW o \in Op, NEW t, NEW i \in 1..Len(s.inrefs[o]),
           Emptied(s, t, o, i - 1)
    PROVE  Emptied(s, OpUnsetInput(t, o, i), o, i)
<1>1. PICK u : u = OpUnsetInput(t, o, i)
  OBVIOUS
<1>2. /\ Inv(t) /\ Rewired(s, t) /\ t.abort = s.abort
      /\ \A x \in Op \ {o} : t.inrefs[x] = s.inrefs[x]
      /\ \A x \in Op : Len(t.inrefs[x]) = Len(s.inrefs[x])
      /\ \A x \in Vn : s.descend[x] = <<>> => t.descend[x] = <<>>
  BY DEF Emptied
<1>3. i \in 1..Len(t.inrefs[o]) /\ t.inrefs[o] \in Seq(Entries) /\ Null \in Entries
  BY <1>2, ListType, Constants
<1>4. /\ Inv(u) /\ Rewired(t, u) /\ u.abort = t.abort
      /\ u.inrefs[o] = Updated(t.inrefs[o], i, Null)
      /\ \A x \in Op \ {o} : u.inrefs[x] = t.inrefs[x]
      /\ \A x \in Op : Len(u.inrefs[x]) = Len(t.inrefs[x])
      /\ \A x \in Vn : t.descend[x] = <<>> => u.descend[x] = <<>>
  BY <1>1, <1>2, <1>3, UnsetInput
<1>5. /\ Updated(t.inrefs[o], i, Null)[i] = Null
      /\ \A j \in 1..Len(t.inrefs[o]) : j # i =>
             Updated(t.inrefs[o], i, Null)[j] = t.inrefs[o][j]
  <2>1. PICK q : q = t.inrefs[o]
    OBVIOUS
  <2>2. q \in Seq(Entries) /\ i \in 1..Len(q) /\ Null \in Entries
    BY <1>3, <2>1
  <2>3. /\ Updated(q, i, Null)[i] = Null
        /\ \A j \in 1..Len(q) : j # i => Updated(q, i, Null)[j] = q[j]
    BY <2>2, UpdateFacts
  <2>4. QED
    BY <2>1, <2>3
<1>6. \A j \in 1..i : u.inrefs[o][j] = Null
  <2> TAKE j \in 1..i
  <2>1. CASE j = i
    BY <1>4, <1>5, <2>1
  <2>2. CASE j # i
    <3>1. Len(t.inrefs[o]) \in Nat
      BY <1>2, ListType
    <3>2. j \in 1..i - 1 /\ j \in 1..Len(t.inrefs[o])
      BY <1>3, <2>2, <3>1
    <3>3. QED
      BY <1>4, <1>5, <2>2, <3>2 DEF Emptied
  <2>3. QED
    BY <2>1, <2>2
<1>7. Rewired(s, u)
  BY <1>2, <1>4 DEF Rewired
<1>8. QED
  BY <1>1, <1>2, <1>4, <1>6, <1>7 DEF Emptied

\* op_unset_inputs.
LEMMA UnsetInputs ==
    ASSUME NEW s, Inv(s), NEW o \in Op
    PROVE  Emptied(s, OpUnsetInputs(s, o), o, Len(s.inrefs[o]))
<1> DEFINE n == Len(s.inrefs[o])
           Eq(r) == r = [i \in 0..n |-> IF i = 0 THEN s ELSE OpUnsetInput(r[i - 1], o, i)]
           run == CHOOSE r : Eq(r)
           J == [i \in 0..n |-> {t \in State : Emptied(s, t, o, i)}]
           step == [p \in State \X (1..n) |-> OpUnsetInput(p[1], o, p[2])]
<1>1. OpUnsetInputs(s, o) = run[n]
  BY DEF OpUnsetInputs, Repeat
<1>2. n \in Nat
  BY ListType
<1>3. s \in J[0]
  BY <1>2 DEF Emptied, Inv, Rewired
<1>4. ASSUME NEW i \in 1..n, NEW t \in J[i - 1]
      PROVE  /\ OpUnsetInput(t, o, i) \in J[i] /\ t \in State
             /\ step[<<t, i>>] = OpUnsetInput(t, o, i)
  <2>1. i - 1 \in 0..n /\ i \in 0..n
    BY <1>2
  <2>2. t \in State /\ Emptied(s, t, o, i - 1)
    BY <2>1
  <2>3. Emptied(s, OpUnsetInput(t, o, i), o, i)
    BY <2>2, EmptyOne
  <2>4. OpUnsetInput(t, o, i) \in State
    BY <2>3 DEF Emptied, Inv
  <2>5. QED
    BY <2>1, <2>2, <2>3, <2>4
<1> HIDE DEF J, step, n
<1>5. PICK r : IsLoop(r, n, s, step) /\ \A i \in 0..n : r[i] \in J[i]
  BY <1>2, <1>3, <1>4, LoopRuns
<1>6. \A i \in 0..n : i # 0 => i \in 1..n /\ i - 1 \in 0..n
  BY <1>2
<1>7. r = [i \in 0..n |-> IF i = 0 THEN s ELSE OpUnsetInput(r[i - 1], o, i)]
  <2>1. r = [i \in 0..n |-> IF i = 0 THEN s ELSE step[<<r[i - 1], i>>]]
    BY <1>5, Zenon DEF IsLoop
  <2>2. \A i \in 0..n : i # 0 => step[<<r[i - 1], i>>] = OpUnsetInput(r[i - 1], o, i)
    BY <1>4, <1>5, <1>6, Zenon
  <2>3. [i \in 0..n |-> IF i = 0 THEN s ELSE step[<<r[i - 1], i>>]]
            = [i \in 0..n |-> IF i = 0 THEN s ELSE OpUnsetInput(r[i - 1], o, i)]
    BY <2>2, Zenon
  <2>4. QED
    BY <2>1, <2>3, Zenon
<1>8. run = [i \in 0..n |-> IF i = 0 THEN s ELSE OpUnsetInput(run[i - 1], o, i)]
  <2>1. \E q : Eq(q)
    BY <1>7, Zenon
  <2>2. Eq(run)
    <3> HIDE DEF Eq
    <3> QED BY <2>1, Zenon
  <2>3. QED
    BY <2>2, Zenon
<1> HIDE DEF run, Eq
<1>9. \A i \in 0..n : run[i] = IF i = 0 THEN s ELSE OpUnsetInput(run[i - 1], o, i)
  BY <1>8, Zenon
<1>10. 0 \in 0..n /\ n \in 0..n /\ \A i \in 1..n : i \in 0..n /\ i # 0
  BY <1>2
<1>11. run[0] \in J[0] /\ Rounds(J, run, n)
  BY <1>3, <1>4, <1>9, <1>10, Zenon DEF Rounds
<1>12. run[n] \in J[n]
  BY <1>2, <1>10, <1>11, RoundsHold, Zenon
<1>13. QED
  BY <1>1, <1>10, <1>12, Zenon DEF J, n
-----------------------------------------------------------------------------
(***************************************************************************)
(* The bank.                                                               *)
(***************************************************************************)

\* Everything but the tree, the keys and what v is, is the same.
Refiled(s, t, v) ==
    /\ t \in State
    /\ t.descend = s.descend /\ t.inrefs = s.inrefs /\ t.made = s.made
    /\ t.dead = s.dead /\ t.abort = s.abort /\ t.loc = s.loc
    /\ \A w \in Vn \ {v} : t.state[w] = s.state[w] /\ t.def[w] = s.def[w]

\* No op writes v.
NotOut(s, v) == \A o \in Op : s.output[o] # v

\* Erase takes the one entry of v, by whichever key it looks.
LEMMA EraseFields ==
    ASSUME NEW s, s \in State, Canon(s), NEW v \in Vn, NEW t, t = Erase(s, v)
    PROVE  /\ Refiled(s, t, v) /\ t.state = s.state /\ t.def = s.def
           /\ t.key = s.key /\ t.output = s.output
           /\ t.tree = {e \in s.tree : e[2] # v}
<1> DEFINE all == {e \in s.tree : e[2] = v}
           by(k) == {e \in s.tree : e[1] = k /\ e[2] = v}
           old == IF by(s.key[v]) # {} THEN by(s.key[v])
                  ELSE IF by(KeyOf(s, v)) # {} THEN by(KeyOf(s, v))
                  ELSE all
<1>1. \A e \in all : e = <<KeyOf(s, v), v>>
  BY EntryType DEF Canon
<1>2. \A k : by(k) # {} => by(k) = all
  <2> TAKE k
  <2> HAVE by(k) # {}
  <2>1. by(k) \subseteq all
    OBVIOUS
  <2>2. PICK e : e \in by(k)
    OBVIOUS
  <2>3. e \in all /\ \A d \in all : d = e
    BY <1>1, <2>1, <2>2
  <2>4. QED
    BY <2>1, <2>2, <2>3
<1>3. old = all
  <2> HIDE DEF all, by
  <2> QED BY <1>2
<1>4. t = [s EXCEPT !.tree = @ \ old]
  BY DEF Erase
<1>5. s.tree \ all = {e \in s.tree : e[2] # v}
  OBVIOUS
<1>6. t = [s EXCEPT !.tree = {e \in s.tree : e[2] # v}]
  <2> HIDE DEF all, old
  <2> QED BY <1>3, <1>4, <1>5
<1>7. PICK r : r = {e \in s.tree : e[2] # v}
  OBVIOUS
<1>8. r \in SUBSET (Key \X Vn)
  BY <1>7, StateType
<1>9. t = [s EXCEPT !.tree = r]
  BY <1>6, <1>7
<1>10. QED
  BY <1>7, <1>8, <1>9 DEF State, Refiled

\* The invariant, but for v, which no op has as its output.
InvBut(s, v) ==
    /\ s \in State
    /\ Canon(s) /\ Young(s) /\ Writer(s) /\ Reads(s) /\ Short(s)
    /\ \A o \in Op :
        /\ \A w \in Bank(s) \ {v} :
               (s.state[w] = "written" /\ s.def[w] = o) <=> s.output[o] = w
        /\ s.output[o] # Null => s.output[o] \in Bank(s) \ {v}

\* Without an op that writes v, the invariant holds but for v.
LEMMA NotOutBut ==
    ASSUME NEW s, Inv(s), NEW v, NotOut(s, v)
    PROVE  InvBut(s, v)
  BY DEF Inv, InvBut, Writes, NotOut

\* A varnode that no op writes leaves the bank.
LEMMA EraseInv ==
    ASSUME NEW s, NEW v \in Vn, InvBut(s, v), NEW t, t = Erase(s, v)
    PROVE  /\ Inv(t) /\ Refiled(s, t, v) /\ t.state = s.state /\ t.def = s.def
           /\ t.output = s.output /\ t.key = s.key
           /\ Bank(t) = Bank(s) \ {v} /\ t.tree = {e \in s.tree : e[2] # v}
<1>1. s \in State /\ Canon(s)
  BY DEF InvBut
<1>2. /\ Refiled(s, t, v) /\ t.state = s.state /\ t.def = s.def
      /\ t.key = s.key /\ t.output = s.output
      /\ t.tree = {e \in s.tree : e[2] # v}
  BY <1>1, EraseFields
<1>3. Bank(t) = Bank(s) \ {v}
  BY <1>2 DEF Bank
<1>4. \A w : KeyOf(t, w) = KeyOf(s, w)
  BY <1>2, KeySame DEF Refiled
<1>5. Canon(t)
  BY <1>1, <1>2, <1>4 DEF Canon
<1>6. Young(t) /\ Writer(t) /\ Short(t)
  BY <1>2 DEF InvBut, Young, Writer, Short, Refiled
<1>7. Reads(t)
  BY <1>2, <1>3 DEF InvBut, Reads, ReadsOf, Refiled
<1>8. Writes(t)
  BY <1>2, <1>3 DEF InvBut, Writes
<1>9. QED
  BY <1>2, <1>3, <1>5, <1>6, <1>7, <1>8 DEF Inv, Refiled

\* A varnode outside the bank becomes something else.
Becomes(s, v, df, st) == [s EXCEPT !.def[v] = df, !.state[v] = st]

\* Outside the bank, a varnode may change what it is.
LEMMA Become ==
    ASSUME NEW s, Inv(s), NEW v \in Vn, v \notin Bank(s), v < s.made,
           NEW st, st \in {"free", "input", "written"}, NEW df, df \in Op \cup {NoOp},
           st = "written" => df \in Op, NEW t, t = Becomes(s, v, df, st)
    PROVE  /\ Inv(t) /\ Refiled(s, t, v) /\ t.state[v] = st /\ t.def[v] = df
           /\ t.tree = s.tree /\ t.key = s.key /\ t.output = s.output
           /\ Bank(t) = Bank(s)
<1>1. s \in State /\ s.state \in [Vn -> {"free", "input", "written"}]
      /\ s.def \in [Vn -> Op \cup {NoOp}] /\ s.made \in Nat
  BY StateType, Constants DEF Inv
<1>2. PICK a : a = [s.state EXCEPT ![v] = st]
  OBVIOUS
<1>3. PICK b : b = [s.def EXCEPT ![v] = df]
  OBVIOUS
<1>4. /\ a \in [Vn -> {"free", "input", "written"}] /\ b \in [Vn -> Op \cup {NoOp}]
      /\ a[v] = st /\ b[v] = df /\ \A w \in Vn \ {v} : a[w] = s.state[w] /\ b[w] = s.def[w]
  BY <1>1, <1>2, <1>3
<1>5. t = [s EXCEPT !.def = b, !.state = a]
  BY <1>1, <1>2, <1>3 DEF State, Becomes
<1>6. /\ Refiled(s, t, v) /\ t.state = a /\ t.def = b
      /\ t.tree = s.tree /\ t.key = s.key /\ t.output = s.output
  <2>1. a \in [Vn -> {"free", "input", "written"}] /\ b \in [Vn -> Op \cup {NoOp}] /\ s \in State
    BY <1>1, <1>4
  <2>2. t \in State
    BY <1>5, <2>1 DEF State
  <2>3. /\ t.descend = s.descend /\ t.inrefs = s.inrefs /\ t.made = s.made
        /\ t.dead = s.dead /\ t.abort = s.abort /\ t.loc = s.loc /\ t.tree = s.tree
        /\ t.key = s.key /\ t.output = s.output /\ t.state = a /\ t.def = b
    BY <1>5, <2>1 DEF State
  <2>4. QED
    BY <1>4, <2>2, <2>3 DEF Refiled
<1>7. Bank(t) = Bank(s) /\ Bank(s) \subseteq Vn
  BY <1>1, <1>6, BankSame, BankType
<1>8. \A w \in Bank(s) : t.state[w] = s.state[w] /\ t.def[w] = s.def[w]
  BY <1>4, <1>6, <1>7
<1>9. \A w \in Bank(s) : KeyOf(t, w) = KeyOf(s, w)
  BY <1>6, <1>8, KeySame DEF Refiled
<1>10. Canon(t)
  BY <1>6, <1>9 DEF Inv, Canon, Bank
<1>11. \A w \in Vn : w >= s.made => w # v /\ w \in Vn \ {v}
  BY <1>1, Constants
<1>12. Young(t)
  <2>1. \A w \in Vn : w >= s.made => t.state[w] = s.state[w] /\ t.def[w] = s.def[w]
    BY <1>4, <1>6, <1>11
  <2>2. t.tree = s.tree /\ t.made = s.made /\ t.descend = s.descend /\ t.inrefs = s.inrefs
    BY <1>6 DEF Refiled
  <2>3. QED
    BY <2>1, <2>2 DEF Inv, Young
<1>13. Writer(t)
  <2>1. \A w \in Vn : w # v => t.state[w] = s.state[w] /\ t.def[w] = s.def[w]
    BY <1>4, <1>6
  <2>2. QED
    BY <1>4, <1>6, <2>1 DEF Inv, Writer
<1>14. Reads(t) /\ Short(t)
  BY <1>6, <1>7 DEF Inv, Reads, ReadsOf, Short, Refiled
<1>15. Writes(t)
  BY <1>6, <1>7, <1>8 DEF Inv, Writes
<1>16. QED
  BY <1>4, <1>6, <1>7, <1>10, <1>12, <1>13, <1>14, <1>15 DEF Inv, Refiled

\* v is entered under a key that no other has.
Entered(s, v) == RefreshKey(TreeInsert(s, v), v)

\* Entering a varnode under a key nobody has adds its entry.
LEMMA EnterFields ==
    ASSUME NEW s, s \in State, NEW v \in Vn, \A e \in s.tree : e[1] # KeyOf(s, v),
           NEW t, t = Entered(s, v)
    PROVE  /\ Refiled(s, t, v) /\ t.state = s.state /\ t.def = s.def
           /\ t.output = s.output
           /\ t.tree = s.tree \cup {<<KeyOf(s, v), v>>}
           /\ t.key[v] = KeyOf(s, v) /\ \A w \in Vn \ {v} : t.key[w] = s.key[w]
<1>1. KeyOf(s, v) \in Key /\ s.tree \in SUBSET (Key \X Vn)
      /\ s.key \in [Vn -> Key \cup {Null}]
  BY KeyFacts, StateType
<1>2. PICK r : r = s.tree \cup {<<KeyOf(s, v), v>>}
  OBVIOUS
<1>3. PICK u : u = TreeInsert(s, v)
  OBVIOUS
<1>4. u = [s EXCEPT !.tree = r]
  BY <1>2, <1>3 DEF TreeInsert
<1>5. u.loc = s.loc /\ u.state = s.state /\ u.def = s.def
  BY <1>4 DEF State
<1>6. KeyOf(u, v) = KeyOf(s, v)
  BY <1>5, KeySame
<1>7. PICK k : k = [s.key EXCEPT ![v] = KeyOf(s, v)]
  OBVIOUS
<1>8. /\ k \in [Vn -> Key \cup {Null}] /\ k[v] = KeyOf(s, v)
      /\ \A w \in Vn \ {v} : k[w] = s.key[w] 
  BY <1>1, <1>7
<1>9. t = [s EXCEPT !.tree = r, !.key = k]
  BY <1>3, <1>4, <1>6, <1>7 DEF Entered, RefreshKey, State
<1>10. r \in SUBSET (Key \X Vn)
  BY <1>1, <1>2
<1>11. QED
  BY <1>2, <1>8, <1>9, <1>10 DEF State, Refiled

\* Canonicity after the entry.
LEMMA EnterCanon ==
    ASSUME NEW s, Inv(s), NEW v \in Vn, v \notin Bank(s), v < s.made,
           \A e \in s.tree : e[1] # KeyOf(s, v), NEW t, t = Entered(s, v)
    PROVE  Canon(t) /\ Young(t) /\ Writer(t) /\ Short(t) /\ Bank(t) = Bank(s) \cup {v}
<1>1. s \in State
  BY DEF Inv
<1>2. /\ Refiled(s, t, v) /\ t.state = s.state /\ t.def = s.def
      /\ t.tree = s.tree \cup {<<KeyOf(s, v), v>>}
      /\ t.key[v] = KeyOf(s, v) /\ \A w \in Vn \ {v} : t.key[w] = s.key[w]
  BY <1>1, EnterFields
<1>3. \A w : KeyOf(t, w) = KeyOf(s, w)
  BY <1>2, KeySame DEF Refiled
<1>4. \A e \in s.tree : e[2] \in Vn \ {v}
  BY <1>1, EntryType DEF Bank
<1>5. PICK e0 : e0 = <<KeyOf(s, v), v>>
  OBVIOUS
<1>6. e0[1] = KeyOf(s, v) /\ e0[2] = v
  BY <1>5
<1>7. t.tree = s.tree \cup {e0}
  BY <1>2, <1>5
<1>8. Canon(t)
  <2>1. \A e \in t.tree : e[1] = KeyOf(t, e[2]) /\ e[1] = t.key[e[2]]
    BY <1>2, <1>3, <1>4, <1>6, <1>7 DEF Inv, Canon
  <2>2. \A d, e \in t.tree : d[1] = e[1] => d = e
    BY <1>6, <1>7 DEF Inv, Canon
  <2>3. QED
    BY <2>1, <2>2 DEF Canon
<1>9. Young(t)
  <2>1. \A e \in t.tree : e[2] < t.made
    BY <1>2, <1>6, <1>7 DEF Inv, Young, Refiled
  <2>2. QED
    BY <1>2, <2>1 DEF Inv, Young, Refiled
<1>10. Writer(t) /\ Short(t)
  BY <1>2 DEF Inv, Writer, Short, Refiled
<1>11. Bank(t) = Bank(s) \cup {v}
  BY <1>6, <1>7 DEF Bank
<1>12. QED
  BY <1>8, <1>9, <1>10, <1>11

\* A varnode that is not written enters the bank.
LEMMA EnterInv ==
    ASSUME NEW s, Inv(s), NEW v \in Vn, v \notin Bank(s), v < s.made,
           \A e \in s.tree : e[1] # KeyOf(s, v), s.state[v] # "written", ReadsOf(s, v),
           NEW t, t = Entered(s, v)
    PROVE  /\ Inv(t) /\ Refiled(s, t, v) /\ t.state = s.state /\ t.def = s.def
           /\ t.output = s.output /\ Bank(t) = Bank(s) \cup {v}
<1>1. s \in State
  BY DEF Inv
<1>2. Refiled(s, t, v) /\ t.state = s.state /\ t.def = s.def /\ t.output = s.output
  BY <1>1, EnterFields
<1>3. Canon(t) /\ Young(t) /\ Writer(t) /\ Short(t) /\ Bank(t) = Bank(s) \cup {v}
  BY EnterCanon
<1>4. Reads(t)
  BY <1>2, <1>3 DEF Inv, Reads, ReadsOf, Refiled
<1>5. NotOut(s, v)
  BY Constants DEF Inv, Writes, NotOut
<1>6. Writes(t)
  BY <1>2, <1>3, <1>5 DEF Inv, Writes, NotOut
<1>7. QED
  BY <1>2, <1>3, <1>4, <1>6 DEF Inv, Refiled

WithOutput(s, o, v) == [s EXCEPT !.output[o] = v]

\* The same for the new output of o.
LEMMA EnterOutput ==
    ASSUME NEW s, Inv(s), NEW v \in Vn, v \notin Bank(s), v < s.made, NEW o \in Op,
           \A e \in s.tree : e[1] # KeyOf(s, v), ReadsOf(s, v),
           s.state[v] = "written", s.def[v] = o, s.output[o] = Null,
           NEW t, t = WithOutput(Entered(s, v), o, v)
    PROVE  /\ Inv(t) /\ t.abort = s.abort /\ t.made = s.made
           /\ t.descend = s.descend /\ t.inrefs = s.inrefs
           /\ Bank(t) = Bank(s) \cup {v}
<1>1. s \in State /\ s.output \in [Op -> Entries] /\ v \in Entries
  BY StateType, Constants DEF Inv
<1>2. PICK u : u = Entered(s, v)
  OBVIOUS
<1>3. Refiled(s, u, v) /\ u.state = s.state /\ u.def = s.def /\ u.output = s.output
  BY <1>1, <1>2, EnterFields
<1>4. Canon(u) /\ Young(u) /\ Writer(u) /\ Short(u) /\ Bank(u) = Bank(s) \cup {v}
  BY <1>2, EnterCanon
<1>5. PICK f : f = [s.output EXCEPT ![o] = v]
  OBVIOUS
<1>6. f \in [Op -> Entries] /\ f[o] = v /\ \A x \in Op \ {o} : f[x] = s.output[x]
  BY <1>1, <1>5
<1>7. t = [u EXCEPT !.output = f]
  BY <1>2, <1>3, <1>5 DEF WithOutput
<1>8. /\ t \in State /\ t.loc = u.loc /\ t.state = u.state /\ t.def = u.def
      /\ t.descend = u.descend /\ t.key = u.key /\ t.tree = u.tree /\ t.made = u.made
      /\ t.inrefs = u.inrefs /\ t.dead = u.dead /\ t.abort = u.abort /\ t.output = f
  <2>1. u \in State /\ f \in [Op -> Entries]
    BY <1>3, <1>6 DEF Refiled
  <2>2. t \in State
    BY <1>7, <2>1 DEF State
  <2>3. QED
    BY <1>7, <2>1, <2>2 DEF State
<1>9. Bank(t) = Bank(s) \cup {v}
  BY <1>4, <1>8, BankSame
<1>10. \A w : KeyOf(t, w) = KeyOf(u, w)
  <2>1. t.loc = u.loc /\ t.state = u.state /\ t.def = u.def
    BY <1>8
  <2>2. QED
    BY <2>1 DEF KeyOf, IsFree
<1>11. Canon(t) /\ Young(t) /\ Writer(t) /\ Short(t)
  BY <1>4, <1>8, <1>10 DEF Canon, Young, Writer, Short
<1>12. Reads(t)
  BY <1>3, <1>8, <1>9 DEF Inv, Reads, ReadsOf, Refiled
<1>13. NotOut(s, v)
  BY Constants DEF Inv, Writes, NotOut
<1>14. Writes(t)
  <2>1. t.state = s.state /\ t.def = s.def /\ t.output = f
    BY <1>3, <1>8
  <2>2. ASSUME NEW w \in Bank(t), NEW x \in Op
        PROVE  (s.state[w] = "written" /\ s.def[w] = x) <=> f[x] = w
    <3>1. CASE w = v
      BY <1>6, <1>13, <3>1 DEF NotOut
    <3>2. CASE w # v
      <4>1. w \in Bank(s)
        BY <1>9, <3>2
      <4>2. (s.state[w] = "written" /\ s.def[w] = x) <=> s.output[x] = w
        BY <4>1 DEF Inv, Writes
      <4>3. Null # w
        BY <1>1, <4>1, BankType, Constants
      <4>4. QED
        BY <1>6, <3>2, <4>2, <4>3
    <3>3. QED
      BY <3>1, <3>2
  <2>3. ASSUME NEW x \in Op, f[x] # Null PROVE f[x] \in Bank(t)
    BY <1>6, <1>9, <2>3 DEF Inv, Writes
  <2>4. \A w \in Bank(t), x \in Op :
            (t.state[w] = "written" /\ t.def[w] = x) <=> t.output[x] = w
    <3> TAKE w \in Bank(t), x \in Op
    <3>1. (s.state[w] = "written" /\ s.def[w] = x) <=> f[x] = w
      BY <2>2
    <3>2. t.state[w] = s.state[w] /\ t.def[w] = s.def[w] /\ t.output[x] = f[x]
      BY <2>1
    <3>3. QED
      BY <3>1, <3>2
  <2>5. \A x \in Op : t.output[x] # Null => t.output[x] \in Bank(t)
    BY <2>1, <2>3
  <2>6. QED
    BY <2>4, <2>5 DEF Writes
<1>15. QED
  BY <1>3, <1>8, <1>9, <1>11, <1>12, <1>14 DEF Inv, Refiled

\* A free varnode has a key of its own.
LEMMA FreeKey ==
    ASSUME NEW s, Inv(s), NEW v \in Vn, v \notin Bank(s), s.state[v] = "free"
    PROVE  \A e \in s.tree : e[1] # KeyOf(s, v)
<1> SUFFICES ASSUME NEW e \in s.tree, e[1] = KeyOf(s, v) PROVE FALSE
  OBVIOUS
<1>1. s \in State
  BY DEF Inv
<1>2. e[2] \in Vn /\ e[2] # v
  BY <1>1, EntryType DEF Bank
<1>3. e[1] = KeyOf(s, e[2])
  BY DEF Inv, Canon
<1>4. KeyOf(s, v)[4] = v
  BY <1>1, KeyFacts
<1>5. KeyOf(s, e[2])[4] = e[2] \/ KeyOf(s, e[2])[4] = Null
  BY <1>1, <1>2, KeyFacts
<1>6. v # Null
  BY Constants
<1>7. QED
  BY <1>2, <1>3, <1>4, <1>5, <1>6

\* A free varnode in the bank, whatever it was.
LEMMA MakeFreeBut ==
    ASSUME NEW s, NEW v \in Vn, InvBut(s, v), v < s.made, ReadsOf(s, v),
           NEW t, t = MakeFree(s, v)
    PROVE  /\ Inv(t) /\ Refiled(s, t, v) /\ t.state[v] = "free" /\ t.def[v] = NoOp
           /\ t.output = s.output /\ Bank(t) = Bank(s) \cup {v}
<1>1. PICK a : a = Erase(s, v)
  OBVIOUS
<1>2. /\ Inv(a) /\ Refiled(s, a, v) /\ a.state = s.state /\ a.def = s.def
      /\ a.output = s.output /\ Bank(a) = Bank(s) \ {v}
  BY <1>1, EraseInv
<1>s. PICK st, df : st = "free" /\ df = NoOp
  OBVIOUS
<1>t. /\ st \in {"free", "input", "written"} /\ df \in Op \cup {NoOp}
      /\ st = "written" => df \in Op
  BY <1>s
<1>3. PICK b : b = Becomes(a, v, df, st)
  OBVIOUS
<1>4. v \notin Bank(a) /\ v < a.made
  BY <1>2 DEF Refiled
<1>5. /\ Inv(b) /\ Refiled(a, b, v) /\ b.state[v] = "free" /\ b.def[v] = NoOp
      /\ b.output = a.output /\ Bank(b) = Bank(a)
  <2>1. Inv(a)
    BY <1>2
  <2>2. /\ Inv(b) /\ Refiled(a, b, v) /\ b.state[v] = st /\ b.def[v] = df
        /\ b.output = a.output /\ Bank(b) = Bank(a)
    BY <1>t, <1>3, <1>4, <2>1, Become
  <2>3. QED
    BY <1>s, <2>2
<1>6. t = Entered(b, v)
  BY <1>1, <1>s, <1>3 DEF MakeFree, Entered, Becomes
<1>7. v \notin Bank(b) /\ v < b.made /\ b.state[v] # "written" /\ ReadsOf(b, v)
  BY <1>2, <1>4, <1>5 DEF Refiled, ReadsOf
<1>8. \A e \in b.tree : e[1] # KeyOf(b, v)
  BY <1>5, <1>7, FreeKey
<1>9. /\ Inv(t) /\ Refiled(b, t, v) /\ t.state = b.state /\ t.def = b.def
      /\ t.output = b.output /\ Bank(t) = Bank(b) \cup {v}
  BY <1>5, <1>6, <1>7, <1>8, EnterInv
<1>10. Refiled(s, t, v)
  BY <1>2, <1>5, <1>9 DEF Refiled
<1>11. Bank(t) = Bank(s) \cup {v}
  BY <1>2, <1>5, <1>9
<1>12. QED
  BY <1>2, <1>5, <1>9, <1>10, <1>11

\* o gives its output up; t is what is left.
OutputUnset(s, t, o) ==
    /\ Inv(t) /\ Bank(t) = Bank(s)
    /\ t.descend = s.descend /\ t.inrefs = s.inrefs /\ t.made = s.made
    /\ t.dead = s.dead /\ t.abort = s.abort /\ t.loc = s.loc
    /\ t.output = [s.output EXCEPT ![o] = Null]
    /\ t.output[o] = Null /\ \A x \in Op \ {o} : t.output[x] = s.output[x]
    /\ \A w \in Vn : w # s.output[o] => t.state[w] = s.state[w] /\ t.def[w] = s.def[w]
    /\ s.output[o] # Null => t.state[s.output[o]] = "free"

\* op_unset_output: the varnode becomes free, under a key of its own.
LEMMA UnsetOutput ==
    ASSUME NEW s, Inv(s), NEW o \in Op, NEW t, t = OpUnsetOutput(s, o)
    PROVE  OutputUnset(s, t, o)
<1>1. s \in State /\ s.output \in [Op -> Entries] /\ Null \in Entries
  BY StateType, Constants DEF Inv
<1>2. PICK v : v = s.output[o]
  OBVIOUS
<1>3. PICK f : f = [s.output EXCEPT ![o] = Null]
  OBVIOUS
<1>4. f \in [Op -> Entries] /\ f[o] = Null /\ \A x \in Op \ {o} : f[x] = s.output[x]
  BY <1>1, <1>3
<1>5. CASE v = Null
  <2>1. t = s
    BY <1>2, <1>5 DEF OpUnsetOutput
  <2>2. s.output = f
    <3>1. \A x \in Op : s.output[x] = f[x]
      BY <1>2, <1>4, <1>5
    <3>2. QED
      BY <1>1, <1>4, <3>1
  <2>3. QED
    BY <1>2, <1>3, <1>4, <1>5, <2>1, <2>2 DEF OutputUnset
<1>6. CASE v # Null
  <2>1. v \in Bank(s)
    BY <1>2, <1>6 DEF Inv, Writes
  <2>2. v \in Vn /\ v < s.made
    BY <2>1, BankEntry
  <2>3. PICK a : a = [s EXCEPT !.output = f]
    OBVIOUS
  <2>4. /\ a \in State /\ a.loc = s.loc /\ a.state = s.state /\ a.def = s.def
        /\ a.descend = s.descend /\ a.key = s.key /\ a.tree = s.tree /\ a.made = s.made
        /\ a.inrefs = s.inrefs /\ a.dead = s.dead /\ a.abort = s.abort /\ a.output = f
    BY <1>1, <1>4, <2>3 DEF State
  <2>5. Bank(a) = Bank(s)
    BY <2>4, BankSame
  <2>6. \A w : KeyOf(a, w) = KeyOf(s, w)
    BY <2>4 DEF KeyOf, IsFree
  <2>7. Canon(a) /\ Young(a) /\ Writer(a) /\ Short(a)
    BY <2>4, <2>6 DEF Inv, Canon, Young, Writer, Short
  <2>8. Reads(a)
    BY <2>4, <2>5 DEF Inv, Reads, ReadsOf
  <2>9. ASSUME NEW x \in Op
        PROVE  /\ \A w \in Bank(a) \ {v} :
                      (a.state[w] = "written" /\ a.def[w] = x) <=> a.output[x] = w
               /\ a.output[x] # Null => a.output[x] \in Bank(a) \ {v}
    <3>1. /\ \A w \in Bank(s) :
                (s.state[w] = "written" /\ s.def[w] = x) <=> s.output[x] = w
          /\ s.output[x] # Null => s.output[x] \in Bank(s)
      BY DEF Inv, Writes
    <3>2. CASE x = o
      <4>1. \A w \in Bank(s) \ {v} : ~(s.state[w] = "written" /\ s.def[w] = x)
        BY <1>2, <3>1, <3>2
      <4>2. \A w \in Bank(s) : w # Null
        BY <1>1, BankType, Constants
      <4>3. QED
        BY <1>4, <2>4, <2>5, <3>2, <4>1, <4>2
    <3>3. CASE x # o
      <4>1. s.def[v] = o /\ s.state[v] = "written"
        BY <1>2, <2>1 DEF Inv, Writes
      <4>2. s.output[x] # v
        BY <2>1, <3>1, <3>3, <4>1
      <4>3. f[x] = s.output[x]
        BY <1>4, <3>3
      <4>4. QED
        BY <2>4, <2>5, <3>1, <4>2, <4>3
    <3>4. QED
      BY <3>2, <3>3
  <2>10. InvBut(a, v)
    BY <2>4, <2>7, <2>8, <2>9 DEF InvBut
  <2>11. ReadsOf(a, v) /\ v < a.made
    BY <2>1, <2>2, <2>4 DEF Inv, Reads, ReadsOf
  <2>12. t = MakeFree(a, v)
    BY <1>2, <1>3, <1>6, <2>3 DEF OpUnsetOutput
  <2>13. /\ Inv(t) /\ Refiled(a, t, v) /\ t.state[v] = "free" /\ t.def[v] = NoOp
         /\ t.output = a.output /\ Bank(t) = Bank(a) \cup {v}
    BY <2>2, <2>10, <2>11, <2>12, MakeFreeBut
  <2>14. Bank(t) = Bank(s)
    BY <2>1, <2>5, <2>13
  <2>15. \A w \in Vn : w # v => t.state[w] = s.state[w] /\ t.def[w] = s.def[w]
    BY <2>4, <2>13 DEF Refiled
  <2>16. QED
    BY <1>2, <1>3, <1>4, <2>4, <2>13, <2>14, <2>15 DEF OutputUnset, Refiled
<1>7. QED
  BY <1>5, <1>6

\* The next varnode, not in the bank yet.
LEMMA AllocateInv ==
    ASSUME NEW s, Inv(s), s.abort = "no", NEW l \in Storage, NEW t, t = Allocate(s, l)
    PROVE  /\ t.abort \in {"no", "bound"} /\ t \in State
           /\ t.abort = "no" =>
                /\ Inv(t) /\ Bank(t) = Bank(s) /\ s.made \in Vn /\ s.made \notin Bank(s)
                /\ t.made = s.made + 1 /\ s.made < t.made /\ s.made \in Nat
                /\ t.descend = s.descend /\ t.inrefs = s.inrefs /\ t.output = s.output
                /\ t.dead = s.dead /\ t.state = s.state /\ t.def = s.def /\ t.tree = s.tree
                /\ t.loc[s.made] = l /\ \A w \in Vn \ {s.made} : t.loc[w] = s.loc[w]
                /\ s.state[s.made] = "free" /\ s.descend[s.made] = <<>>
                /\ ReadsOf(t, s.made)
<1>1. s \in State /\ s.loc \in [Vn -> Storage] /\ s.made \in 0..MaxVn /\ MaxVn \in Nat
  BY StateType, Constants DEF Inv
<1>2. CASE s.made = MaxVn
  <2>1. t = [s EXCEPT !.abort = "bound"]
    BY <1>2 DEF Allocate
  <2>2. QED
    BY <1>1, <2>1 DEF State
<1>3. CASE s.made # MaxVn
  <2>1. PICK v : v = s.made
    OBVIOUS
  <2>2. v \in Vn /\ v \in Nat /\ v + 1 \in 0..MaxVn
    BY <1>1, <1>3, <2>1 DEF Vn
  <2>3. PICK f : f = [s.loc EXCEPT ![v] = l]
    OBVIOUS
  <2>4. f \in [Vn -> Storage] /\ f[v] = l /\ \A w \in Vn \ {v} : f[w] = s.loc[w]
    BY <1>1, <2>2, <2>3
  <2>5. t = [s EXCEPT !.loc = f, !.made = v + 1]
    BY <1>3, <2>1, <2>3 DEF Allocate
  <2>6. /\ t \in State /\ t.loc = f /\ t.state = s.state /\ t.def = s.def
        /\ t.descend = s.descend /\ t.key = s.key /\ t.tree = s.tree /\ t.made = v + 1
        /\ t.inrefs = s.inrefs /\ t.output = s.output /\ t.dead = s.dead
        /\ t.abort = s.abort
    BY <1>1, <2>2, <2>4, <2>5 DEF State
  <2>7. v \notin Bank(s)
    <3>1. v \in Bank(s) => v < v
      BY <2>1, BankEntry
    <3>2. QED
      BY <2>2, <3>1
  <2>8. Bank(t) = Bank(s) /\ Bank(s) \subseteq Vn
    BY <1>1, <2>6, BankSame, BankType
  <2>9. \A w \in Bank(s) : KeyOf(t, w) = KeyOf(s, w)
    <3> TAKE w \in Bank(s)
    <3>1. t.loc[w] = s.loc[w] /\ t.state[w] = s.state[w] /\ t.def[w] = s.def[w]
      BY <2>4, <2>6, <2>7, <2>8
    <3>2. QED
      BY <3>1, KeySame
  <2>10. Canon(t)
    BY <2>6, <2>9 DEF Inv, Canon, Bank
  <2>11. Young(t)
    <3>1. \A e \in t.tree : e[2] < t.made
      <4> TAKE e \in t.tree
      <4>1. e[2] < v /\ e[2] \in Nat
        BY <1>1, <2>1, <2>6, EntryType, Constants DEF Inv, Young
      <4>2. QED
        BY <2>2, <2>6, <4>1
    <3>2. \A w \in Vn : w >= t.made => w >= s.made
      BY <2>1, <2>2, <2>6, Constants
    <3>3. QED
      BY <2>6, <3>1, <3>2 DEF Inv, Young
  <2>12. Writer(t) /\ Short(t)
    BY <2>6 DEF Inv, Writer, Short
  <2>13. Reads(t)
    BY <2>6, <2>8 DEF Inv, Reads, ReadsOf
  <2>14. Writes(t)
    BY <2>6, <2>8 DEF Inv, Writes
  <2>15. Inv(t)
    BY <2>6, <2>10, <2>11, <2>12, <2>13, <2>14 DEF Inv
  <2>16. v >= s.made
    BY <2>1, <2>2
  <2>17. s.state[v] = "free" /\ s.descend[v] = <<>>
         /\ \A o \in Op : Count(s.inrefs[o], v) = 0
    BY <2>2, <2>16 DEF Inv, Young
  <2>18. ReadsOf(t, v)
    BY <2>6, <2>17, CountEmpty DEF ReadsOf
  <2>19. v < t.made /\ t.made = v + 1
    BY <2>2, <2>6
  <2>20. QED
    BY <2>1, <2>2, <2>4, <2>6, <2>7, <2>8, <2>15, <2>17, <2>18, <2>19
<1>4. QED
  BY <1>2, <1>3

\* create: a new free varnode, the next one, without readers.
LEMMA CreateInv ==
    ASSUME NEW s, Inv(s), s.abort = "no", NEW l \in Storage, NEW t, t = Create(s, l)
    PROVE  /\ t.abort \in {"no", "bound"} /\ Good(t)
           /\ t.abort = "no" =>
                /\ Inv(t) /\ Bank(t) = Bank(s) \cup {s.made} /\ s.made \notin Bank(s)
                /\ s.made \in Vn
                /\ t.descend = s.descend /\ t.inrefs = s.inrefs /\ t.output = s.output
                /\ t.dead = s.dead /\ t.state = s.state
                /\ t.loc[s.made] = l /\ \A w \in Vn \ {s.made} : t.loc[w] = s.loc[w]
                /\ s.descend[s.made] = <<>>
<1>1. PICK a : a = Allocate(s, l)
  OBVIOUS
<1>2. PICK v : v = s.made
  OBVIOUS
<1>3. /\ a.abort \in {"no", "bound"} /\ a \in State
      /\ a.abort = "no" =>
           /\ Inv(a) /\ Bank(a) = Bank(s) /\ v \in Vn /\ v \notin Bank(s) /\ v < a.made
           /\ a.descend = s.descend /\ a.inrefs = s.inrefs /\ a.output = s.output
           /\ a.dead = s.dead /\ a.state = s.state
           /\ a.loc[v] = l /\ \A w \in Vn \ {v} : a.loc[w] = s.loc[w]
           /\ s.state[v] = "free" /\ s.descend[v] = <<>> /\ ReadsOf(a, v)
  BY <1>1, <1>2, AllocateInv
<1>4. CASE a.abort = "bound"
  <2>1. t = a
    BY <1>1, <1>4 DEF Create
  <2>2. QED
    BY <1>3, <1>4, <2>1 DEF Good
<1>5. CASE a.abort = "no"
  <2>1. t = Entered(a, v)
    BY <1>1, <1>2, <1>5 DEF Create, Entered
  <2>2. Inv(a) /\ v \in Vn /\ v \notin Bank(a) /\ a.state[v] = "free"
    BY <1>3, <1>5
  <2>3. \A e \in a.tree : e[1] # KeyOf(a, v)
    BY <2>2, FreeKey
  <2>4. v < a.made /\ a.state[v] # "written" /\ ReadsOf(a, v)
    BY <1>3, <1>5, <2>2
  <2>5. /\ Inv(t) /\ Refiled(a, t, v) /\ t.state = a.state /\ t.def = a.def
        /\ t.output = a.output /\ Bank(t) = Bank(a) \cup {v}
    BY <2>1, <2>2, <2>3, <2>4, EnterInv
  <2>6. QED
    BY <1>2, <1>3, <1>5, <2>5 DEF Good, Inv, Refiled
<1>6. QED
  BY <1>3, <1>4, <1>5
-----------------------------------------------------------------------------
(***************************************************************************)
(* Replace: the readers of one varnode move to another.                    *)
(***************************************************************************)

\* One reader, once: the head of the list, or any other.
LEMMA MoveOne ==
    ASSUME NEW s, Inv(s), NEW old \in Vn, old \notin Bank(s), old < s.made, ReadsOf(s, old),
           NEW new \in Bank(s), ~IsFree(s, new), NotOut(s, new),
           NEW o \in Op, Count(s.descend[old], o) # 0,
           NEW t, t = MoveRead(s, old, new, o)
    PROVE  /\ Inv(t) /\ Rewired(s, t) /\ t.abort = s.abort /\ ReadsOf(t, old)
           /\ t.descend[old] = RemoveFirst(s.descend[old], o)
<1>1. /\ s \in State /\ s.inrefs \in [Op -> Seq(Entries)] /\ s.descend \in [Vn -> Seq(Op)]
      /\ new \in Vn /\ new < s.made /\ s.made \in Nat /\ old # new
      /\ s.inrefs[o] \in Seq(Entries) /\ new \in Entries
  <2>1. s \in State
    BY DEF Inv
  <2>2. new \in Vn /\ new < s.made /\ s.made \in Nat /\ old # new
    BY BankEntry
  <2>3. QED
    BY <2>1, <2>2, StateType, Constants
<1>2. PICK a : a = EraseDescend(s, old, o)
  OBVIOUS
<1>3. PICK d1 : d1 = [s.descend EXCEPT ![old] = RemoveFirst(@, o)]
  OBVIOUS
<1>4. Rewired(s, a) /\ a.abort = s.abort /\ a.inrefs = s.inrefs /\ a.descend = d1
  BY <1>1, <1>2, <1>3, EraseDescendFields
<1>5. PICK p : p = RemoveFirst(s.descend[old], o)
  OBVIOUS
<1>6. p \in Seq(Op) /\ \A y : Count(s.descend[old], y) = Count(p, y) + (IF o = y THEN 1 ELSE 0)
  <2>1. PICK q : q = s.descend[old]
    OBVIOUS
  <2>2. q \in Seq(Op) /\ Count(q, o) # 0 /\ p = RemoveFirst(q, o)
    BY <1>1, <1>5, <2>1
  <2>3. /\ RemoveFirst(q, o) \in Seq(Op)
        /\ Count(q, o) # 0 =>
              \A x : Count(q, x) = Count(RemoveFirst(q, o), x) + (IF o = x THEN 1 ELSE 0)
    BY <2>2, RemoveFirstFacts
  <2>4. QED
    BY <2>1, <2>2, <2>3
<1>7. PICK m : m = Append(s.descend[new], o)
  OBVIOUS
<1>8. m \in Seq(Op) /\ \A y : Count(m, y) = Count(s.descend[new], y) + (IF o = y THEN 1 ELSE 0)
  <2>1. PICK q : q = s.descend[new]
    OBVIOUS
  <2>2. q \in Seq(Op) /\ m = Append(q, o)
    BY <1>1, <1>7, <2>1
  <2>3. /\ Append(q, o) \in Seq(Op)
        /\ \A x : Count(Append(q, o), x) = Count(q, x) + (IF o = x THEN 1 ELSE 0)
    BY <2>2, CountAppend
  <2>4. QED
    BY <2>1, <2>2, <2>3
<1>9. PICK d : d = [d1 EXCEPT ![new] = Append(@, o)]
  OBVIOUS
<1>10. /\ d \in [Vn -> Seq(Op)] /\ d[old] = p /\ d[new] = m
       /\ \A x \in Vn : x # old /\ x # new => d[x] = s.descend[x]
  BY <1>1, <1>3, <1>5, <1>6, <1>7, <1>8, <1>9
<1>11. AddDescend(a, new, o) = [a EXCEPT !.descend = d]
  <2>1. ~IsFree(a, new)
    BY <1>4 DEF IsFree, Rewired
  <2>2. QED
    BY <1>4, <1>9, <2>1 DEF AddDescend
<1>12. PICK k : k = First(s.inrefs[o], old)
  OBVIOUS
<1>13. k \in 1..Len(s.inrefs[o]) /\ s.inrefs[o][k] = old
  <2>1. Count(s.inrefs[o], old) # 0
    BY DEF ReadsOf
  <2>2. PICK q : q = s.inrefs[o]
    OBVIOUS
  <2>3. q \in Seq(Entries) /\ Count(q, old) # 0 /\ k = First(q, old)
    BY <1>1, <1>12, <2>1, <2>2
  <2>4. /\ First(q, old) = 0 <=> Count(q, old) = 0
        /\ First(q, old) # 0 => First(q, old) \in 1..Len(q) /\ q[First(q, old)] = old
    BY <2>3, FirstFacts
  <2>5. QED
    BY <2>2, <2>3, <2>4
<1>14. PICK r : r = Updated(s.inrefs[o], k, new)
  OBVIOUS
<1>15. /\ r \in Seq(Entries) /\ Len(r) = Len(s.inrefs[o])
       /\ \A x : Count(r, x) + (IF old = x THEN 1 ELSE 0)
                    = Count(s.inrefs[o], x) + (IF new = x THEN 1 ELSE 0)
  <2>1. PICK q : q = s.inrefs[o]
    OBVIOUS
  <2>2. q \in Seq(Entries) /\ k \in 1..Len(q) /\ new \in Entries /\ q[k] = old
        /\ r = Updated(q, k, new)
    BY <1>1, <1>13, <1>14, <2>1
  <2>3. Updated(q, k, new) \in Seq(Entries) /\ Len(Updated(q, k, new)) = Len(q)
    BY <2>2, UpdateFacts
  <2>4. ASSUME NEW x
        PROVE  Count(Updated(q, k, new), x) + (IF q[k] = x THEN 1 ELSE 0)
                   = Count(q, x) + (IF new = x THEN 1 ELSE 0)
    BY <2>2, CountUpdate
  <2>5. QED
    BY <2>1, <2>2, <2>3, <2>4
<1>16. PICK f : f = [s.inrefs EXCEPT ![o] = r]
  OBVIOUS
<1>17. f \in [Op -> Seq(Entries)] /\ f[o] = r /\ \A x \in Op \ {o} : f[x] = s.inrefs[x]
  BY <1>1, <1>15, <1>16
<1>18. t = [[a EXCEPT !.descend = d] EXCEPT !.inrefs[o][k] = new]
  <2>1. Slot(s, o, old) = k
    BY <1>12 DEF Slot, First
  <2>2. s.output[o] # new
    BY DEF NotOut
  <2>3. QED
    BY <1>2, <1>11, <2>1, <2>2 DEF MoveRead
<1>19. PICK b : b = [a EXCEPT !.descend = d]
  OBVIOUS
<1>20. Rewired(s, t) /\ t.abort = s.abort /\ t.descend = d /\ t.inrefs = f
  <2>1. Rewired(s, b) /\ b.abort = s.abort /\ b.descend = d /\ b.inrefs = s.inrefs
    BY <1>4, <1>10, <1>19 DEF State, Rewired
  <2>2. f = [b.inrefs EXCEPT ![o][k] = new]
    BY <1>14, <1>16, <2>1 DEF Updated
  <2>3. t = [b EXCEPT !.inrefs = f]
    BY <1>18, <1>19, <2>2
  <2>4. b \in State
    BY <2>1 DEF Rewired
  <2>5. Rewired(b, t) /\ t.abort = b.abort /\ t.descend = b.descend /\ t.inrefs = f
    BY <1>17, <2>3, <2>4 DEF State, Rewired
  <2>6. QED
    BY <2>1, <2>5 DEF Rewired
<1>21. ASSUME NEW x \in Vn, ReadsOf(s, x), NEW y \in Op
       PROVE  Count(d[x], y) = Count(f[y], x)
  <2>1. /\ Count(s.descend[x], y) = Count(s.inrefs[y], x) /\ Count(s.descend[x], y) \in Nat
        /\ Count(s.descend[x], o) = Count(s.inrefs[o], x)
    BY <1>21, ListType DEF ReadsOf
  <2>2. Count(f[y], x) + (IF y = o /\ old = x THEN 1 ELSE 0)
            = Count(s.inrefs[y], x) + (IF y = o /\ new = x THEN 1 ELSE 0)
    <3>1. CASE y = o
      BY <1>15, <1>17, <3>1
    <3>2. CASE y # o
      BY <1>17, <2>1, <3>2
    <3>3. QED
      BY <3>1, <3>2
  <2>3. Count(f[y], x) \in Nat
    BY <1>17, CountType
  <2>4. Count(d[x], y) + (IF y = o /\ old = x THEN 1 ELSE 0)
            = Count(s.descend[x], y) + (IF y = o /\ new = x THEN 1 ELSE 0)
    <3>1. CASE x = old
      <4>1. Count(s.descend[old], y) = Count(p, y) + (IF o = y THEN 1 ELSE 0)
        BY <1>6
      <4>2. d[x] = p /\ x # new
        BY <1>1, <1>10, <3>1
      <4>3. Count(p, y) \in Nat
        BY <1>6, CountType
      <4>4. QED
        BY <2>1, <3>1, <4>1, <4>2, <4>3
    <3>2. CASE x = new
      <4>1. Count(m, y) = Count(s.descend[new], y) + (IF o = y THEN 1 ELSE 0)
        BY <1>8
      <4>2. d[x] = m /\ x # old
        BY <1>1, <1>10, <3>2
      <4>3. Count(m, y) \in Nat
        BY <1>8, CountType
      <4>4. QED
        BY <2>1, <3>2, <4>1, <4>2, <4>3
    <3>3. CASE x # old /\ x # new
      BY <1>10, <2>1, <3>3
    <3>4. QED
      BY <3>1, <3>2, <3>3
  <2>5. Count(d[x], y) \in Nat
    BY <1>10, CountType
  <2>6. QED
    BY <2>1, <2>2, <2>3, <2>4, <2>5
<1>22. \A x \in Vn : ReadsOf(s, x) => ReadsOf(t, x)
  BY <1>20, <1>21 DEF ReadsOf
<1>23. Reads(t)
  <2>1. Bank(t) = Bank(s) /\ Bank(s) \subseteq Vn
    BY <1>1, <1>20, BankSame, BankType DEF Rewired
  <2>2. QED
    BY <1>22, <2>1 DEF Inv, Reads
<1>24. Short(t)
  BY <1>15, <1>17, <1>20 DEF Inv, Short
<1>25. ASSUME NEW x \in Vn, x >= s.made
       PROVE  t.descend[x] = <<>> /\ \A y \in Op : Count(t.inrefs[y], x) = 0
  <2>1. x # old /\ x # new /\ x \in Nat /\ old \in Nat /\ new \in Nat
    BY <1>1, <1>25, Constants
  <2>2. s.descend[x] = <<>> /\ \A y \in Op : Count(s.inrefs[y], x) = 0
    BY <1>25 DEF Inv, Young
  <2>3. t.descend[x] = <<>>
    BY <1>10, <1>20, <2>1, <2>2
  <2>4. ReadsOf(t, x)
    BY <1>22, <2>2, CountEmpty DEF ReadsOf
  <2>5. QED
    BY <2>3, <2>4, CountEmpty DEF ReadsOf
<1>26. Inv(t)
  <2>1. PICK u : u = t
    OBVIOUS
  <2>2. /\ Rewired(s, u) /\ Reads(u) /\ Short(u)
        /\ \A x \in Vn : x >= s.made =>
              u.descend[x] = <<>> /\ \A y \in Op : Count(u.inrefs[y], x) = 0
    BY <1>20, <1>23, <1>24, <1>25, <2>1
  <2>3. Inv(u)
    BY <2>2, Rewire
  <2>4. QED
    BY <2>1, <2>3
<1>27. QED
  BY <1>5, <1>10, <1>20, <1>22, <1>26
\* t is s after the first k readers of old have moved.
Moved(s, t, old, k) ==
    /\ Inv(t) /\ Rewired(s, t) /\ t.abort = s.abort /\ ReadsOf(t, old)
    /\ t.descend[old] = SubSeq(s.descend[old], k + 1, Len(s.descend[old]))

\* A varnode that left the bank, and one there that can take over its readers.
Replaceable(s, old, new) ==
    /\ Inv(s) /\ old \in Vn /\ old \notin Bank(s) /\ old < s.made /\ ReadsOf(s, old)
    /\ new \in Bank(s) /\ ~IsFree(s, new) /\ NotOut(s, new)

\* One round of replace.
LEMMA MoveNext ==
    ASSUME NEW s, NEW old, NEW new, Replaceable(s, old, new),
           NEW q, q = s.descend[old], NEW k \in 1..Len(q), NEW t, Moved(s, t, old, k - 1)
    PROVE  Moved(s, MoveRead(t, old, new, q[k]), old, k)
<1>1. /\ Inv(s) /\ old \in Vn /\ old \notin Bank(s) /\ old < s.made
      /\ new \in Bank(s) /\ ~IsFree(s, new) /\ NotOut(s, new)
  BY DEF Replaceable
<1>2. Inv(t) /\ Rewired(s, t) /\ t.abort = s.abort /\ ReadsOf(t, old)
  BY DEF Moved
<1>3. q \in Seq(Op) /\ k \in 1..Len(q)
  BY <1>1, ListType
<1>4. t.descend[old] = SubSeq(q, k, Len(q))
  <2>1. (k - 1) + 1 = k
    BY <1>3
  <2>2. QED
    BY <2>1 DEF Moved
<1>5. /\ RemoveFirst(t.descend[old], q[k]) = SubSeq(q, k + 1, Len(q))
      /\ Count(t.descend[old], q[k]) # 0
  <2>1. /\ RemoveFirst(SubSeq(q, k, Len(q)), q[k]) = SubSeq(q, k + 1, Len(q))
        /\ Count(SubSeq(q, k, Len(q)), q[k]) # 0
    BY <1>3, RestHead
  <2>2. QED
    BY <1>4, <2>1
<1>6. /\ old \notin Bank(t) /\ old < t.made /\ new \in Bank(t)
      /\ ~IsFree(t, new) /\ NotOut(t, new)
  BY <1>1, <1>2, BankSame DEF Rewired, IsFree, NotOut
<1>7. PICK o : o = q[k]
  OBVIOUS
<1>8. o \in Op /\ Count(t.descend[old], o) # 0
  BY <1>3, <1>5, <1>7
<1>9. PICK u : u = MoveRead(t, old, new, o)
  OBVIOUS
<1>10. /\ Inv(u) /\ Rewired(t, u) /\ u.abort = t.abort /\ ReadsOf(u, old)
       /\ u.descend[old] = RemoveFirst(t.descend[old], o)
  BY <1>1, <1>2, <1>6, <1>8, <1>9, MoveOne
<1>11. Rewired(s, u)
  BY <1>2, <1>10 DEF Rewired
<1>12. QED
  BY <1>2, <1>5, <1>7, <1>9, <1>10, <1>11 DEF Moved

\* Nothing is lost: the readers of old are readers of new.
LEMMA ReplaceInv ==
    ASSUME NEW s, NEW old, NEW new, Replaceable(s, old, new)
    PROVE  /\ Inv(Replace(s, old, new)) /\ Rewired(s, Replace(s, old, new))
           /\ Replace(s, old, new).abort = s.abort
<1> DEFINE q == s.descend[old]
<1> DEFINE n == Len(q)
           Eq(r) == r = [i \in 0..n |-> IF i = 0 THEN s ELSE MoveRead(r[i - 1], old, new, q[i])]
           run == CHOOSE r : Eq(r)
           J == [i \in 0..n |-> {t \in State : Moved(s, t, old, i)}]
           step == [p \in State \X (1..n) |-> MoveRead(p[1], old, new, q[p[2]])]
<1>1. Replace(s, old, new) = DestroyDescend(run[n], old)
  BY DEF Replace, Repeat
<1>2. n \in Nat
  <2>1. q \in Seq(Op)
    BY ListType DEF Replaceable
  <2>2. QED
    BY <2>1
<1>3. s \in J[0]
  <2>1. q \in Seq(Op) /\ SubSeq(q, 0 + 1, Len(q)) = q
    BY ListType, SubSeqFull DEF Replaceable
  <2>2. s \in State /\ 0 \in 0..n
    BY <1>2 DEF Replaceable, Inv
  <2>3. QED
    BY <2>1, <2>2 DEF Moved, Replaceable, Rewired
<1>4. ASSUME NEW i \in 1..n, NEW t \in J[i - 1]
      PROVE  /\ MoveRead(t, old, new, q[i]) \in J[i]
             /\ step[<<t, i>>] = MoveRead(t, old, new, q[i])
  <2>1. i - 1 \in 0..n /\ i \in 0..n
    BY <1>2
  <2>2. t \in {u \in State : Moved(s, u, old, i - 1)}
    BY <2>1
  <2>3. Moved(s, t, old, i - 1)
    BY <2>2
  <2>4. Moved(s, MoveRead(t, old, new, q[i]), old, i)
    BY <2>3, MoveNext
  <2>9. MoveRead(t, old, new, q[i]) \in {u \in State : Moved(s, u, old, i)}
    BY <2>4 DEF Moved, Inv
  <2>10. t \in State
    BY <2>2
  <2>11. QED
    BY <2>1, <2>9, <2>10
<1> HIDE DEF J, step, n
<1>5. PICK r : IsLoop(r, n, s, step) /\ \A i \in 0..n : r[i] \in J[i]
  BY <1>2, <1>3, <1>4, LoopRuns
<1>6. \A i \in 0..n : i # 0 => i \in 1..n /\ i - 1 \in 0..n
  BY <1>2
<1>7. r = [i \in 0..n |-> IF i = 0 THEN s ELSE MoveRead(r[i - 1], old, new, q[i])]
  <2>1. r = [i \in 0..n |-> IF i = 0 THEN s ELSE step[<<r[i - 1], i>>]]
    BY <1>5, Zenon DEF IsLoop
  <2>2. \A i \in 0..n : i # 0 => step[<<r[i - 1], i>>] = MoveRead(r[i - 1], old, new, q[i])
    BY <1>4, <1>5, <1>6, Zenon
  <2>3. [i \in 0..n |-> IF i = 0 THEN s ELSE step[<<r[i - 1], i>>]]
            = [i \in 0..n |-> IF i = 0 THEN s ELSE MoveRead(r[i - 1], old, new, q[i])]
    BY <2>2, Zenon
  <2>4. QED
    BY <2>1, <2>3, Zenon
<1>8. run = [i \in 0..n |-> IF i = 0 THEN s ELSE MoveRead(run[i - 1], old, new, q[i])]
  <2>1. \E g : Eq(g)
    BY <1>7, Zenon
  <2>2. Eq(run)
    <3> HIDE DEF Eq
    <3> QED BY <2>1, Zenon
  <2>3. QED
    BY <2>2, Zenon
<1> HIDE DEF run, Eq
<1>9. \A i \in 0..n : run[i] = IF i = 0 THEN s ELSE MoveRead(run[i - 1], old, new, q[i])
  BY <1>8, Zenon
<1>10. 0 \in 0..n /\ n \in 0..n /\ \A i \in 1..n : i \in 0..n /\ i # 0
  BY <1>2
<1>11. run[0] \in J[0] /\ Rounds(J, run, n)
  BY <1>3, <1>4, <1>9, <1>10, Zenon DEF Rounds
<1>12. run[n] \in J[n]
  BY <1>2, <1>10, <1>11, RoundsHold, Zenon
<1>13. PICK t : t = run[n]
  OBVIOUS
<1>14. t \in State /\ Moved(s, t, old, n)
  BY <1>10, <1>12, <1>13 DEF J
<1>15. t.descend[old] = <<>> /\ old \in Vn
  <2>1. q \in Seq(Op) /\ SubSeq(q, Len(q) + 1, Len(q)) = <<>>
    BY ListType, SubSeqEmpty DEF Replaceable
  <2>2. QED
    BY <1>14, <2>1 DEF Moved, n, Replaceable
<1>16. DestroyDescend(t, old) = t
  <2>1. t.descend \in [Vn -> Seq(Op)]
    BY <1>14, StateType
  <2>2. [t.descend EXCEPT ![old] = <<>>] = t.descend
    BY <1>15, <2>1
  <2>3. QED
    BY <1>14, <2>2 DEF DestroyDescend, State
<1>17. QED
  BY <1>1, <1>13, <1>14, <1>16 DEF Moved
-----------------------------------------------------------------------------
(***************************************************************************)
(* Varnodes change what they are.                                          *)
(***************************************************************************)

\* The entry a key is found at.
LEMMA CanonicalFacts ==
    ASSUME NEW s, Inv(s), NEW v \in Vn, v \notin Bank(s)
    PROVE  \/ /\ \A e \in s.tree : e[1] # KeyOf(s, v)
              /\ Canonical(s, v) = v /\ Xref(s, v) = Entered(s, v)
           \/ /\ Canonical(s, v) \in Bank(s)
              /\ Xref(s, v) = Replace(s, v, Canonical(s, v))
              /\ s.state[Canonical(s, v)] = s.state[v]
              /\ s.state[v] = "written" => s.def[Canonical(s, v)] = s.def[v]
<1>1. CASE \A e \in s.tree : e[1] # KeyOf(s, v)
  <2>1. Canonical(s, v) = v
    BY <1>1 DEF Canonical
  <2>2. Xref(s, v) = Entered(s, v)
    BY <2>1 DEF Xref, Entered
  <2>3. QED
    BY <1>1, <2>1, <2>2
<1>2. CASE \E e \in s.tree : e[1] = KeyOf(s, v)
  <2>1. PICK d : d = CHOOSE e \in s.tree : e[1] = KeyOf(s, v)
    OBVIOUS
  <2>2. d \in s.tree /\ d[1] = KeyOf(s, v)
    BY <1>2, <2>1
  <2>3. PICK c : c = d[2]
    OBVIOUS
  <2>4. Canonical(s, v) = c
    BY <1>2, <2>1, <2>3 DEF Canonical
  <2>5. c \in Bank(s)
    BY <2>2, <2>3 DEF Bank
  <2>6. c # v /\ s \in State
    BY <2>5 DEF Inv
  <2>7. c \in Vn /\ KeyOf(s, c) = KeyOf(s, v)
    BY <2>2, <2>3, <2>6, EntryType DEF Inv, Canon
  <2>8. s.state[c] = s.state[v]
    BY <2>6, <2>7, KeyFacts
  <2>9. s.state[v] = "written" => s.def[c] = s.def[v]
    BY <2>6, <2>7, <2>8, KeyFacts
  <2>10. Xref(s, v) = Replace(s, v, c)
    BY <2>4, <2>6 DEF Xref
  <2>11. QED
    BY <2>4, <2>5, <2>8, <2>9, <2>10
<1>3. QED
  BY <1>1, <1>2

\* v leaves the bank and becomes something that is not in it.
LEMMA Unfiled ==
    ASSUME NEW s, Inv(s), NEW v \in Bank(s), NotOut(s, v),
           NEW st, st \in {"free", "input", "written"}, NEW df, df \in Op \cup {NoOp},
           st = "written" => df \in Op, NEW d, d = Becomes(Erase(s, v), v, df, st)
    PROVE  /\ Inv(d) /\ Refiled(s, d, v) /\ d.state[v] = st /\ d.def[v] = df
           /\ d.output = s.output /\ Bank(d) = Bank(s) \ {v}
           /\ v \in Vn /\ v \notin Bank(d) /\ v < d.made /\ ReadsOf(d, v)
<1>1. v \in Vn /\ v < s.made
  BY BankEntry
<1>2. PICK a : a = Erase(s, v)
  OBVIOUS
<1>3. /\ Inv(a) /\ Refiled(s, a, v) /\ a.output = s.output /\ Bank(a) = Bank(s) \ {v}
  <2>1. InvBut(s, v)
    BY NotOutBut
  <2>2. QED
    BY <1>1, <1>2, <2>1, EraseInv
<1>4. v \notin Bank(a) /\ v < a.made
  BY <1>1, <1>3 DEF Refiled
<1>5. d = Becomes(a, v, df, st)
  BY <1>2
<1>6. /\ Inv(d) /\ Refiled(a, d, v) /\ d.state[v] = st /\ d.def[v] = df
      /\ d.output = a.output /\ Bank(d) = Bank(a)
  <2>1. Inv(a)
    BY <1>3
  <2>2. QED
    BY <1>1, <1>4, <1>5, <2>1, Become
<1>7. Refiled(s, d, v)
  BY <1>3, <1>6 DEF Refiled
<1>8. ReadsOf(s, v)
  BY DEF Inv, Reads
<1>9. ReadsOf(d, v) /\ v < d.made
  BY <1>1, <1>7, <1>8 DEF Refiled, ReadsOf
<1>10. QED
  BY <1>1, <1>3, <1>4, <1>6, <1>7, <1>9

\* A free varnode becomes an input, or its readers move to the input that is
\* there.
LEMMA SetInputInv ==
    ASSUME NEW s, Inv(s), s.abort = "no", NEW v \in Bank(s), IsFree(s, v),
           NEW t, t = BankSetInput(s, v)
    PROVE  Inv(t) /\ t.abort = "no"
<1>1. s \in State /\ v \in Vn
  BY BankEntry DEF Inv
<1>2. NotOut(s, v)
  BY DEF Inv, Writes, NotOut, IsFree
<1>3. PICK st, df : st = "input" /\ df = Erase(s, v).def[v]
  OBVIOUS
<1>4. Erase(s, v).def = s.def /\ Erase(s, v) \in State
  BY <1>1, EraseFields DEF Inv, Refiled
<1>5. /\ st \in {"free", "input", "written"} /\ df \in Op \cup {NoOp}
      /\ st = "written" => df \in Op
  BY <1>1, <1>3, <1>4, StateType
<1>6. PICK d : d = Becomes(Erase(s, v), v, df, st)
  OBVIOUS
<1>7. /\ Inv(d) /\ Refiled(s, d, v) /\ d.state[v] = st
      /\ v \notin Bank(d) /\ v < d.made /\ ReadsOf(d, v)
  <2>1. /\ Inv(d) /\ Refiled(s, d, v) /\ d.state[v] = st /\ d.def[v] = df
        /\ d.output = s.output /\ Bank(d) = Bank(s) \ {v}
        /\ v \in Vn /\ v \notin Bank(d) /\ v < d.made /\ ReadsOf(d, v)
    BY <1>2, <1>5, <1>6, Unfiled
  <2>2. QED
    BY <2>1
<1>8. t = Xref(d, v)
  <2>1. PICK a : a = Erase(s, v)
    OBVIOUS
  <2>2. a.def \in [Vn -> Op \cup {NoOp}]
    BY <1>4, <2>1, StateType
  <2>3. [a.def EXCEPT ![v] = a.def[v]] = a.def
    BY <2>2
  <2>4. [a EXCEPT !.def[v] = df, !.state[v] = "input"] = [a EXCEPT !.state[v] = "input"]
    BY <1>3, <1>4, <2>1, <2>3 DEF State
  <2>5. QED
    BY <1>3, <1>6, <2>1, <2>4 DEF BankSetInput, Becomes
<1>9. CASE /\ \A e \in d.tree : e[1] # KeyOf(d, v)
           /\ Xref(d, v) = Entered(d, v)
  <2>1. d.state[v] # "written" /\ t = Entered(d, v)
    BY <1>3, <1>7, <1>8, <1>9
  <2>2. Inv(t) /\ Refiled(d, t, v)
    BY <1>1, <1>7, <1>9, <2>1, EnterInv
  <2>3. QED
    BY <1>7, <2>2 DEF Refiled
<1>10. CASE /\ Canonical(d, v) \in Bank(d)
            /\ Xref(d, v) = Replace(d, v, Canonical(d, v))
            /\ d.state[Canonical(d, v)] = d.state[v]
  <2>1. PICK c : c = Canonical(d, v)
    OBVIOUS
  <2>2. d.state[c] = "input" /\ c \in Bank(d)
    BY <1>3, <1>7, <1>10, <2>1
  <2>3. NotOut(d, c)
    BY <1>7, <2>2 DEF Inv, Writes, NotOut
  <2>4. Replaceable(d, v, c)
    BY <1>1, <1>7, <2>2, <2>3 DEF Replaceable, IsFree
  <2>5. Inv(Replace(d, v, c)) /\ Replace(d, v, c).abort = d.abort
    BY <2>4, ReplaceInv
  <2>6. QED
    BY <1>7, <1>8, <1>10, <2>1, <2>5 DEF Refiled
<1>11. QED
  BY <1>1, <1>7, <1>9, <1>10, CanonicalFacts

\* A varnode outside the bank becomes the output of an op that has none: no
\* varnode has its key.
LEMMA OutputInv ==
    ASSUME NEW d, Inv(d), NEW v \in Vn, v \notin Bank(d), v < d.made, ReadsOf(d, v),
           NEW o \in Op, d.state[v] = "written", d.def[v] = o, d.output[o] = Null,
           NEW t, t = WithOutput(Xref(d, v), o, Canonical(d, v))
    PROVE  Inv(t) /\ t.abort = d.abort /\ Bank(t) = Bank(d) \cup {v}
<1>1. ASSUME Canonical(d, v) \in Bank(d), d.state[Canonical(d, v)] = d.state[v],
             d.state[v] = "written" => d.def[Canonical(d, v)] = d.def[v]
      PROVE  FALSE
  <2>1. d.output[o] = Canonical(d, v)
    BY <1>1 DEF Inv, Writes
  <2>2. Canonical(d, v) # Null
    BY <1>1, BankEntry, Constants
  <2>3. QED
    BY <2>1, <2>2
<1>2. /\ \A e \in d.tree : e[1] # KeyOf(d, v)
      /\ Canonical(d, v) = v /\ Xref(d, v) = Entered(d, v)
  BY <1>1, CanonicalFacts
<1>3. PICK u : u = WithOutput(Entered(d, v), o, v)
  OBVIOUS
<1>4. \A e \in d.tree : e[1] # KeyOf(d, v)
  BY <1>2
<1>5. /\ Inv(u) /\ u.abort = d.abort /\ u.made = d.made
      /\ u.descend = d.descend /\ u.inrefs = d.inrefs
      /\ Bank(u) = Bank(d) \cup {v}
  BY <1>3, <1>4, EnterOutput
<1>6. t = u
  BY <1>2, <1>3
<1>7. QED
  BY <1>5, <1>6

\* op_set_output: v becomes the output of o, and of no other.
LEMMA SetOutputInv ==
    ASSUME NEW s, Inv(s), s.abort = "no", NEW o \in Op, NEW v \in Bank(s),
           s.state[v] # "input", NEW r, r = OpSetOutput(s, o, v)
    PROVE  Inv(r) /\ r.abort = "no" /\ Bank(r) = Bank(s)
<1>1. CASE s.output[o] = v
  BY <1>1 DEF OpSetOutput
<1>2. CASE s.output[o] # v
  <2>1. PICK t : t = OpUnsetOutput(s, o)
    OBVIOUS
  <2>2. OutputUnset(s, t, o)
    BY <2>1, UnsetOutput
  <2>3. /\ Inv(t) /\ Bank(t) = Bank(s) /\ t.abort = "no" /\ t.output[o] = Null
        /\ t.state[v] # "input" /\ v \in Bank(t) /\ v \in Vn
    <3>1. v \in Vn
      BY BankEntry
    <3>2. /\ Inv(t) /\ Bank(t) = Bank(s) /\ t.abort = "no" /\ t.output[o] = Null
      BY <2>2 DEF OutputUnset
    <3>3. t.state[v] = s.state[v] \/ t.state[v] = "free"
      <4>1. v # s.output[o]
        BY <1>2
      <4>2. QED
        BY <2>2, <3>1, <4>1 DEF OutputUnset
    <3>4. QED
      BY <3>1, <3>2, <3>3
  <2>4. PICK u : u = IF t.def[v] # NoOp THEN OpUnsetOutput(t, t.def[v]) ELSE t
    OBVIOUS
  <2>5. t \in State /\ t.def[v] \in Op \cup {NoOp}
        /\ t.state[v] \in {"free", "input", "written"} /\ Null \notin Vn
    BY <2>3, StateType, Constants DEF Inv
  <2>6. /\ Inv(u) /\ Bank(u) = Bank(s) /\ u.abort = "no" /\ u.output[o] = Null
        /\ u.state[v] = "free"
    <3>1. CASE t.def[v] # NoOp
      <4>1. PICK x : x = t.def[v]
        OBVIOUS
      <4>2. x \in Op /\ u = OpUnsetOutput(t, x)
        BY <2>4, <2>5, <3>1, <4>1
      <4>3. OutputUnset(t, u, x)
        BY <2>3, <4>2, UnsetOutput
      <4>4. /\ Inv(u) /\ Bank(u) = Bank(t) /\ u.abort = "no" /\ u.output[o] = Null
        BY <2>3, <4>2, <4>3 DEF OutputUnset
      <4>5. ASSUME t.state[v] = "written" PROVE u.state[v] = "free"
        <5>1. t.output[x] = v
          BY <2>3, <4>1, <4>2, <4>5 DEF Inv, Writes
        <5>2. t.output[x] # Null /\ u.state[t.output[x]] = "free"
          BY <2>3, <2>5, <4>3, <5>1 DEF OutputUnset
        <5>3. QED
          BY <5>1, <5>2, Zenon
      <4>6. ASSUME t.state[v] = "free" PROVE u.state[v] = "free"
        <5>1. v = t.output[x] \/ u.state[v] = t.state[v]
          BY <2>3, <4>3 DEF OutputUnset
        <5>2. t.output[x] # Null => u.state[t.output[x]] = "free"
          BY <4>3 DEF OutputUnset
        <5>3. QED
          BY <2>3, <2>5, <4>6, <5>1, <5>2
      <4>7. Bank(u) = Bank(s)
        BY <2>3, <4>4
      <4>8. QED
        BY <2>3, <2>5, <4>4, <4>5, <4>6, <4>7
    <3>2. CASE t.def[v] = NoOp
      <4>1. t.state[v] # "written"
        BY <2>3, <3>2, Constants DEF Inv, Writer
      <4>2. QED
        BY <2>3, <2>4, <2>5, <3>2, <4>1
    <3>3. QED
      BY <3>1, <3>2
  <2>7. v \in Bank(u) /\ NotOut(u, v)
    BY <2>3, <2>6 DEF Inv, Writes, NotOut
  <2>8. PICK st : st = "written"
    OBVIOUS
  <2>9. PICK d : d = Becomes(Erase(u, v), v, o, st)
    OBVIOUS
  <2>10. /\ st \in {"free", "input", "written"} /\ o \in Op \cup {NoOp}
         /\ st = "written" => o \in Op
    BY <2>8
  <2>11. /\ Inv(d) /\ Refiled(u, d, v) /\ d.state[v] = st /\ d.def[v] = o
         /\ d.output = u.output /\ Bank(d) = Bank(u) \ {v}
         /\ v \in Vn /\ v \notin Bank(d) /\ v < d.made /\ ReadsOf(d, v)
    BY <2>6, <2>7, <2>9, <2>10, Unfiled
  <2>12. d = Defined(u, v, o)
    BY <2>8, <2>9 DEF Defined, Becomes
  <2>13. r = WithOutput(Xref(d, v), o, Canonical(d, v))
    BY <1>2, <2>1, <2>4, <2>12 DEF OpSetOutput, WithOutput
  <2>14. d.state[v] = "written" /\ d.output[o] = Null /\ d.abort = "no"
    BY <2>6, <2>8, <2>11 DEF Refiled
  <2>15. Inv(r) /\ r.abort = d.abort /\ Bank(r) = Bank(d) \cup {v}
    <3>1. /\ Inv(d) /\ v \in Vn /\ v \notin Bank(d) /\ v < d.made /\ ReadsOf(d, v)
          /\ d.state[v] = "written" /\ d.def[v] = o /\ d.output[o] = Null
      BY <2>11, <2>14
    <3>2. QED
      BY <2>13, <3>1, OutputInv
  <2>16. QED
    BY <2>6, <2>7, <2>11, <2>14, <2>15
<1>3. QED
  BY <1>1, <1>2

\* A varnode is created as the output of an op.
LEMMA NewOutInv ==
    ASSUME NEW s, Inv(s), s.abort = "no", NEW o \in Op, s.output[o] = Null,
           NEW l \in Storage, NEW r, r = NewVarnodeOut(s, o, l)
    PROVE  r.abort \in {"no", "bound"} /\ Good(r)
<1>1. PICK t : t = Allocate(s, l)
  OBVIOUS
<1>2. PICK v : v = s.made
  OBVIOUS
<1>3. /\ t.abort \in {"no", "bound"} /\ t \in State
      /\ t.abort = "no" =>
           /\ Inv(t) /\ Bank(t) = Bank(s) /\ v \in Vn /\ v \notin Bank(s) /\ v < t.made
           /\ t.output = s.output /\ ReadsOf(t, v)
  BY <1>1, <1>2, AllocateInv
<1>4. CASE t.abort = "bound"
  <2>1. r = t
    BY <1>1, <1>4 DEF NewVarnodeOut
  <2>2. QED
    BY <1>3, <1>4, <2>1 DEF Good
<1>5. CASE t.abort = "no"
  <2>1. PICK st : st = "written"
    OBVIOUS
  <2>2. PICK d : d = Becomes(t, v, o, st)
    OBVIOUS
  <2>3. /\ Inv(t) /\ v \in Vn /\ v \notin Bank(t) /\ v < t.made
        /\ st \in {"free", "input", "written"} /\ o \in Op \cup {NoOp}
        /\ st = "written" => o \in Op
    BY <1>3, <1>5, <2>1
  <2>4. /\ Inv(d) /\ Refiled(t, d, v) /\ d.state[v] = st /\ d.def[v] = o
        /\ d.output = t.output /\ Bank(d) = Bank(t)
    BY <2>2, <2>3, Become
  <2>5. r = WithOutput(Xref(d, v), o, Canonical(d, v))
    BY <1>1, <1>2, <1>5, <2>1, <2>2 DEF NewVarnodeOut, Becomes, WithOutput
  <2>6. /\ v \notin Bank(d) /\ v < d.made /\ ReadsOf(d, v)
        /\ d.state[v] = "written" /\ d.output[o] = Null /\ d.abort = "no"
    BY <1>3, <1>5, <2>1, <2>3, <2>4 DEF Refiled, ReadsOf
  <2>7. Inv(r) /\ r.abort = d.abort
    <3>1. /\ Inv(d) /\ v \in Vn /\ v \notin Bank(d) /\ v < d.made /\ ReadsOf(d, v)
          /\ d.state[v] = "written" /\ d.def[v] = o /\ d.output[o] = Null
      BY <2>3, <2>4, <2>6
    <3>2. Inv(r) /\ r.abort = d.abort /\ Bank(r) = Bank(d) \cup {v}
      BY <2>5, <3>1, OutputInv
    <3>3. QED
      BY <3>2
  <2>8. QED
    BY <2>6, <2>7 DEF Good, Inv
<1>6. QED
  BY <1>3, <1>4, <1>5
-----------------------------------------------------------------------------
(***************************************************************************)
(* A slot gets a varnode.                                                  *)
(***************************************************************************)

\* What the slots of o hold does not matter to a new reader ...
LEMMA AddDescendReads ==
    ASSUME NEW s \in State, NEW w \in Vn, NEW o \in Op, NEW p, NEW r
    PROVE  WithReads(AddDescend(WithReads(s, o, p), w, o), o, r)
                = WithReads(AddDescend(s, w, o), o, r)
<1>1. s.inrefs \in [Op -> Seq(Entries)]
  BY StateType
<1>2. PICK f : f = [s.inrefs EXCEPT ![o] = p]
  OBVIOUS
<1>3. PICK g : g = [s.inrefs EXCEPT ![o] = r]
  OBVIOUS
<1>4. [f EXCEPT ![o] = r] = g
  BY <1>1, <1>2, <1>3
<1>5. PICK a : a = WithReads(s, o, p)
  OBVIOUS
<1>6. a = [s EXCEPT !.inrefs = f]
  BY <1>2, <1>5 DEF WithReads
<1>7. /\ a.loc = s.loc /\ a.state = s.state /\ a.descend = s.descend
      /\ a.abort = s.abort /\ a.inrefs = f
  BY <1>6 DEF State
<1>8. IsFree(a, w) <=> IsFree(s, w)
  BY <1>7 DEF IsFree
<1>9. IsConstant(a, w) <=> IsConstant(s, w)
  BY <1>7 DEF IsConstant
<1>10. CASE IsFree(s, w) /\ s.descend[w] # <<>>
  <2>1. PICK m : m = IF s.abort # "no" THEN s.abort
                     ELSE IF IsConstant(s, w) THEN "constant" ELSE "free"
    OBVIOUS
  <2>2. AddDescend(a, w, o) = [a EXCEPT !.abort = m]
    BY <1>7, <1>8, <1>9, <1>10, <2>1 DEF AddDescend
  <2>3. AddDescend(s, w, o) = [s EXCEPT !.abort = m]
    BY <1>10, <2>1 DEF AddDescend
  <2>4. [[a EXCEPT !.abort = m] EXCEPT !.inrefs[o] = r]
            = [[s EXCEPT !.abort = m] EXCEPT !.inrefs[o] = r]
    <3>1. [[a EXCEPT !.abort = m] EXCEPT !.inrefs[o] = r]
              = [s EXCEPT !.abort = m, !.inrefs = g]
      BY <1>4, <1>6, <1>7 DEF State
    <3>2. [[s EXCEPT !.abort = m] EXCEPT !.inrefs[o] = r]
              = [s EXCEPT !.abort = m, !.inrefs = g]
      BY <1>3 DEF State
    <3>3. QED
      BY <3>1, <3>2
  <2>5. QED
    BY <1>5, <2>2, <2>3, <2>4 DEF WithReads
<1>11. CASE ~(IsFree(s, w) /\ s.descend[w] # <<>>)
  <2>1. PICK d : d = [s.descend EXCEPT ![w] = Append(@, o)]
    OBVIOUS
  <2>2. AddDescend(a, w, o) = [a EXCEPT !.descend = d]
    BY <1>7, <1>8, <1>11, <2>1 DEF AddDescend
  <2>3. AddDescend(s, w, o) = [s EXCEPT !.descend = d]
    BY <1>11, <2>1 DEF AddDescend
  <2>4. [[a EXCEPT !.descend = d] EXCEPT !.inrefs[o] = r]
            = [[s EXCEPT !.descend = d] EXCEPT !.inrefs[o] = r]
    <3>1. [[a EXCEPT !.descend = d] EXCEPT !.inrefs[o] = r]
              = [s EXCEPT !.descend = d, !.inrefs = g]
      BY <1>4, <1>6, <1>7 DEF State
    <3>2. [[s EXCEPT !.descend = d] EXCEPT !.inrefs[o] = r]
              = [s EXCEPT !.descend = d, !.inrefs = g]
      BY <1>3 DEF State
    <3>3. QED
      BY <3>1, <3>2
  <2>5. QED
    BY <1>5, <2>2, <2>3, <2>4 DEF WithReads
<1>12. QED
  BY <1>10, <1>11

\* add_descend writes no slot.
LEMMA AddDescendSlots ==
    ASSUME NEW s \in State, NEW w \in Vn, NEW o \in Op
    PROVE  AddDescend(s, w, o).inrefs = s.inrefs
  BY DEF AddDescend, State

\* ... or to a new varnode.
LEMMA CreateReads ==
    ASSUME NEW s \in State, NEW o \in Op, NEW p, NEW l
    PROVE  Create(WithReads(s, o, p), l) = WithReads(Create(s, l), o, p)
<1>1. PICK f : f = [s.inrefs EXCEPT ![o] = p]
  OBVIOUS
<1>2. PICK a : a = WithReads(s, o, p)
  OBVIOUS
<1>3. a = [s EXCEPT !.inrefs = f]
  BY <1>1, <1>2 DEF WithReads
<1>4. /\ a.loc = s.loc /\ a.state = s.state /\ a.def = s.def /\ a.tree = s.tree
      /\ a.key = s.key /\ a.made = s.made
  BY <1>3 DEF State
<1>5. CASE s.made = MaxVn
  <2>1. Create(s, l) = [s EXCEPT !.abort = "bound"]
    BY <1>5 DEF Create, Allocate, State
  <2>2. Create(a, l) = [a EXCEPT !.abort = "bound"]
    BY <1>3, <1>4, <1>5 DEF Create, Allocate, State
  <2>3. [a EXCEPT !.abort = "bound"] = [[s EXCEPT !.abort = "bound"] EXCEPT !.inrefs[o] = p]
    BY <1>1, <1>3 DEF State
  <2>4. QED
    BY <1>2, <2>1, <2>2, <2>3 DEF WithReads
<1>6. CASE s.made # MaxVn
  <2>1. PICK v : v = s.made
    OBVIOUS
  <2>2. PICK x : x = Allocate(s, l)
    OBVIOUS
  <2>3. PICK y : y = Allocate(a, l)
    OBVIOUS
  <2>4. PICK m : m = [s.loc EXCEPT ![v] = l]
    OBVIOUS
  <2>5. x = [s EXCEPT !.loc = m, !.made = v + 1]
    BY <1>6, <2>1, <2>2, <2>4 DEF Allocate
  <2>6. y = [a EXCEPT !.loc = m, !.made = v + 1]
    BY <1>4, <1>6, <2>1, <2>3, <2>4 DEF Allocate
  <2>7. y = [x EXCEPT !.inrefs = f]
    BY <1>3, <2>5, <2>6 DEF State
  <2>8. y.loc = x.loc /\ y.state = x.state /\ y.def = x.def /\ y.tree = x.tree
        /\ y.key = x.key /\ y.abort = x.abort /\ x.inrefs = s.inrefs
    BY <2>5, <2>7 DEF State
  <2>9. KeyOf(y, v) = KeyOf(x, v)
    BY <2>8, KeySame
  <2>10. PICK k : k = KeyOf(x, v)
    OBVIOUS
  <2>11. PICK T : T = IF \E e \in x.tree : e[1] = k THEN x.tree ELSE x.tree \cup {<<k, v>>}
    OBVIOUS
  <2>12. PICK K : K = [x.key EXCEPT ![v] = k]
    OBVIOUS
  <2>13. TreeInsert(x, v) = [x EXCEPT !.tree = T]
    BY <2>10, <2>11 DEF TreeInsert
  <2>14. TreeInsert(y, v) = [y EXCEPT !.tree = T]
    BY <2>8, <2>9, <2>10, <2>11 DEF TreeInsert
  <2>15. KeyOf([x EXCEPT !.tree = T], v) = k
    BY <2>5, <2>10 DEF KeyOf, IsFree, State
  <2>16. KeyOf([y EXCEPT !.tree = T], v) = k
    BY <1>3, <2>6, <2>9, <2>10 DEF KeyOf, IsFree, State
  <2>17. RefreshKey(TreeInsert(x, v), v) = [x EXCEPT !.tree = T, !.key = K]
    BY <2>5, <2>12, <2>13, <2>15 DEF RefreshKey, State
  <2>18. RefreshKey(TreeInsert(y, v), v) = [y EXCEPT !.tree = T, !.key = K]
    BY <1>3, <2>6, <2>8, <2>12, <2>14, <2>16 DEF RefreshKey, State
  <2>19. CASE x.abort = "bound"
    <3>1. Create(s, l) = x /\ Create(a, l) = y
      BY <2>2, <2>3, <2>8, <2>19 DEF Create
    <3>2. y = [x EXCEPT !.inrefs[o] = p]
      BY <1>1, <2>7, <2>8
    <3>3. QED
      BY <1>2, <3>1, <3>2 DEF WithReads
  <2>20. CASE x.abort # "bound"
    <3>1. Create(s, l) = [x EXCEPT !.tree = T, !.key = K]
      BY <2>1, <2>2, <2>17, <2>20 DEF Create
    <3>2. Create(a, l) = [y EXCEPT !.tree = T, !.key = K]
      BY <1>4, <2>1, <2>3, <2>8, <2>18, <2>20 DEF Create
    <3>3. [y EXCEPT !.tree = T, !.key = K]
              = [[x EXCEPT !.tree = T, !.key = K] EXCEPT !.inrefs[o] = p]
      BY <1>1, <2>5, <2>7, <2>8 DEF State
    <3>4. QED
      BY <1>2, <3>1, <3>2, <3>3 DEF WithReads
  <2>21. QED
    BY <2>19, <2>20
<1>7. QED
  BY <1>5, <1>6

\* What op_set_input links: the varnode itself, or the copy of a constant
\* that has a reader; a second reader never finds it a constant with one.
LEMMA FreshCopy ==
    ASSUME NEW s, Inv(s), s.abort = "no", NEW v \in Bank(s),
           NEW a, a = CopyOf(s, v), NEW w, w = Shared(s, v)
    PROVE  /\ a.abort \in {"no", "bound"} /\ Good(a)
           /\ a.abort = "no" =>
                /\ Inv(a) /\ Bank(s) \subseteq Bank(a) /\ w \in Bank(a) /\ w \in Vn
                /\ a.descend = s.descend /\ a.inrefs = s.inrefs
                /\ ~Copied(a, w)
<1>1. s \in State /\ v \in Vn
  BY BankEntry DEF Inv
<1>2. CASE ~Copied(s, v)
  <2>1. a = s /\ w = v
    BY <1>2 DEF CopyOf, Shared
  <2>2. QED
    BY <1>1, <1>2, <2>1 DEF Good
<1>3. CASE Copied(s, v)
  <2>1. PICK l : l = s.loc[v]
    OBVIOUS
  <2>2. l \in Storage /\ a = Create(s, l) /\ w = s.made
    BY <1>1, <1>3, <2>1, StateType DEF CopyOf, Shared
  <2>3. /\ a.abort \in {"no", "bound"} /\ Good(a)
        /\ a.abort = "no" =>
             /\ Inv(a) /\ Bank(a) = Bank(s) \cup {s.made} /\ s.made \notin Bank(s)
             /\ s.made \in Vn
             /\ a.descend = s.descend /\ a.inrefs = s.inrefs /\ a.output = s.output
             /\ a.dead = s.dead /\ a.state = s.state
             /\ a.loc[s.made] = l /\ \A x \in Vn \ {s.made} : a.loc[x] = s.loc[x]
             /\ s.descend[s.made] = <<>>
    BY <2>2, CreateInv
  <2>4. QED
    BY <2>2, <2>3 DEF Copied
<1>4. QED
  BY <1>2, <1>3

\* t is s with slot i of o linked, or a panic.
Linked(s, t, o, n) ==
    /\ Good(t)
    /\ t.abort = "no" =>
         /\ Bank(s) \subseteq Bank(t) /\ Len(t.inrefs[o]) = n
         /\ \A x \in Op \ {o} : t.inrefs[x] = s.inrefs[x]

\* op_set_input of the slot behind the last one.
LEMMA AppendInput ==
    ASSUME NEW s, Inv(s), s.abort = "no", NEW o \in Op, NEW v \in Bank(s),
           NEW k \in 1..Len(s.inrefs[o]) + 1, Len(s.inrefs[o]) + 1 <= MaxIn,
           NEW w, w = Shared(s, v), CopyOf(s, v).abort # "bound",
           NEW t, t = WithReads(AddDescend(CopyOf(s, v), w, o), o,
                                Inserted(s.inrefs[o], k, w))
    PROVE  Linked(s, t, o, Len(s.inrefs[o]) + 1)
<1>1. PICK a : a = CopyOf(s, v)
  OBVIOUS
<1>2. /\ Inv(a) /\ Bank(s) \subseteq Bank(a) /\ w \in Bank(a) /\ w \in Vn /\ a.abort = "no"
      /\ a.descend = s.descend /\ a.inrefs = s.inrefs
      /\ ~Copied(a, w)
  BY <1>1, FreshCopy
<1>3. PICK q : q = s.inrefs[o]
  OBVIOUS
<1>4. q \in Seq(Entries) /\ k \in 1..Len(q) + 1 /\ w \in Entries /\ Len(q) + 1 <= MaxIn
  BY <1>2, <1>3, ListType, Constants
<1>5. PICK r : r = Inserted(q, k, w)
  OBVIOUS
<1>6. /\ r \in Seq(Entries) /\ Len(r) = Len(q) + 1
      /\ \A x : Count(r, x) = Count(q, x) + (IF w = x THEN 1 ELSE 0)
  <2>1. /\ Inserted(q, k, w) \in Seq(Entries) /\ Len(Inserted(q, k, w)) = Len(q) + 1
        /\ \A x : Count(Inserted(q, k, w), x) = Count(q, x) + (IF w = x THEN 1 ELSE 0)
    BY <1>4, CountInsert
  <2>2. QED
    BY <1>5, <2>1
<1>7. PICK u : u = WithReads(AddDescend(a, w, o), o, r)
  OBVIOUS
<1>8. Len(r) <= MaxIn /\ OneMore(a.inrefs[o], r, w)
  <2>1. \A x : Count(a.inrefs[o], x) = Count(q, x) /\ Count(q, x) \in Nat
    BY <1>2, <1>3, <1>4, CountType
  <2>2. QED
    BY <1>4, <1>6, <2>1 DEF OneMore
<1>9. ReaderAdded(a, u, w, o, r)
  BY <1>2, <1>6, <1>7, <1>8, AddReader
<1>10. t = u
  BY <1>1, <1>3, <1>5, <1>7
<1>11. a.inrefs \in [Op -> Seq(Entries)]
  BY <1>2, StateType DEF Inv
<1>12. u.abort = "no" => Len(u.inrefs[o]) = Len(q) + 1
                         /\ \A x \in Op \ {o} : u.inrefs[x] = s.inrefs[x]
  BY <1>2, <1>6, <1>9, <1>11 DEF ReaderAdded
<1>13. QED
  BY <1>2, <1>3, <1>9, <1>10, <1>12 DEF Linked, ReaderAdded

\* op_set_input.
LEMMA LinkInput ==
    ASSUME NEW s, Inv(s), s.abort = "no", NEW o \in Op, NEW v \in Bank(s),
           NEW i \in 1..Len(s.inrefs[o]) + 1, i <= MaxIn,
           NEW t, t = OpSetInput(s, o, v, i)
    PROVE  Linked(s, t, o, IF i = Len(s.inrefs[o]) + 1 THEN Len(s.inrefs[o]) + 1
                           ELSE Len(s.inrefs[o]))
<1>1. PICK q : q = s.inrefs[o]
  OBVIOUS
<1>2. s \in State /\ q \in Seq(Entries) /\ Len(q) \in Nat /\ i \in Nat /\ i \in 1..Len(q) + 1
  BY <1>1, ListType DEF Inv
<1>3. PICK a : a = CopyOf(s, v)
  OBVIOUS
<1>4. PICK w : w = Shared(s, v)
  OBVIOUS
<1>5. /\ a.abort \in {"no", "bound"} /\ Good(a)
      /\ a.abort = "no" =>
           /\ Inv(a) /\ Bank(s) \subseteq Bank(a) /\ w \in Bank(a) /\ w \in Vn
           /\ a.descend = s.descend /\ a.inrefs = s.inrefs
           /\ ~Copied(a, w)
  BY <1>3, <1>4, FreshCopy
<1>6. PICK u : u = IF i <= Len(q) /\ q[i] # Null /\ Contains(a.descend[q[i]], o)
                   THEN EraseDescend(a, q[i], o) ELSE a
  OBVIOUS
<1>7. t = IF i <= Len(q) /\ q[i] = v THEN s
          ELSE IF a.abort = "bound" THEN a
          ELSE [AddDescend(u, w, o) EXCEPT
                   !.inrefs[o] = IF i = Len(q) + 1 THEN Append(@, w)
                                 ELSE [@ EXCEPT ![i] = w]]
  BY <1>1, <1>3, <1>4, <1>6 DEF OpSetInput, CopyOf, Shared, Copied
<1>8. CASE i <= Len(q) /\ q[i] = v
  <2>1. t = s /\ i # Len(q) + 1
    BY <1>2, <1>7, <1>8
  <2>2. QED
    BY <1>1, <1>2, <2>1 DEF Linked, Good
<1>9. CASE ~(i <= Len(q) /\ q[i] = v) /\ a.abort = "bound"
  <2>1. t = a
    BY <1>7, <1>9
  <2>2. QED
    BY <1>5, <1>9, <2>1 DEF Linked
<1>10. CASE i = Len(q) + 1 /\ a.abort # "bound"
  <2>1. ~(i <= Len(q)) /\ u = a /\ a \in State /\ a.inrefs = s.inrefs /\ w \in Vn
    BY <1>2, <1>5, <1>6, <1>10 DEF Good
  <2>2. Append(q, w) = Inserted(q, i, w)
    <3>1. SubSeq(q, 1, Len(q)) = q /\ SubSeq(q, Len(q) + 1, Len(q)) = <<>> /\ i - 1 = Len(q)
      BY <1>2, <1>10, SubSeqFull, SubSeqEmpty
    <3>2. w \in Entries /\ Append(q, w) \in Seq(Entries)
      BY <1>2, <2>1, Constants
    <3>3. Append(q, w) \o <<>> = Append(q, w)
      BY <3>2, ConcatEmptySeq
    <3>4. QED
      BY <1>10, <3>1, <3>3 DEF Inserted
  <2>3. AddDescend(a, w, o).inrefs = s.inrefs
    BY <2>1, AddDescendSlots
  <2>4. t = WithReads(AddDescend(a, w, o), o, Inserted(q, i, w))
    <3>1. t = [AddDescend(a, w, o) EXCEPT !.inrefs[o] = Append(@, w)]
      BY <1>7, <1>10, <2>1
    <3>2. PICK b : b = AddDescend(a, w, o)
      OBVIOUS
    <3>3. b.inrefs[o] = q
      BY <1>1, <2>3, <3>2
    <3>4. [b EXCEPT !.inrefs[o] = Append(@, w)] = [b EXCEPT !.inrefs[o] = Append(q, w)]
      BY <3>3
    <3>5. QED
      BY <2>2, <3>1, <3>2, <3>4 DEF WithReads
  <2>5. Linked(s, t, o, Len(s.inrefs[o]) + 1)
    <3>1. i \in 1..Len(s.inrefs[o]) + 1 /\ Len(s.inrefs[o]) + 1 <= MaxIn
      BY <1>1, <1>10
    <3>2. PICK x : x = WithReads(AddDescend(CopyOf(s, v), w, o), o,
                                 Inserted(s.inrefs[o], i, w))
      OBVIOUS
    <3>3. Linked(s, x, o, Len(s.inrefs[o]) + 1)
      BY <1>3, <1>4, <1>10, <3>1, <3>2, AppendInput
    <3>4. t = x
      BY <1>1, <1>3, <2>4, <3>2
    <3>5. QED
      BY <3>3, <3>4
  <2>6. QED
    BY <1>1, <1>10, <2>5
<1>11. CASE i # Len(q) + 1 /\ ~(q[i] = v) /\ a.abort # "bound"
  <2>1. /\ i \in 1..Len(q) /\ i <= Len(q)
        /\ Inv(a) /\ a.abort = "no" /\ a.inrefs = s.inrefs /\ a.descend = s.descend
        /\ w \in Bank(a) /\ w \in Vn /\ Bank(s) \subseteq Bank(a) /\ w \in Entries
        /\ ~Copied(a, w)
    <3>1. i \in 1..Len(q) /\ i <= Len(q)
      BY <1>2, <1>11
    <3>2. a.abort = "no"
      BY <1>5, <1>11
    <3>3. QED
      BY <1>5, <3>1, <3>2, Constants
  <2>2. PICK b : b = OpUnsetInput(a, o, i)
    OBVIOUS
  <2>3. i \in 1..Len(a.inrefs[o])
    BY <1>1, <2>1
  <2>4. /\ Inv(b) /\ Bank(b) = Bank(a) /\ Rewired(a, b) /\ b.abort = a.abort
        /\ b.inrefs[o] = Updated(a.inrefs[o], i, Null)
        /\ \A x \in Op \ {o} : b.inrefs[x] = a.inrefs[x]
        /\ \A x \in Vn : a.descend[x] = <<>> => b.descend[x] = <<>>
    BY <2>1, <2>2, <2>3, UnsetInput
  <2>5. PICK p : p = Updated(q, i, Null)
    OBVIOUS
  <2>6. /\ p \in Seq(Entries) /\ Len(p) = Len(q) /\ p[i] = Null
        /\ \A j \in 1..Len(q) : j # i => p[j] = q[j]
    <3>1. q \in Seq(Entries) /\ i \in 1..Len(q) /\ Null \in Entries
      BY <1>2, <2>1, Constants
    <3>2. /\ Updated(q, i, Null) \in Seq(Entries) /\ Len(Updated(q, i, Null)) = Len(q)
          /\ Updated(q, i, Null)[i] = Null
          /\ \A j \in 1..Len(q) : j # i => Updated(q, i, Null)[j] = q[j]
      <4>1. PICK x : x = Null
        OBVIOUS
      <4>2. /\ Updated(q, i, x) \in Seq(Entries) /\ Len(Updated(q, i, x)) = Len(q)
            /\ Updated(q, i, x)[i] = x
            /\ \A j \in 1..Len(q) : j # i => Updated(q, i, x)[j] = q[j]
        BY <3>1, <4>1, UpdateFacts
      <4>3. QED
        BY <4>1, <4>2
    <3>3. QED
      BY <2>5, <3>2
  <2>7. PICK r : r = Updated(p, i, w)
    OBVIOUS
  <2>8. /\ r \in Seq(Entries) /\ Len(r) = Len(q)
        /\ \A x \in Vn : Count(r, x) = Count(p, x) + (IF x = w THEN 1 ELSE 0)
    <3>1. p \in Seq(Entries) /\ i \in 1..Len(p) /\ w \in Entries
      BY <2>1, <2>6
    <3>2. Updated(p, i, w) \in Seq(Entries) /\ Len(Updated(p, i, w)) = Len(p)
      BY <3>1, UpdateFacts
    <3>3. ASSUME NEW x \in Vn
          PROVE  Count(r, x) = Count(p, x) + (IF x = w THEN 1 ELSE 0)
      <4>1. Count(Updated(p, i, w), x) + (IF p[i] = x THEN 1 ELSE 0)
                = Count(p, x) + (IF w = x THEN 1 ELSE 0)
        BY <3>1, CountUpdate
      <4>2. p[i] # x
        BY <2>6, Constants
      <4>3. Count(r, x) \in Nat /\ Count(p, x) \in Nat
        BY <2>7, <3>1, <3>2, CountType
      <4>4. QED
        BY <2>7, <4>1, <4>2, <4>3
    <3>4. QED
      BY <2>6, <2>7, <3>2, <3>3
  <2>9. r = Updated(q, i, w)
    BY <1>2, <2>1, <2>5, <2>7 DEF Updated
  <2>10. u \in State /\ u.inrefs = s.inrefs
    <3>1. CASE u = a
      BY <2>1, <3>1 DEF Inv
    <3>2. CASE u = EraseDescend(a, q[i], o) /\ q[i] # Null
      <4>1. PICK y : y = q[i]
        OBVIOUS
      <4>0. y \in Entries /\ y # Null
        BY <1>2, <2>1, <3>2, <4>1
      <4>2. y \in Vn /\ a \in State /\ u = EraseDescend(a, y, o)
        <5>1. y \in Vn
          BY <4>0 DEF Entries
        <5>2. a \in State
          BY <2>1 DEF Inv
        <5>3. QED
          BY <3>2, <4>1, <5>1, <5>2
      <4>3. Rewired(a, u)
        BY <4>2, EraseDescendFields
      <4>4. u.inrefs = a.inrefs
        BY <4>2 DEF EraseDescend, State
      <4>5. QED
        BY <2>1, <4>3, <4>4 DEF Rewired
    <3>3. QED
      BY <1>6, <3>1, <3>2
  <2>11. b = WithReads(u, o, p)
    <3>1. a.inrefs[o][i] = q[i]
      BY <1>1, <2>1
    <3>2. b = [u EXCEPT !.inrefs[o][i] = Null]
      BY <1>6, <2>1, <2>2, <3>1 DEF OpUnsetInput
    <3>3. [u.inrefs EXCEPT ![o][i] = Null] = [u.inrefs EXCEPT ![o] = p]
      BY <1>1, <2>5, <2>10 DEF Updated
    <3>4. QED
      BY <3>2, <3>3 DEF WithReads
  <2>12. t = WithReads(AddDescend(u, w, o), o, r)
    <3>1. PICK y : y = AddDescend(u, w, o)
      OBVIOUS
    <3>2. y.inrefs[o] = q
      BY <1>1, <2>1, <2>10, <3>1, AddDescendSlots
    <3>3. t = [y EXCEPT !.inrefs[o] = [@ EXCEPT ![i] = w]]
      BY <1>7, <1>11, <3>1
    <3>4. t = [y EXCEPT !.inrefs[o] = r]
      BY <2>9, <3>2, <3>3 DEF Updated
    <3>5. QED
      BY <3>1, <3>4 DEF WithReads
  <2>13. t = WithReads(AddDescend(b, w, o), o, r)
    <3>1. WithReads(AddDescend(WithReads(u, o, p), w, o), o, r)
              = WithReads(AddDescend(u, w, o), o, r)
      BY <2>1, <2>10, AddDescendReads
    <3>2. QED
      BY <2>11, <2>12, <3>1
  <2>14. /\ Inv(b) /\ b.abort = "no" /\ w \in Bank(b) /\ b.inrefs[o] = p
         /\ ~Copied(b, w)
    BY <1>1, <2>1, <2>4, <2>5 DEF Rewired, IsConstant, Copied
  <2>15. Len(r) <= MaxIn
    BY <1>1, <2>8, ListType
  <2>16. OneMore(b.inrefs[o], r, w)
    BY <2>8, <2>14 DEF OneMore
  <2>17. ReaderAdded(b, t, w, o, r)
    <3>1. PICK y : y = WithReads(AddDescend(b, w, o), o, r)
      OBVIOUS
    <3>2. ReaderAdded(b, y, w, o, r)
      BY <2>8, <2>14, <2>15, <2>16, <3>1, AddReader
    <3>3. QED
      BY <2>13, <3>1, <3>2
  <2>18. b.inrefs \in [Op -> Seq(Entries)]
    BY <2>4, StateType DEF Inv
  <2>19. t.abort = "no" => /\ Len(t.inrefs[o]) = Len(q)
                           /\ \A x \in Op \ {o} : t.inrefs[x] = s.inrefs[x]
    BY <2>1, <2>4, <2>8, <2>17, <2>18 DEF ReaderAdded
  <2>20. QED
    BY <1>1, <1>11, <2>1, <2>4, <2>17, <2>19 DEF Linked, ReaderAdded
<1>12. QED
  BY <1>2, <1>5, <1>8, <1>9, <1>10, <1>11

\* op_insert_input.
LEMMA InsertInv ==
    ASSUME NEW s, Inv(s), s.abort = "no", NEW o \in Op, NEW v \in Bank(s),
           NEW i \in 1..Len(s.inrefs[o]) + 1, Len(s.inrefs[o]) + 1 <= MaxIn,
           NEW t, t = OpInsertInput(s, o, v, i)
    PROVE  Good(t) /\ (t.abort = "no" => Bank(s) \subseteq Bank(t))
<1>1. PICK q : q = s.inrefs[o]
  OBVIOUS
<1>2. s \in State /\ q \in Seq(Entries) /\ Len(q) \in Nat /\ i \in Nat /\ i \in 1..Len(q) + 1
  BY <1>1, ListType DEF Inv
<1>3. PICK p : p = SubSeq(q, 1, i - 1)
  OBVIOUS
<1>4. p \in Seq(Entries) /\ Len(p) = i - 1 /\ i = Len(p) + 1 /\ ~(i <= Len(p))
  BY <1>2, <1>3
<1>5. PICK h : h = WithReads(s, o, p)
  OBVIOUS
<1>6. /\ h.inrefs[o] = p /\ h.loc = s.loc /\ h.descend = s.descend /\ h.made = s.made
  BY <1>2, <1>5, StateType DEF WithReads, State
<1>7. PICK a : a = CopyOf(s, v)
  OBVIOUS
<1>8. PICK w : w = Shared(s, v)
  OBVIOUS
<1>9. /\ a.abort \in {"no", "bound"} /\ Good(a)
      /\ a.abort = "no" =>
           /\ Inv(a) /\ Bank(s) \subseteq Bank(a) /\ w \in Bank(a) /\ w \in Vn
           /\ a.descend = s.descend /\ a.inrefs = s.inrefs
           /\ ~Copied(a, w)
  BY <1>7, <1>8, FreshCopy
<1>10. (Copied(h, v) <=> Copied(s, v)) /\ Shared(h, v) = w
  BY <1>6, <1>8 DEF Copied, IsConstant, Shared
<1>11. CopyOf(h, v) = WithReads(a, o, p)
  <2>1. PICK l : l = s.loc[v]
    OBVIOUS
  <2>2. Create(WithReads(s, o, p), l) = WithReads(Create(s, l), o, p)
    BY <1>2, CreateReads
  <2>3. CopyOf(h, v) = IF Copied(s, v) THEN Create(h, l) ELSE h
    BY <1>6, <1>10, <2>1 DEF CopyOf
  <2>4. a = IF Copied(s, v) THEN Create(s, l) ELSE s
    BY <1>7, <2>1 DEF CopyOf
  <2>5. QED
    BY <1>5, <2>2, <2>3, <2>4
<1>12. PICK b : b = WithReads(a, o, p)
  OBVIOUS
<1>13. b.abort = a.abort /\ a \in State
  BY <1>9, <1>12 DEF WithReads, State, Good
<1>14. PICK c : c = OpSetInput(h, o, v, i)
  OBVIOUS
<1>15. c = IF b.abort = "bound" THEN b
           ELSE [AddDescend(b, w, o) EXCEPT !.inrefs[o] = Append(@, w)]
  <2>1. PICK g : g = IF Copied(h, v) THEN Create(h, h.loc[v]) ELSE h
    OBVIOUS
  <2>2. PICK z : z = IF Copied(h, v) THEN h.made ELSE v
    OBVIOUS
  <2>3. g = b /\ z = w
    BY <1>10, <1>11, <1>12, <2>1, <2>2 DEF CopyOf, Shared
  <2>4. c = IF g.abort = "bound" THEN g
            ELSE [AddDescend(g, z, o) EXCEPT !.inrefs[o] = Append(@, z)]
    BY <1>4, <1>6, <1>14, <2>1, <2>2 DEF OpSetInput, Copied
  <2>5. QED
    BY <2>3, <2>4
<1>16. t = [c EXCEPT !.inrefs[o] = @ \o SubSeq(q, i, Len(q))]
  BY <1>1, <1>3, <1>5, <1>14 DEF OpInsertInput, WithReads
<1>17. CASE a.abort = "bound"
  <2>1. c = b
    BY <1>13, <1>15, <1>17
  <2>2. PICK y : y = p \o SubSeq(q, i, Len(q))
    OBVIOUS
  <2>3. y \in Seq(Entries)
    <3>1. SubSeq(q, i, Len(q)) \in Seq(Entries)
      BY <1>2
    <3>2. QED
      BY <1>4, <2>2, <3>1
  <2>4. b \in State /\ b.inrefs \in [Op -> Seq(Entries)] /\ b.inrefs[o] = p
    <3>1. PICK f : f = [a.inrefs EXCEPT ![o] = p]
      OBVIOUS
    <3>2. f \in [Op -> Seq(Entries)] /\ f[o] = p
      BY <1>4, <1>13, <3>1, StateType
    <3>3. b = [a EXCEPT !.inrefs = f]
      BY <1>12, <3>1 DEF WithReads
    <3>4. QED
      BY <1>13, <3>2, <3>3 DEF State
  <2>5. PICK f : f = [b.inrefs EXCEPT ![o] = y]
    OBVIOUS
  <2>6. f \in [Op -> Seq(Entries)]
    BY <2>3, <2>4, <2>5
  <2>7. t = [b EXCEPT !.inrefs = f]
    BY <1>16, <2>1, <2>2, <2>4, <2>5
  <2>8. t \in State /\ t.abort = "bound"
    BY <1>13, <1>17, <2>4, <2>6, <2>7 DEF State
  <2>9. QED
    BY <2>8 DEF Good
<1>18. CASE a.abort = "no"
  <2>1. w \in Vn /\ w \in Entries
    BY <1>9, <1>18, Constants
  <2>2. PICK d : d = AddDescend(b, w, o)
    OBVIOUS
  <2>3. b \in State /\ b.inrefs[o] = p
    <3>1. PICK f : f = [a.inrefs EXCEPT ![o] = p]
      OBVIOUS
    <3>2. f \in [Op -> Seq(Entries)] /\ f[o] = p
      BY <1>4, <1>13, <3>1, StateType
    <3>3. b = [a EXCEPT !.inrefs = f]
      BY <1>12, <3>1 DEF WithReads
    <3>4. QED
      BY <1>13, <3>2, <3>3 DEF State
  <2>4. d.inrefs = b.inrefs
    BY <2>1, <2>2, <2>3, AddDescendSlots
  <2>5. PICK r : r = Inserted(q, i, w)
    OBVIOUS
  <2>6. t = WithReads(d, o, r)
    <3>1. c = [d EXCEPT !.inrefs[o] = Append(@, w)]
      BY <1>13, <1>15, <1>18, <2>2
    <3>2. PICK x : x = Append(p, w)
      OBVIOUS
    <3>3. PICK y : y = SubSeq(q, i, Len(q))
      OBVIOUS
    <3>4. r = x \o y
      BY <1>3, <2>5, <3>2, <3>3 DEF Inserted
    <3>5. d.inrefs[o] = p /\ d.inrefs \in [Op -> Seq(Entries)]
      BY <2>3, <2>4, StateType
    <3>6. PICK f : f = [d.inrefs EXCEPT ![o] = x]
      OBVIOUS
    <3>7. f[o] = x /\ [f EXCEPT ![o] = x \o y] = [d.inrefs EXCEPT ![o] = x \o y]
      BY <3>5, <3>6
    <3>8. c = [d EXCEPT !.inrefs = f]
      BY <3>1, <3>2, <3>5, <3>6
    <3>9. d = AddDescend(b, w, o) /\ b \in State
      BY <2>2, <2>3
    <3>10. PICK D : D = DOMAIN d
      OBVIOUS
    <3>11. "inrefs" \in DOMAIN d
      BY <3>9 DEF AddDescend, State
    <3>12. c.inrefs = f
      BY <3>8, <3>11
    <3>13. t = [c EXCEPT !.inrefs = [f EXCEPT ![o] = x \o y]]
      BY <1>16, <3>3, <3>7, <3>12
    <3>14. QED
      BY <3>4, <3>7, <3>8, <3>13 DEF WithReads
  <2>7. WithReads(AddDescend(WithReads(a, o, p), w, o), o, r)
            = WithReads(AddDescend(a, w, o), o, r)
    BY <1>13, <2>1, AddDescendReads
  <2>8. PICK y : y = WithReads(AddDescend(CopyOf(s, v), w, o), o,
                               Inserted(s.inrefs[o], i, w))
    OBVIOUS
  <2>9. t = y
    BY <1>1, <1>7, <1>12, <2>2, <2>5, <2>6, <2>7, <2>8
  <2>10. Linked(s, y, o, Len(s.inrefs[o]) + 1)
    <3>1. CopyOf(s, v).abort # "bound"
      BY <1>7, <1>18
    <3>2. QED
      BY <1>8, <2>8, <3>1, AppendInput
  <2>11. QED
    BY <2>9, <2>10 DEF Linked
<1>19. QED
  BY <1>9, <1>17, <1>18

\* op_remove_input and op_swap_input.
LEMMA RemoveInv ==
    ASSUME NEW s, Inv(s), NEW o \in Op, NEW i \in 1..Len(s.inrefs[o]),
           NEW r, r = OpRemoveInput(s, o, i)
    PROVE  Inv(r) /\ r.abort = s.abort /\ Bank(r) = Bank(s)
<1>1. PICK t : t = OpUnsetInput(s, o, i)
  OBVIOUS
<1>2. /\ Inv(t) /\ Bank(t) = Bank(s) /\ Rewired(s, t) /\ t.abort = s.abort
      /\ t.inrefs[o] = Updated(s.inrefs[o], i, Null)
      /\ \A x \in Op : Len(t.inrefs[x]) = Len(s.inrefs[x])
  BY <1>1, UnsetInput
<1>3. PICK q : q = s.inrefs[o]
  OBVIOUS
<1>4. PICK p : p = t.inrefs[o]
  OBVIOUS
<1>5. p \in Seq(Entries) /\ i \in 1..Len(p) /\ p[i] = Null /\ Len(p) <= MaxIn
      /\ Len(p) \in Nat
  <2>1. p \in Seq(Entries) /\ Len(p) = Len(q) /\ Len(p) <= MaxIn /\ Len(p) \in Nat
    BY <1>2, <1>3, <1>4, ListType
  <2>2. PICK x : x = Null
    OBVIOUS
  <2>3. q \in Seq(Entries) /\ i \in 1..Len(q) /\ x \in Entries
    BY <1>3, <2>2, ListType, Constants
  <2>4. Updated(q, i, x)[i] = x
    BY <2>3, UpdateFacts
  <2>5. QED
    BY <1>2, <1>3, <1>4, <2>1, <2>2, <2>3, <2>4
<1>6. PICK d : d = RemoveAt(p, i)
  OBVIOUS
<1>7. d \in Seq(Entries) /\ Len(d) = Len(p) - 1
  <2>1. RemoveAt(p, i) \in Seq(Entries) /\ Len(RemoveAt(p, i)) = Len(p) - 1
    BY <1>5, RemoveAtFacts
  <2>2. QED
    BY <1>6, <2>1
<1>8. ASSUME NEW x \in Vn PROVE Count(d, x) = Count(t.inrefs[o], x)
  <2>1. Count(p, x) = Count(RemoveAt(p, i), x) + (IF p[i] = x THEN 1 ELSE 0)
    BY <1>5, CountRemoveAt
  <2>2. p[i] # x /\ Count(d, x) \in Nat
    BY <1>5, <1>7, CountType, Constants
  <2>3. QED
    BY <1>4, <1>6, <2>1, <2>2
<1>9. r = WithReads(t, o, d)
  BY <1>1, <1>4, <1>6 DEF OpRemoveInput, WithReads
<1>10. Len(d) <= MaxIn
  <2>1. PICK n : n = Len(p)
    OBVIOUS
  <2>2. n \in Nat /\ n <= MaxIn /\ MaxIn \in Nat /\ Len(d) = n - 1
    BY <1>5, <1>7, <2>1, Constants
  <2>3. QED
    BY <2>2
<1>11. Inv(r) /\ Bank(r) = Bank(t) /\ r.abort = t.abort
  <2>1. SameReads(t.inrefs[o], d)
    BY <1>8 DEF SameReads
  <2>2. PICK u : u = WithReads(t, o, d)
    OBVIOUS
  <2>3. /\ Inv(u) /\ Bank(u) = Bank(t) /\ Rewired(t, u) /\ u.abort = t.abort
        /\ u.inrefs = [t.inrefs EXCEPT ![o] = d] /\ u.descend = t.descend
    BY <1>2, <1>7, <1>10, <2>1, <2>2, Rearrange
  <2>4. QED
    BY <1>9, <2>2, <2>3
<1>12. QED
  BY <1>2, <1>11

\* op_swap_input: the same slots in another order.
LEMMA SwapInv ==
    ASSUME NEW s, Inv(s), NEW o \in Op, NEW i \in 1..Len(s.inrefs[o]),
           NEW j \in 1..Len(s.inrefs[o]), i # j, NEW r, r = OpSwapInput(s, o, i, j)
    PROVE  Inv(r) /\ r.abort = s.abort /\ Bank(r) = Bank(s)
<1>1. PICK q : q = s.inrefs[o]
  OBVIOUS
<1>2. q \in Seq(Entries) /\ i \in 1..Len(q) /\ j \in 1..Len(q) /\ Len(q) <= MaxIn
  BY <1>1, ListType
<1>3. PICK d : d = Swapped(q, i, j)
  OBVIOUS
<1>4. d \in Seq(Entries) /\ Len(d) = Len(q) /\ \A x : Count(d, x) = Count(q, x)
  BY <1>2, <1>3, CountSwap
<1>5. r = WithReads(s, o, d)
  <2>1. r = [s EXCEPT !.inrefs[o] = d]
    BY <1>1, <1>3 DEF OpSwapInput, Swapped
  <2>2. QED
    BY <2>1 DEF WithReads
<1>6. PICK u : u = WithReads(s, o, d)
  OBVIOUS
<1>7. SameReads(s.inrefs[o], d)
  BY <1>1, <1>4 DEF SameReads
<1>8. Len(d) <= MaxIn
  BY <1>2, <1>4
<1>9. /\ Inv(u) /\ Bank(u) = Bank(s) /\ Rewired(s, u) /\ u.abort = s.abort
      /\ u.inrefs = [s.inrefs EXCEPT ![o] = d] /\ u.descend = s.descend
  BY <1>4, <1>6, <1>7, <1>8, Rearrange
<1>10. QED
  BY <1>5, <1>6, <1>9
\* An op whose slots are all empty may have none.
LEMMA NoSlots ==
    ASSUME NEW s, Inv(s), NEW o \in Op,
           NEW r, r = WithReads(OpUnsetInputs(s, o), o, <<>>)
    PROVE  Inv(r) /\ r.abort = s.abort /\ Bank(r) = Bank(s) /\ Len(r.inrefs[o]) = 0
<1>1. PICK t : t = OpUnsetInputs(s, o)
  OBVIOUS
<1>2. /\ Inv(t) /\ Rewired(s, t) /\ t.abort = s.abort
      /\ Len(t.inrefs[o]) = Len(s.inrefs[o])
      /\ \A i \in 1..Len(s.inrefs[o]) : t.inrefs[o][i] = Null
  BY <1>1, UnsetInputs DEF Emptied
<1>3. t.inrefs[o] \in Seq(Entries) /\ t.inrefs \in [Op -> Seq(Entries)]
  BY <1>2, StateType DEF Inv
<1>4. ASSUME NEW x \in Vn PROVE Count(<<>>, x) = Count(t.inrefs[o], x)
  <2>1. \A i \in 1..Len(t.inrefs[o]) : t.inrefs[o][i] # x
    BY <1>2, Constants
  <2>2. QED
    BY <1>3, <2>1, CountZero, CountEmpty
<1>5. PICK q : q = <<>>
  OBVIOUS
<1>6. q \in Seq(Entries) /\ Len(q) <= MaxIn /\ Len(q) = 0
  BY <1>5, Constants
<1>7. SameReads(t.inrefs[o], q)
  BY <1>4, <1>5 DEF SameReads
<1>8. r = WithReads(t, o, q)
  BY <1>1, <1>5
<1>9. /\ Inv(r) /\ Bank(r) = Bank(t) /\ r.abort = t.abort
      /\ r.inrefs = [t.inrefs EXCEPT ![o] = q]
  <2>1. PICK u : u = WithReads(t, o, q)
    OBVIOUS
  <2>2. /\ Inv(u) /\ Bank(u) = Bank(t) /\ Rewired(t, u) /\ u.abort = t.abort
        /\ u.inrefs = [t.inrefs EXCEPT ![o] = q] /\ u.descend = t.descend
    <3>1. Inv(t)
      BY <1>2
    <3>2. q \in Seq(Entries) /\ Len(q) <= MaxIn
      BY <1>6
    <3>3. QED
      BY <1>7, <2>1, <3>1, <3>2, Rearrange
  <2>3. QED
    BY <1>8, <2>1, <2>2
<1>10. Bank(t) = Bank(s)
  BY <1>2, BankSame DEF Rewired
<1>11. Len(r.inrefs[o]) = 0
  BY <1>3, <1>6, <1>9
<1>12. QED
  BY <1>2, <1>9, <1>10, <1>11

\* u is s after the first k of the new slots of o.
SetUpTo(s, u, o, k) ==
    Good(u) /\ (u.abort = "no" => Bank(s) \subseteq Bank(u) /\ Len(u.inrefs[o]) = k)

\* The body of the loop of op_set_all_input.
SetIn(u, o, v, i) == IF u.abort = "no" THEN OpSetInput(u, o, v, i) ELSE u

\* One round of op_set_all_input.
LEMMA SetNext ==
    ASSUME NEW s, NEW o \in Op, NEW v \in Bank(s), NEW i \in Nat \ {0}, i <= MaxIn,
           NEW u, SetUpTo(s, u, o, i - 1)
    PROVE  SetUpTo(s, SetIn(u, o, v, i), o, i)
<1>1. CASE u.abort # "no"
  BY <1>1 DEF SetUpTo, SetIn
<1>2. CASE u.abort = "no"
  <2>1. /\ Inv(u) /\ v \in Bank(u) /\ Len(u.inrefs[o]) = i - 1 /\ Bank(s) \subseteq Bank(u)
        /\ i \in 1..Len(u.inrefs[o]) + 1 /\ Len(u.inrefs[o]) + 1 = i
    BY <1>2 DEF SetUpTo, Good
  <2>2. PICK t : t = OpSetInput(u, o, v, i)
    OBVIOUS
  <2>3. Linked(u, t, o, IF i = Len(u.inrefs[o]) + 1 THEN Len(u.inrefs[o]) + 1
                        ELSE Len(u.inrefs[o]))
    BY <1>2, <2>1, <2>2, LinkInput
  <2>4. QED
    BY <1>2, <2>1, <2>2, <2>3 DEF Linked, SetUpTo, SetIn
<1>3. QED
  BY <1>1, <1>2

\* op_set_all_input.
LEMMA SetAllInv ==
    ASSUME NEW s, Inv(s), s.abort = "no", NEW o \in Op,
           NEW vs \in Seq(Bank(s)), Len(vs) <= MaxIn
    PROVE  SetUpTo(s, OpSetAllInput(s, o, vs), o, Len(vs))
<1>b. PICK b : b = WithReads(OpUnsetInputs(s, o), o, <<>>)
  OBVIOUS
<1>i. Inv(b) /\ b.abort = "no" /\ Bank(b) = Bank(s) /\ Len(b.inrefs[o]) = 0
  BY <1>b, NoSlots
<1> DEFINE n == Len(vs)
           Eq(r) == r = [i \in 0..n |-> IF i = 0 THEN b ELSE SetIn(r[i - 1], o, vs[i], i)]
           run == CHOOSE r : Eq(r)
           J == [i \in 0..n |-> {t \in State : SetUpTo(s, t, o, i)}]
           step == [p \in State \X (1..n) |-> SetIn(p[1], o, vs[p[2]], p[2])]
<1>1. OpSetAllInput(s, o, vs) = run[n]
  BY <1>b DEF OpSetAllInput, Repeat, WithReads, SetIn
<1>2. n \in Nat
  OBVIOUS
<1>3. b \in J[0]
  <2>1. 0 \in 0..n
    BY <1>2
  <2>2. b \in State /\ SetUpTo(s, b, o, 0)
    BY <1>i DEF Inv, Good, SetUpTo
  <2>3. QED
    BY <2>1, <2>2
<1>4. ASSUME NEW i \in 1..n, NEW t \in J[i - 1]
      PROVE  /\ SetIn(t, o, vs[i], i) \in J[i]
             /\ step[<<t, i>>] = SetIn(t, o, vs[i], i)
  <2>1. i - 1 \in 0..n /\ i \in 0..n
    BY <1>2
  <2>2. t \in {u \in State : SetUpTo(s, u, o, i - 1)}
    BY <2>1
  <2>3. SetUpTo(s, t, o, i - 1) /\ i \in Nat \ {0} /\ i <= MaxIn /\ vs[i] \in Bank(s)
    BY <1>2, <2>2, Constants
  <2>4. SetUpTo(s, SetIn(t, o, vs[i], i), o, i)
    BY <2>3, SetNext
  <2>9. SetIn(t, o, vs[i], i) \in {u \in State : SetUpTo(s, u, o, i)}
    BY <2>4 DEF SetUpTo, Good
  <2>10. t \in State
    BY <2>2
  <2>11. QED
    BY <2>1, <2>9, <2>10
<1> HIDE DEF J, step, n
<1>5. PICK r : IsLoop(r, n, b, step) /\ \A i \in 0..n : r[i] \in J[i]
  BY <1>2, <1>3, <1>4, LoopRuns
<1>6. \A i \in 0..n : i # 0 => i \in 1..n /\ i - 1 \in 0..n
  BY <1>2
<1>7. r = [i \in 0..n |-> IF i = 0 THEN b ELSE SetIn(r[i - 1], o, vs[i], i)]
  <2>1. r = [i \in 0..n |-> IF i = 0 THEN b ELSE step[<<r[i - 1], i>>]]
    BY <1>5, Zenon DEF IsLoop
  <2>2. \A i \in 0..n : i # 0 => step[<<r[i - 1], i>>] = SetIn(r[i - 1], o, vs[i], i)
    BY <1>4, <1>5, <1>6, Zenon
  <2>3. [i \in 0..n |-> IF i = 0 THEN b ELSE step[<<r[i - 1], i>>]]
            = [i \in 0..n |-> IF i = 0 THEN b ELSE SetIn(r[i - 1], o, vs[i], i)]
    BY <2>2, Zenon
  <2>4. QED
    BY <2>1, <2>3, Zenon
<1>8. run = [i \in 0..n |-> IF i = 0 THEN b ELSE SetIn(run[i - 1], o, vs[i], i)]
  <2>1. \E g : Eq(g)
    BY <1>7, Zenon
  <2>2. Eq(run)
    <3> HIDE DEF Eq
    <3> QED BY <2>1, Zenon
  <2>3. QED
    BY <2>2, Zenon
<1> HIDE DEF run, Eq
<1>9. \A i \in 0..n : run[i] = IF i = 0 THEN b ELSE SetIn(run[i - 1], o, vs[i], i)
  BY <1>8, Zenon
<1>10. 0 \in 0..n /\ n \in 0..n /\ \A i \in 1..n : i \in 0..n /\ i # 0
  BY <1>2
<1>11. run[0] \in J[0] /\ Rounds(J, run, n)
  BY <1>3, <1>4, <1>9, <1>10, Zenon DEF Rounds
<1>12. run[n] \in J[n]
  BY <1>2, <1>10, <1>11, RoundsHold, Zenon
<1>13. QED
  BY <1>1, <1>10, <1>12 DEF J, n

\* t is s after some readers of v have been given another varnode.
Replaced(s, t) == Good(t) /\ (t.abort = "no" => Bank(s) \subseteq Bank(t))

\* The body of the loop of total_replace.
ReplaceIn(t, o, v, w) ==
    IF t.abort # "no" THEN t
    ELSE IF Slot(t, o, v) = 0 THEN EraseDescend(t, v, o)
    ELSE OpSetInput(t, o, w, Slot(t, o, v))

\* One round of total_replace.
LEMMA ReplaceNext ==
    ASSUME NEW s, NEW v \in Bank(s), NEW w \in Bank(s), NEW o \in Op, NEW t, Replaced(s, t)
    PROVE  Replaced(s, ReplaceIn(t, o, v, w))
<1>1. CASE t.abort # "no"
  BY <1>1 DEF ReplaceIn
<1>2. CASE t.abort = "no"
  <2>1. Inv(t) /\ t \in State /\ v \in Bank(t) /\ w \in Bank(t) /\ Bank(s) \subseteq Bank(t)
    BY <1>2 DEF Replaced, Good
  <2>2. v \in Vn
    BY <2>1, BankEntry
  <2>3. PICK k : k = Slot(t, o, v)
    OBVIOUS
  <2>4. PICK q : q = t.inrefs[o]
    OBVIOUS
  <2>5. q \in Seq(Entries) /\ k = First(q, v) /\ Len(q) \in Nat /\ Len(q) <= MaxIn
    BY <2>1, <2>3, <2>4, ListType DEF Slot, First
  <2>6. k \in 0..Len(q) /\ (k = 0 <=> Count(q, v) = 0)
    BY <2>5, FirstFacts
  <2>7. CASE k = 0
    <3>1. PICK d : d = t.descend[v]
      OBVIOUS
    <3>2. d \in Seq(Op) /\ Count(d, o) = 0
      BY <2>1, <2>2, <2>4, <2>6, <2>7, <3>1, ListType DEF Inv, Reads, ReadsOf
    <3>3. RemoveFirst(d, o) = d
      BY <3>2, RemoveFirstFacts
    <3>4. t.descend \in [Vn -> Seq(Op)]
      BY <2>1, StateType
    <3>5. [t.descend EXCEPT ![v] = RemoveFirst(@, o)] = t.descend
      BY <2>2, <3>1, <3>3, <3>4
    <3>6. EraseDescend(t, v, o) = t
      BY <2>1, <3>5 DEF EraseDescend, State
    <3>7. QED
      BY <1>2, <2>3, <2>7, <3>6 DEF ReplaceIn
  <2>8. CASE k # 0
    <3>1. k \in 1..Len(t.inrefs[o]) + 1 /\ k <= MaxIn
      BY <2>4, <2>5, <2>6, <2>8, Constants
    <3>2. PICK u : u = OpSetInput(t, o, w, k)
      OBVIOUS
    <3>3. Linked(t, u, o, IF k = Len(t.inrefs[o]) + 1 THEN Len(t.inrefs[o]) + 1
                          ELSE Len(t.inrefs[o]))
      BY <1>2, <2>1, <3>1, <3>2, LinkInput
    <3>4. ReplaceIn(t, o, v, w) = u
      BY <1>2, <2>3, <2>8, <3>2 DEF ReplaceIn
    <3>5. QED
      BY <2>1, <3>3, <3>4 DEF Linked, Replaced
  <2>9. QED
    BY <2>7, <2>8
<1>3. QED
  BY <1>1, <1>2

\* total_replace.
LEMMA TotalReplaceInv ==
    ASSUME NEW s, Inv(s), s.abort = "no", NEW v \in Bank(s), NEW w \in Bank(s)
    PROVE  Replaced(s, TotalReplace(s, v, w))
<1> DEFINE q == s.descend[v]
<1>q. q \in Seq(Op)
  BY BankEntry, ListType
<1> DEFINE n == Len(q)
           Eq(r) == r = [i \in 0..n |-> IF i = 0 THEN s ELSE ReplaceIn(r[i - 1], q[i], v, w)]
           run == CHOOSE r : Eq(r)
           J == [i \in 0..n |-> {t \in State : Replaced(s, t)}]
           step == [p \in State \X (1..n) |-> ReplaceIn(p[1], q[p[2]], v, w)]
<1>1. TotalReplace(s, v, w) = run[n]
  BY DEF TotalReplace, Repeat, ReplaceIn
<1>2. n \in Nat
  BY <1>q
<1>3. s \in J[0]
  <2>1. 0 \in 0..n
    BY <1>2
  <2>2. s \in State /\ Replaced(s, s)
    BY DEF Inv, Good, Replaced
  <2>3. QED
    BY <2>1, <2>2
<1>4. ASSUME NEW i \in 1..n, NEW t \in J[i - 1]
      PROVE  /\ ReplaceIn(t, q[i], v, w) \in J[i]
             /\ step[<<t, i>>] = ReplaceIn(t, q[i], v, w)
  <2>1. i - 1 \in 0..n /\ i \in 0..n
    BY <1>2
  <2>2. t \in {u \in State : Replaced(s, u)}
    BY <2>1
  <2>3. Replaced(s, t) /\ q[i] \in Op
    BY <1>q, <1>2, <2>2
  <2>4. Replaced(s, ReplaceIn(t, q[i], v, w))
    BY <2>3, ReplaceNext
  <2>9. ReplaceIn(t, q[i], v, w) \in {u \in State : Replaced(s, u)}
    BY <2>4 DEF Replaced, Good
  <2>10. t \in State
    BY <2>2
  <2>11. QED
    BY <2>1, <2>9, <2>10
<1> HIDE DEF J, step, n
<1>5. PICK r : IsLoop(r, n, s, step) /\ \A i \in 0..n : r[i] \in J[i]
  BY <1>2, <1>3, <1>4, LoopRuns
<1>6. \A i \in 0..n : i # 0 => i \in 1..n /\ i - 1 \in 0..n
  BY <1>2
<1>7. r = [i \in 0..n |-> IF i = 0 THEN s ELSE ReplaceIn(r[i - 1], q[i], v, w)]
  <2>1. r = [i \in 0..n |-> IF i = 0 THEN s ELSE step[<<r[i - 1], i>>]]
    BY <1>5, Zenon DEF IsLoop
  <2>2. \A i \in 0..n : i # 0 => step[<<r[i - 1], i>>] = ReplaceIn(r[i - 1], q[i], v, w)
    BY <1>4, <1>5, <1>6, Zenon
  <2>3. [i \in 0..n |-> IF i = 0 THEN s ELSE step[<<r[i - 1], i>>]]
            = [i \in 0..n |-> IF i = 0 THEN s ELSE ReplaceIn(r[i - 1], q[i], v, w)]
    BY <2>2, Zenon
  <2>4. QED
    BY <2>1, <2>3, Zenon
<1>8. run = [i \in 0..n |-> IF i = 0 THEN s ELSE ReplaceIn(run[i - 1], q[i], v, w)]
  <2>1. \E g : Eq(g)
    BY <1>7, Zenon
  <2>2. Eq(run)
    <3> HIDE DEF Eq
    <3> QED BY <2>1, Zenon
  <2>3. QED
    BY <2>2, Zenon
<1> HIDE DEF run, Eq
<1>9. \A i \in 0..n : run[i] = IF i = 0 THEN s ELSE ReplaceIn(run[i - 1], q[i], v, w)
  BY <1>8, Zenon
<1>10. 0 \in 0..n /\ n \in 0..n /\ \A i \in 1..n : i \in 0..n /\ i # 0
  BY <1>2
<1>11. run[0] \in J[0] /\ Rounds(J, run, n)
  BY <1>3, <1>4, <1>9, <1>10, Zenon DEF Rounds
<1>12. run[n] \in J[n]
  BY <1>2, <1>10, <1>11, RoundsHold, Zenon
<1>13. QED
  BY <1>1, <1>10, <1>12 DEF J, n
-----------------------------------------------------------------------------
(***************************************************************************)
(* Varnodes and ops go.                                                    *)
(***************************************************************************)

\* Slots hold what they held, but for those that held v.
Kept(s, t, v) ==
    \A x \in Op : /\ Len(t.inrefs[x]) = Len(s.inrefs[x])
                  /\ \A j \in 1..Len(s.inrefs[x]) :
                         t.inrefs[x][j] = s.inrefs[x][j] \/ s.inrefs[x][j] = v

\* t is s after some readers of v have been unset.
Cleared(s, t, v) == Inv(t) /\ Rewired(s, t) /\ t.abort = s.abort /\ Kept(s, t, v)

\* The body of the loop of destroy_varnode.
UnsetIn(s, u, o, v) ==
    IF Slot(s, o, v) = 0 THEN u ELSE OpUnsetInput(u, o, Slot(s, o, v))

\* One round of destroy_varnode over the readers.
LEMMA UnsetNext ==
    ASSUME NEW s, Inv(s), NEW v \in Vn, NEW o \in Op, NEW u, Cleared(s, u, v)
    PROVE  Cleared(s, UnsetIn(s, u, o, v), v)
<1>1. PICK k : k = Slot(s, o, v)
  OBVIOUS
<1>2. PICK q : q = s.inrefs[o]
  OBVIOUS
<1>3. q \in Seq(Entries) /\ k = First(q, v)
  BY <1>1, <1>2, ListType DEF Slot, First
<1>4. k # 0 => k \in 1..Len(q) /\ q[k] = v
  BY <1>3, FirstFacts
<1>5. CASE k = 0
  BY <1>1, <1>5 DEF UnsetIn
<1>6. CASE k # 0
  <2>1. Inv(u) /\ Rewired(s, u) /\ u.abort = s.abort /\ Kept(s, u, v)
    BY DEF Cleared
  <2>2. k \in 1..Len(u.inrefs[o]) /\ q[k] = v
    BY <1>2, <1>4, <1>6, <2>1 DEF Kept
  <2>3. PICK t : t = OpUnsetInput(u, o, k)
    OBVIOUS
  <2>4. /\ Inv(t) /\ Bank(t) = Bank(u) /\ Rewired(u, t) /\ t.abort = u.abort
        /\ t.inrefs[o] = Updated(u.inrefs[o], k, Null)
        /\ \A x \in Op \ {o} : t.inrefs[x] = u.inrefs[x]
        /\ \A x \in Op : Len(t.inrefs[x]) = Len(u.inrefs[x])
        /\ \A x \in Vn : u.descend[x] = <<>> => t.descend[x] = <<>>
    BY <2>1, <2>2, <2>3, UnsetInput
  <2>5. \A j \in 1..Len(u.inrefs[o]) : j # k => t.inrefs[o][j] = u.inrefs[o][j]
    <3>1. PICK p : p = u.inrefs[o]
      OBVIOUS
    <3>2. PICK z : z = Null
      OBVIOUS
    <3>3. p \in Seq(Entries) /\ k \in 1..Len(p) /\ z \in Entries
      BY <2>1, <2>2, <3>1, <3>2, ListType, Constants
    <3>4. \A j \in 1..Len(p) : j # k => Updated(p, k, z)[j] = p[j]
      BY <3>3 DEF Updated
    <3>5. QED
      BY <2>4, <3>1, <3>2, <3>4
  <2>6. Kept(s, t, v)
    <3>1. ASSUME NEW x \in Op, NEW j \in 1..Len(s.inrefs[x])
          PROVE  t.inrefs[x][j] = s.inrefs[x][j] \/ s.inrefs[x][j] = v
      <4>1. u.inrefs[x][j] = s.inrefs[x][j] \/ s.inrefs[x][j] = v
        BY <2>1 DEF Kept
      <4>2. CASE x # o
        BY <2>4, <4>1, <4>2
      <4>3. CASE x = o /\ j = k
        BY <1>2, <2>2, <4>3
      <4>4. CASE x = o /\ j # k
        <5>1. j \in 1..Len(u.inrefs[o])
          BY <2>1, <4>4 DEF Kept
        <5>2. QED
          BY <2>5, <4>1, <4>4, <5>1
      <4>5. QED
        BY <4>2, <4>3, <4>4
    <3>2. \A x \in Op : Len(t.inrefs[x]) = Len(s.inrefs[x])
      BY <2>1, <2>4 DEF Kept
    <3>3. QED
      BY <3>1, <3>2 DEF Kept
  <2>7. Rewired(s, t) /\ t.abort = s.abort
    BY <2>1, <2>4 DEF Rewired
  <2>8. UnsetIn(s, u, o, v) = t
    BY <1>1, <1>6, <2>3 DEF UnsetIn
  <2>9. QED
    BY <2>4, <2>6, <2>7, <2>8 DEF Cleared
<1>7. QED
  BY <1>5, <1>6

UnsetAll(s, v) ==
    LET q == s.descend[v]
        Unset(u, n) == UnsetIn(s, u, q[n], v)
    IN  Repeat(Len(q), s, Unset)

\* All readers' slots are unset.
LEMMA UnsetAllInv ==
    ASSUME NEW s, Inv(s), NEW v \in Vn
    PROVE  Cleared(s, UnsetAll(s, v), v)
<1> DEFINE q == s.descend[v]
<1>q. q \in Seq(Op)
  BY ListType
<1> DEFINE n == Len(q)
           Eq(r) == r = [i \in 0..n |-> IF i = 0 THEN s ELSE UnsetIn(s, r[i - 1], q[i], v)]
           run == CHOOSE r : Eq(r)
           J == [i \in 0..n |-> {t \in State : Cleared(s, t, v)}]
           step == [p \in State \X (1..n) |-> UnsetIn(s, p[1], q[p[2]], v)]
<1>1. UnsetAll(s, v) = run[n]
  BY DEF UnsetAll, Repeat
<1>2. n \in Nat
  BY <1>q
<1>3. s \in J[0]
  <2>1. 0 \in 0..n
    BY <1>2
  <2>2. s \in State /\ Cleared(s, s, v)
    BY DEF Inv, Cleared, Kept, Rewired
  <2>3. QED
    BY <2>1, <2>2
<1>4. ASSUME NEW i \in 1..n, NEW t \in J[i - 1]
      PROVE  /\ UnsetIn(s, t, q[i], v) \in J[i]
             /\ step[<<t, i>>] = UnsetIn(s, t, q[i], v)
  <2>1. i - 1 \in 0..n /\ i \in 0..n
    BY <1>2
  <2>2. t \in {u \in State : Cleared(s, u, v)}
    BY <2>1
  <2>3. Cleared(s, t, v) /\ q[i] \in Op
    BY <1>q, <1>2, <2>2
  <2>4. Cleared(s, UnsetIn(s, t, q[i], v), v)
    BY <2>3, UnsetNext
  <2>9. UnsetIn(s, t, q[i], v) \in {u \in State : Cleared(s, u, v)}
    BY <2>4 DEF Cleared, Inv
  <2>10. t \in State
    BY <2>2
  <2>11. QED
    BY <2>1, <2>9, <2>10
<1> HIDE DEF J, step, n
<1>5. PICK r : IsLoop(r, n, s, step) /\ \A i \in 0..n : r[i] \in J[i]
  BY <1>2, <1>3, <1>4, LoopRuns
<1>6. \A i \in 0..n : i # 0 => i \in 1..n /\ i - 1 \in 0..n
  BY <1>2
<1>7. r = [i \in 0..n |-> IF i = 0 THEN s ELSE UnsetIn(s, r[i - 1], q[i], v)]
  <2>1. r = [i \in 0..n |-> IF i = 0 THEN s ELSE step[<<r[i - 1], i>>]]
    BY <1>5, Zenon DEF IsLoop
  <2>2. \A i \in 0..n : i # 0 => step[<<r[i - 1], i>>] = UnsetIn(s, r[i - 1], q[i], v)
    BY <1>4, <1>5, <1>6, Zenon
  <2>3. [i \in 0..n |-> IF i = 0 THEN s ELSE step[<<r[i - 1], i>>]]
            = [i \in 0..n |-> IF i = 0 THEN s ELSE UnsetIn(s, r[i - 1], q[i], v)]
    BY <2>2, Zenon
  <2>4. QED
    BY <2>1, <2>3, Zenon
<1>8. run = [i \in 0..n |-> IF i = 0 THEN s ELSE UnsetIn(s, run[i - 1], q[i], v)]
  <2>1. \E g : Eq(g)
    BY <1>7, Zenon
  <2>2. Eq(run)
    <3> HIDE DEF Eq
    <3> QED BY <2>1, Zenon
  <2>3. QED
    BY <2>2, Zenon
<1> HIDE DEF run, Eq
<1>9. \A i \in 0..n : run[i] = IF i = 0 THEN s ELSE UnsetIn(s, run[i - 1], q[i], v)
  BY <1>8, Zenon
<1>10. 0 \in 0..n /\ n \in 0..n /\ \A i \in 1..n : i \in 0..n /\ i # 0
  BY <1>2
<1>11. run[0] \in J[0] /\ Rounds(J, run, n)
  BY <1>3, <1>4, <1>9, <1>10, Zenon DEF Rounds
<1>12. run[n] \in J[n]
  BY <1>2, <1>10, <1>11, RoundsHold, Zenon
<1>13. QED
  BY <1>1, <1>10, <1>12 DEF J, n

\* A varnode gives up its writer.
Unwritten(s, v) == IF s.def[v] # NoOp THEN OpUnsetOutput(s, s.def[v]) ELSE s

\* Then the writer is.
LEMMA UnwrittenInv ==
    ASSUME NEW t, Inv(t), NEW v \in Bank(t), NEW u, u = Unwritten(t, v)
    PROVE  /\ Inv(u) /\ Bank(u) = Bank(t) /\ u.abort = t.abort /\ u.dead = t.dead
           /\ u.inrefs = t.inrefs /\ u.made = t.made /\ NotOut(u, v)
<1>1. /\ t \in State /\ v \in Vn /\ t.def[v] \in Op \cup {NoOp} /\ Null \notin Vn
      /\ NoOp \notin Op
  <2>1. t \in State
    BY DEF Inv
  <2>2. v \in Vn
    BY BankEntry
  <2>3. QED
    BY <2>1, <2>2, StateType, Constants
<1>2. CASE t.def[v] # NoOp
  <2>1. PICK x : x = t.def[v]
    OBVIOUS
  <2>2. x \in Op /\ u = OpUnsetOutput(t, x)
    BY <1>1, <1>2, <2>1 DEF Unwritten
  <2>3. OutputUnset(t, u, x)
    BY <2>2, UnsetOutput
  <2>4. /\ Inv(u) /\ Bank(u) = Bank(t) /\ u.abort = t.abort /\ u.dead = t.dead
        /\ u.inrefs = t.inrefs /\ u.made = t.made
    BY <2>3 DEF OutputUnset
  <2>5. u.state[v] # "written"
    <3>1. t.state[v] = "written" => t.output[x] = v
      BY <2>1, <2>2 DEF Inv, Writes
    <3>2. v # t.output[x] => u.state[v] = t.state[v]
      BY <1>1, <2>3 DEF OutputUnset
    <3>3. t.output[x] # Null => u.state[t.output[x]] = "free"
      BY <2>3 DEF OutputUnset
    <3>4. CASE v = t.output[x]
      <4>1. u.state[v] = "free"
        BY <1>1, <3>3, <3>4
      <4>2. QED
        BY <4>1
    <3>5. QED
      BY <3>1, <3>2, <3>4
  <2>6. NotOut(u, v)
    BY <2>4, <2>5 DEF Inv, Writes, NotOut
  <2>7. QED
    BY <2>4, <2>6
<1>3. CASE t.def[v] = NoOp
  <2>1. u = t
    BY <1>3 DEF Unwritten
  <2>2. t.state[v] # "written"
    BY <1>1, <1>3 DEF Inv, Writer
  <2>3. NotOut(t, v)
    BY <2>2 DEF Inv, Writes, NotOut
  <2>4. QED
    BY <2>1, <2>3
<1>4. QED
  BY <1>2, <1>3

\* A varnode leaves the bank and forgets its readers.
LEMMA VanishInv ==
    ASSUME NEW d, Inv(d), NEW v \in Bank(d), NotOut(d, v),
           NEW r, r = Erase(DestroyDescend(d, v), v)
    PROVE  /\ Inv(r) /\ Bank(r) = Bank(d) \ {v} /\ r.inrefs = d.inrefs
           /\ r.abort = d.abort /\ r.dead = d.dead
<1>1. d \in State /\ v \in Vn /\ v < d.made
  BY BankEntry DEF Inv
<1>2. PICK e : e = Erase(d, v)
  OBVIOUS
<1>3. /\ Inv(e) /\ Refiled(d, e, v) /\ Bank(e) = Bank(d) \ {v}
  <2>1. InvBut(d, v)
    BY NotOutBut
  <2>2. QED
    BY <1>1, <1>2, <2>1, EraseInv
<1>4. PICK f : f = [d.descend EXCEPT ![v] = <<>>]
  OBVIOUS
<1>5. /\ f \in [Vn -> Seq(Op)] /\ f[v] = <<>> /\ \A x \in Vn : x # v => f[x] = d.descend[x]
  BY <1>1, <1>4, StateType
<1>6. DestroyDescend(d, v) = [d EXCEPT !.descend = f]
  BY <1>4 DEF DestroyDescend
<1>7. PICK g : g = [d EXCEPT !.descend = f]
  OBVIOUS
<1>8. /\ g \in State /\ g.loc = d.loc /\ g.state = d.state /\ g.def = d.def
      /\ g.key = d.key /\ g.tree = d.tree
  BY <1>1, <1>5, <1>7 DEF State
<1>11. /\ Rewired(e, r) /\ r.inrefs = e.inrefs /\ r.descend = f /\ r.abort = e.abort
  <2>1. \A x : KeyOf(g, x) = KeyOf(d, x)
    BY <1>8 DEF KeyOf, IsFree
  <2>2. Canon(g)
    BY <1>8, <2>1 DEF Inv, Canon
  <2>3. r = Erase(g, v)
    BY <1>6, <1>7
  <2>4. /\ Refiled(g, r, v) /\ r.state = g.state /\ r.def = g.def
        /\ r.key = g.key /\ r.output = g.output
        /\ r.tree = {x \in g.tree : x[2] # v}
    BY <1>1, <1>8, <2>2, <2>3, EraseFields
  <2>5. /\ e.state = d.state /\ e.def = d.def /\ e.key = d.key /\ e.output = d.output
        /\ e.tree = {x \in d.tree : x[2] # v}
    <3>1. Canon(d)
      BY DEF Inv
    <3>2. QED
      BY <1>1, <1>2, <3>1, EraseFields
  <2>6. g.descend = f /\ g.inrefs = d.inrefs /\ g.made = d.made /\ g.dead = d.dead
        /\ g.abort = d.abort /\ g.output = d.output
    BY <1>1, <1>7 DEF State
  <2>7. QED
    BY <1>3, <1>8, <2>4, <2>5, <2>6 DEF Rewired, Refiled
<1>12. Bank(r) = Bank(e)
  BY <1>11, BankSame DEF Rewired
<1>13. Reads(r)
  <2>1. ASSUME NEW x \in Bank(e) PROVE ReadsOf(r, x)
    <3>1. x \in Vn /\ x # v
      BY <1>3, <2>1, BankEntry
    <3>2. r.descend[x] = e.descend[x]
      BY <1>3, <1>5, <1>11, <3>1 DEF Refiled
    <3>3. QED
      BY <1>3, <1>11, <2>1, <3>2 DEF Inv, Reads, ReadsOf
  <2>2. QED
    BY <1>12, <2>1 DEF Reads
<1>14. Short(r)
  BY <1>3, <1>11 DEF Inv, Short
<1>15. \A x \in Vn : x >= e.made =>
           r.descend[x] = <<>> /\ \A y \in Op : Count(r.inrefs[y], x) = 0
  <2> TAKE x \in Vn
  <2> HAVE x >= e.made
  <2>1. e.descend[x] = <<>> /\ \A y \in Op : Count(e.inrefs[y], x) = 0
    BY <1>3 DEF Inv, Young
  <2>2. r.descend[x] = <<>>
    BY <1>3, <1>5, <1>11, <2>1 DEF Refiled
  <2>3. QED
    BY <1>11, <2>1, <2>2
<1>16. Inv(r)
  <2>1. PICK u : u = r
    OBVIOUS
  <2>2. /\ Inv(e) /\ Rewired(e, u) /\ Reads(u) /\ Short(u)
        /\ \A x \in Vn : x >= e.made =>
               u.descend[x] = <<>> /\ \A y \in Op : Count(u.inrefs[y], x) = 0
    BY <1>3, <1>11, <1>13, <1>14, <1>15, <2>1
  <2>3. Inv(u)
    BY <2>2, Rewire
  <2>4. QED
    BY <2>1, <2>3
<1>17. QED
  BY <1>3, <1>11, <1>12, <1>16 DEF Rewired, Refiled

\* destroy_varnode: v is gone, and read nowhere.
Destroyed(s, t, v) ==
    /\ Inv(t) /\ Bank(t) = Bank(s) \ {v} /\ t.abort = s.abort /\ t.dead = s.dead
    /\ Kept(s, t, v)

\* destroy_varnode, whole.
LEMMA DestroyVarnodeInv ==
    ASSUME NEW s, Inv(s), NEW v \in Bank(s)
    PROVE  Destroyed(s, DestroyVarnode(s, v), v)
<1>1. v \in Vn
  BY BankEntry
<1>2. PICK t : t = UnsetAll(s, v)
  OBVIOUS
<1>3. Inv(t) /\ Rewired(s, t) /\ t.abort = s.abort /\ Kept(s, t, v)
  BY <1>1, <1>2, UnsetAllInv DEF Cleared
<1>4. Bank(t) = Bank(s)
  BY <1>3, BankSame DEF Rewired
<1>5. PICK d : d = Unwritten(t, v)
  OBVIOUS
<1>6. /\ Inv(d) /\ Bank(d) = Bank(t) /\ d.abort = t.abort /\ d.dead = t.dead
      /\ d.inrefs = t.inrefs /\ d.made = t.made /\ NotOut(d, v)
  BY <1>3, <1>4, <1>5, UnwrittenInv
<1>7. DestroyVarnode(s, v) = Erase(DestroyDescend(d, v), v)
  BY <1>2, <1>5 DEF DestroyVarnode, UnsetAll, UnsetIn, Unwritten
<1>8. PICK r : r = Erase(DestroyDescend(d, v), v)
  OBVIOUS
<1>9. /\ Inv(r) /\ Bank(r) = Bank(d) \ {v} /\ r.inrefs = d.inrefs
      /\ r.abort = d.abort /\ r.dead = d.dead
  BY <1>4, <1>6, <1>8, VanishInv
<1>10. QED
  BY <1>3, <1>4, <1>6, <1>7, <1>8, <1>9 DEF Destroyed, Kept, Rewired

WithDead(s, o) == [s EXCEPT !.dead = @ \cup {o}]

\* op_mark_dead changes no link.
LEMMA DeadInv ==
    ASSUME NEW s, Inv(s), NEW o \in Op, NEW t, t = WithDead(s, o)
    PROVE  Inv(t) /\ Bank(t) = Bank(s) /\ t.abort = s.abort
<1>1. s \in State
  BY DEF Inv
<1>2. PICK d : d = s.dead \cup {o}
  OBVIOUS
<1>3. d \in SUBSET Op
  BY <1>1, <1>2, StateType
<1>4. t = [s EXCEPT !.dead = d]
  BY <1>2 DEF WithDead
<1>5. /\ t \in State /\ t.loc = s.loc /\ t.state = s.state /\ t.def = s.def
      /\ t.descend = s.descend /\ t.key = s.key /\ t.tree = s.tree /\ t.made = s.made
      /\ t.inrefs = s.inrefs /\ t.output = s.output /\ t.abort = s.abort
  BY <1>1, <1>3, <1>4 DEF State
<1>6. Bank(t) = Bank(s)
  BY <1>5, BankSame
<1>7. \A x : KeyOf(t, x) = KeyOf(s, x)
  BY <1>5 DEF KeyOf, IsFree
<1>8. Canon(t) /\ Young(t) /\ Writer(t) /\ Short(t)
  BY <1>5, <1>7 DEF Inv, Canon, Young, Writer, Short
<1>9. Reads(t) /\ Writes(t)
  BY <1>5, <1>6 DEF Inv, Reads, ReadsOf, Writes
<1>10. QED
  BY <1>5, <1>6, <1>8, <1>9 DEF Inv

\* op_destroy.
LEMMA OpDestroyInv ==
    ASSUME NEW s, Inv(s), NEW o \in Op
    PROVE  Inv(OpDestroy(s, o)) /\ OpDestroy(s, o).abort = s.abort
<1>1. PICK t : t = IF s.output[o] # Null THEN DestroyVarnode(s, s.output[o]) ELSE s
  OBVIOUS
<1>2. Inv(t) /\ t.abort = s.abort
  <2>1. CASE s.output[o] # Null
    <3>1. s.output[o] \in Bank(s)
      BY <2>1 DEF Inv, Writes
    <3>2. Destroyed(s, DestroyVarnode(s, s.output[o]), s.output[o])
      BY <3>1, DestroyVarnodeInv
    <3>3. QED
      BY <1>1, <2>1, <3>2 DEF Destroyed
  <2>2. CASE s.output[o] = Null
    BY <1>1, <2>2
  <2>3. QED
    BY <2>1, <2>2
<1>3. PICK u : u = OpUnsetInputs(t, o)
  OBVIOUS
<1>4. Inv(u) /\ u.abort = t.abort
  BY <1>2, <1>3, UnsetInputs DEF Emptied
<1>5. OpDestroy(s, o) = WithDead(u, o)
  BY <1>1, <1>3 DEF OpDestroy, WithDead
<1>6. PICK r : r = WithDead(u, o)
  OBVIOUS
<1>7. Inv(r) /\ Bank(r) = Bank(u) /\ r.abort = u.abort
  BY <1>4, <1>6, DeadInv
<1>8. QED
  BY <1>2, <1>4, <1>5, <1>6, <1>7

\* op_unlink.
LEMMA OpUnlinkInv ==
    ASSUME NEW s, Inv(s), NEW o \in Op
    PROVE  Inv(OpUnlink(s, o)) /\ OpUnlink(s, o).abort = s.abort
<1>1. PICK t : t = OpUnsetOutput(s, o)
  OBVIOUS
<1>2. Inv(t) /\ t.abort = s.abort
  <2>1. OutputUnset(s, OpUnsetOutput(s, o), o)
    BY UnsetOutput
  <2>2. OutputUnset(s, t, o)
    BY <1>1, <2>1
  <2>3. QED
    BY <2>2 DEF OutputUnset
<1>3. PICK u : u = OpUnsetInputs(t, o)
  OBVIOUS
<1>4. Inv(u) /\ u.abort = t.abort
  BY <1>2, <1>3, UnsetInputs DEF Emptied
<1>5. QED
  BY <1>1, <1>2, <1>3, <1>4 DEF OpUnlink

\* The varnodes whose writers Unread lists.
Lone(s, v) == /\ v # Null /\ s.state[v] = "written"
              /\ Len(s.descend[v]) = 1 /\ s.def[v] \notin Pinned

LoneIn(s, ops, v) == IF Lone(s, v) THEN Append(ops, s.def[v]) ELSE ops

\* The writers Unread lists are ops.
LEMMA UnreadType ==
    ASSUME NEW s, Inv(s), NEW o \in Op
    PROVE  Unread(s, o) \in Seq(Op)
<1> DEFINE q == s.inrefs[o]
<1>q. q \in Seq(Entries)
  BY ListType
<1> DEFINE n == Len(q)
           Eq(r) == r = [i \in 0..n |-> IF i = 0 THEN <<>> ELSE LoneIn(s, r[i - 1], q[i])]
           run == CHOOSE r : Eq(r)
           J == [i \in 0..n |-> {t \in Seq(Op) : TRUE}]
           step == [p \in Seq(Op) \X (1..n) |-> LoneIn(s, p[1], q[p[2]])]
<1>1. Unread(s, o) = run[n]
  BY DEF Unread, Repeat, LoneIn, Lone
<1>2. n \in Nat
  BY <1>q
<1>3. <<>> \in J[0]
  <2>1. 0 \in 0..n
    BY <1>2
  <2>2. <<>> \in Seq(Op)
    OBVIOUS
  <2>3. QED
    BY <2>1, <2>2
<1>4. ASSUME NEW i \in 1..n, NEW t \in J[i - 1]
      PROVE  /\ LoneIn(s, t, q[i]) \in J[i]
             /\ step[<<t, i>>] = LoneIn(s, t, q[i])
  <2>1. i - 1 \in 0..n /\ i \in 0..n
    BY <1>2
  <2>2. t \in {u \in Seq(Op) : TRUE}
    BY <2>1
  <2>3. t \in Seq(Op) /\ q[i] \in Entries
    BY <1>q, <1>2, <2>2
  <2>4. Lone(s, q[i]) => s.def[q[i]] \in Op
    BY <2>3 DEF Lone, Inv, Writer, Entries
  <2>5. LoneIn(s, t, q[i]) \in Seq(Op)
    BY <2>3, <2>4 DEF LoneIn
  <2>9. LoneIn(s, t, q[i]) \in {u \in Seq(Op) : TRUE}
    BY <2>5
  <2>10. t \in Seq(Op)
    BY <2>2
  <2>11. QED
    BY <2>1, <2>9, <2>10
<1> HIDE DEF J, step, n
<1>5. PICK r : IsLoop(r, n, <<>>, step) /\ \A i \in 0..n : r[i] \in J[i]
  BY <1>2, <1>3, <1>4, LoopRuns
<1>6. \A i \in 0..n : i # 0 => i \in 1..n /\ i - 1 \in 0..n
  BY <1>2
<1>7. r = [i \in 0..n |-> IF i = 0 THEN <<>> ELSE LoneIn(s, r[i - 1], q[i])]
  <2>1. r = [i \in 0..n |-> IF i = 0 THEN <<>> ELSE step[<<r[i - 1], i>>]]
    BY <1>5, Zenon DEF IsLoop
  <2>2. \A i \in 0..n : i # 0 => step[<<r[i - 1], i>>] = LoneIn(s, r[i - 1], q[i])
    BY <1>4, <1>5, <1>6, Zenon
  <2>3. [i \in 0..n |-> IF i = 0 THEN <<>> ELSE step[<<r[i - 1], i>>]]
            = [i \in 0..n |-> IF i = 0 THEN <<>> ELSE LoneIn(s, r[i - 1], q[i])]
    BY <2>2, Zenon
  <2>4. QED
    BY <2>1, <2>3, Zenon
<1>8. run = [i \in 0..n |-> IF i = 0 THEN <<>> ELSE LoneIn(s, run[i - 1], q[i])]
  <2>1. \E g : Eq(g)
    BY <1>7, Zenon
  <2>2. Eq(run)
    <3> HIDE DEF Eq
    <3> QED BY <2>1, Zenon
  <2>3. QED
    BY <2>2, Zenon
<1> HIDE DEF run, Eq
<1>9. \A i \in 0..n : run[i] = IF i = 0 THEN <<>> ELSE LoneIn(s, run[i - 1], q[i])
  BY <1>8, Zenon
<1>10. 0 \in 0..n /\ n \in 0..n /\ \A i \in 1..n : i \in 0..n /\ i # 0
  BY <1>2
<1>11. run[0] \in J[0] /\ Rounds(J, run, n)
  BY <1>3, <1>4, <1>9, <1>10, Zenon DEF Rounds
<1>12. run[n] \in J[n]
  BY <1>2, <1>10, <1>11, RoundsHold, Zenon
<1>13. QED
  BY <1>1, <1>10, <1>12 DEF J, n

\* The state and the worklist of a recursive destruction.
Walked(s, p) ==
    /\ p \in State \X Seq(Op) /\ Inv(p[1]) /\ p[1].abort = s.abort

\* The body of the loop of op_destroy_recursive.
WalkOn(p, n) ==
    IF n > Len(p[2]) THEN p
    ELSE <<OpDestroy(p[1], p[2][n]), p[2] \o Unread(p[1], p[2][n])>>

\* One round of op_destroy_recursive.
LEMMA WalkNext ==
    ASSUME NEW s, NEW p, Walked(s, p), NEW n \in Nat \ {0}
    PROVE  Walked(s, WalkOn(p, n))
<1>1. PICK t, q : t = p[1] /\ q = p[2]
  OBVIOUS
<1>2. t \in State /\ q \in Seq(Op) /\ Inv(t) /\ t.abort = s.abort
  BY <1>1 DEF Walked
<1>3. CASE n > Len(q)
  BY <1>1, <1>3 DEF WalkOn
<1>4. CASE ~(n > Len(q))
  <2>1. n \in 1..Len(q) /\ q[n] \in Op
    BY <1>2, <1>4
  <2>2. PICK o : o = q[n]
    OBVIOUS
  <2>3. PICK u : u = OpDestroy(t, o)
    OBVIOUS
  <2>4. Inv(u) /\ u.abort = t.abort
    BY <1>2, <2>1, <2>2, <2>3, OpDestroyInv
  <2>5. PICK r : r = Unread(t, o)
    OBVIOUS
  <2>6. r \in Seq(Op)
    BY <1>2, <2>1, <2>2, <2>5, UnreadType
  <2>7. q \o r \in Seq(Op)
    BY <1>2, <2>6
  <2>8. WalkOn(p, n) = <<u, q \o r>>
    BY <1>1, <1>4, <2>2, <2>3, <2>5 DEF WalkOn
  <2>9. u \in State
    BY <2>4 DEF Inv
  <2>10. PICK w : w = q \o r
    OBVIOUS
  <2>11. PICK z : z = <<u, w>>
    OBVIOUS
  <2>12. z \in State \X Seq(Op) /\ z[1] = u
    BY <2>7, <2>9, <2>10, <2>11
  <2>13. Walked(s, z)
    BY <1>2, <2>4, <2>12 DEF Walked
  <2>14. WalkOn(p, n) = z
    BY <2>8, <2>10, <2>11
  <2>15. QED
    BY <2>13, <2>14
<1>5. QED
  BY <1>3, <1>4

\* op_destroy_recursive.
LEMMA RecursiveInv ==
    ASSUME NEW s, Inv(s), NEW o \in Op
    PROVE  Inv(OpDestroyRecursive(s, o)) /\ OpDestroyRecursive(s, o).abort = s.abort
<1>p. PICK p : p = <<s, <<o>>>>
  OBVIOUS
<1>c. Cardinality(Op) \in Nat
  BY Constants, FS_CardinalityType
<1> DEFINE n == 2 * Cardinality(Op) + 1
           Eq(r) == r = [i \in 0..n |-> IF i = 0 THEN p ELSE WalkOn(r[i - 1], i)]
           run == CHOOSE r : Eq(r)
           J == [i \in 0..n |-> {t \in State \X Seq(Op) : Walked(s, t)}]
           step == [z \in (State \X Seq(Op)) \X (1..n) |-> WalkOn(z[1], z[2])]
<1>1. OpDestroyRecursive(s, o) = run[n][1]
  BY <1>p DEF OpDestroyRecursive, Repeat, WalkOn
<1>2. n \in Nat
  BY <1>c
<1>3. p \in J[0]
  <2>1. 0 \in 0..n
    BY <1>2
  <2>2. s \in State /\ <<o>> \in Seq(Op)
    BY DEF Inv
  <2>3. p \in State \X Seq(Op) /\ p[1] = s
    BY <1>p, <2>2
  <2>4. Walked(s, p)
    BY <2>3 DEF Walked
  <2>5. QED
    BY <2>1, <2>3, <2>4
<1>4. ASSUME NEW i \in 1..n, NEW t \in J[i - 1]
      PROVE  /\ WalkOn(t, i) \in J[i]
             /\ step[<<t, i>>] = WalkOn(t, i)
  <2>1. i - 1 \in 0..n /\ i \in 0..n
    BY <1>2
  <2>2. t \in {u \in State \X Seq(Op) : Walked(s, u)}
    BY <2>1
  <2>3. Walked(s, t) /\ i \in Nat \ {0}
    BY <1>2, <2>2
  <2>4. Walked(s, WalkOn(t, i))
    BY <2>3, WalkNext
  <2>9. WalkOn(t, i) \in {u \in State \X Seq(Op) : Walked(s, u)}
    BY <2>4 DEF Walked
  <2>10. t \in (State \X Seq(Op))
    BY <2>2
  <2>11. QED
    BY <2>1, <2>9, <2>10
<1> HIDE DEF J, step, n
<1>5. PICK r : IsLoop(r, n, p, step) /\ \A i \in 0..n : r[i] \in J[i]
  BY <1>2, <1>3, <1>4, LoopRuns
<1>6. \A i \in 0..n : i # 0 => i \in 1..n /\ i - 1 \in 0..n
  BY <1>2
<1>7. r = [i \in 0..n |-> IF i = 0 THEN p ELSE WalkOn(r[i - 1], i)]
  <2>1. r = [i \in 0..n |-> IF i = 0 THEN p ELSE step[<<r[i - 1], i>>]]
    BY <1>5, Zenon DEF IsLoop
  <2>2. \A i \in 0..n : i # 0 => step[<<r[i - 1], i>>] = WalkOn(r[i - 1], i)
    BY <1>4, <1>5, <1>6, Zenon
  <2>3. [i \in 0..n |-> IF i = 0 THEN p ELSE step[<<r[i - 1], i>>]]
            = [i \in 0..n |-> IF i = 0 THEN p ELSE WalkOn(r[i - 1], i)]
    BY <2>2, Zenon
  <2>4. QED
    BY <2>1, <2>3, Zenon
<1>8. run = [i \in 0..n |-> IF i = 0 THEN p ELSE WalkOn(run[i - 1], i)]
  <2>1. \E g : Eq(g)
    BY <1>7, Zenon
  <2>2. Eq(run)
    <3> HIDE DEF Eq
    <3> QED BY <2>1, Zenon
  <2>3. QED
    BY <2>2, Zenon
<1> HIDE DEF run, Eq
<1>9. \A i \in 0..n : run[i] = IF i = 0 THEN p ELSE WalkOn(run[i - 1], i)
  BY <1>8, Zenon
<1>10. 0 \in 0..n /\ n \in 0..n /\ \A i \in 1..n : i \in 0..n /\ i # 0
  BY <1>2
<1>11. run[0] \in J[0] /\ Rounds(J, run, n)
  BY <1>3, <1>4, <1>9, <1>10, Zenon DEF Rounds
<1>12. run[n] \in J[n]
  BY <1>2, <1>10, <1>11, RoundsHold, Zenon
<1>13. Walked(s, run[n])
  BY <1>10, <1>12 DEF J
<1>14. QED
  BY <1>1, <1>13 DEF Walked

\* op_destroy_raw is called for an op whose inputs nothing else reads or writes.
RawOp(s, o) ==
    \A i \in 1..Len(s.inrefs[o]) :
        s.inrefs[o][i] \in Bank(s) /\ s.descend[s.inrefs[o][i]] = <<o>>

\* t is s after the first k inputs of o have been destroyed.
RawUpTo(s, t, o, k) ==
    /\ Inv(t) /\ t.abort = s.abort /\ Len(t.inrefs[o]) = Len(s.inrefs[o])
    /\ \A j \in k + 1..Len(s.inrefs[o]) :
           t.inrefs[o][j] = s.inrefs[o][j] /\ s.inrefs[o][j] \in Bank(t)

\* The body of the loop of op_destroy_raw.
DestroyIn(t, o, i) == DestroyVarnode(t, t.inrefs[o][i])

\* One round of op_destroy_raw: the inputs still to come stay as they were.
LEMMA RawNext ==
    ASSUME NEW s, Inv(s), NEW o \in Op, RawOp(s, o), NEW i \in 1..Len(s.inrefs[o]),
           NEW t, RawUpTo(s, t, o, i - 1)
    PROVE  RawUpTo(s, DestroyIn(t, o, i), o, i)
<1>1. PICK q : q = s.inrefs[o]
  OBVIOUS
<1>2. q \in Seq(Entries) /\ i \in 1..Len(q) /\ Len(q) \in Nat
  BY <1>1, ListType
<1>3. PICK v : v = q[i]
  OBVIOUS
<1>4. /\ Inv(t) /\ t.abort = s.abort /\ Len(t.inrefs[o]) = Len(q)
      /\ \A j \in (i - 1) + 1..Len(q) : t.inrefs[o][j] = q[j] /\ q[j] \in Bank(t)
  BY <1>1 DEF RawUpTo
<1>5. t.inrefs[o][i] = v /\ v \in Bank(t)
  <2>1. i \in (i - 1) + 1..Len(q)
    BY <1>2
  <2>2. QED
    BY <1>3, <1>4, <2>1
<1>6. ASSUME NEW j \in i + 1..Len(q) PROVE q[j] # v
  <2>1. j \in 1..Len(q) /\ j # i
    BY <1>2
  <2>2. v \in Bank(s) /\ s.descend[v] = <<o>>
    BY <1>1, <1>2, <1>3 DEF RawOp
  <2>3. Count(<<o>>, o) = 1
    <3>1. <<o>> = Append(<<>>, o) /\ <<>> \in Seq(Op)
      OBVIOUS
    <3>2. PICK e : e = <<>>
      OBVIOUS
    <3>3. e \in Seq(Op) /\ Count(e, o) = 0
      BY <3>2, CountEmpty
    <3>4. \A x : Count(Append(e, o), x) = Count(e, x) + (IF o = x THEN 1 ELSE 0)
      BY <3>3, CountAppend
    <3>5. Count(Append(e, o), o) = 1
      BY <3>3, <3>4
    <3>6. QED
      BY <3>1, <3>2, <3>5
  <2>4. Count(q, v) = 1
    BY <1>1, <2>2, <2>3 DEF Inv, Reads, ReadsOf
  <2>5. ASSUME q[j] = q[i] PROVE FALSE
    <3>1. q[j] = q[i] /\ Count(q, q[j]) = 1
      BY <1>3, <2>4, <2>5
    <3>2. j = i
      BY <1>2, <2>1, <3>1, CountOnce
    <3>3. QED
      BY <2>1, <3>2
  <2>6. QED
    BY <1>3, <2>5
<1>7. PICK u : u = DestroyVarnode(t, v)
  OBVIOUS
<1>8. /\ Inv(u) /\ Bank(u) = Bank(t) \ {v} /\ u.abort = t.abort /\ Kept(t, u, v)
  BY <1>4, <1>5, <1>7, DestroyVarnodeInv DEF Destroyed
<1>9. ASSUME NEW j \in i + 1..Len(q) PROVE u.inrefs[o][j] = q[j] /\ q[j] \in Bank(u)
  <2>1. j \in (i - 1) + 1..Len(q) /\ j \in 1..Len(q)
    BY <1>2
  <2>2. t.inrefs[o][j] = q[j] /\ q[j] \in Bank(t) /\ q[j] # v
    BY <1>4, <1>6, <2>1
  <2>3. j \in 1..Len(t.inrefs[o])
    BY <1>4, <2>1
  <2>4. u.inrefs[o][j] = t.inrefs[o][j] \/ t.inrefs[o][j] = v
    BY <1>8, <2>3 DEF Kept
  <2>5. QED
    BY <1>8, <2>2, <2>4
<1>10. Len(u.inrefs[o]) = Len(q)
  BY <1>4, <1>8 DEF Kept
<1>11. DestroyIn(t, o, i) = u
  BY <1>5, <1>7 DEF DestroyIn
<1>12. QED
  BY <1>1, <1>4, <1>8, <1>9, <1>10, <1>11 DEF RawUpTo

RawInputs(s, o) ==
    LET Each(u, i) == DestroyIn(u, o, i) IN Repeat(Len(s.inrefs[o]), s, Each)

\* op_destroy_raw, the inputs.
LEMMA RawInputsInv ==
    ASSUME NEW s, Inv(s), NEW o \in Op, RawOp(s, o)
    PROVE  Inv(RawInputs(s, o)) /\ RawInputs(s, o).abort = s.abort
<1> DEFINE n == Len(s.inrefs[o])
           Eq(r) == r = [i \in 0..n |-> IF i = 0 THEN s ELSE DestroyIn(r[i - 1], o, i)]
           run == CHOOSE r : Eq(r)
           J == [i \in 0..n |-> {t \in State : RawUpTo(s, t, o, i)}]
           step == [p \in State \X (1..n) |-> DestroyIn(p[1], o, p[2])]
<1>1. RawInputs(s, o) = run[n]
  BY DEF RawInputs, Repeat
<1>2. n \in Nat
  BY ListType
<1>3. s \in J[0]
  <2>1. 0 \in 0..n /\ \A j \in 0 + 1..n : j \in 1..n
    BY <1>2
  <2>2. s \in State /\ RawUpTo(s, s, o, 0)
    BY <2>1 DEF Inv, RawUpTo, RawOp
  <2>3. QED
    BY <2>1, <2>2
<1>4. ASSUME NEW i \in 1..n, NEW t \in J[i - 1]
      PROVE  /\ DestroyIn(t, o, i) \in J[i]
             /\ step[<<t, i>>] = DestroyIn(t, o, i)
  <2>1. i - 1 \in 0..n /\ i \in 0..n
    BY <1>2
  <2>2. t \in {u \in State : RawUpTo(s, u, o, i - 1)}
    BY <2>1
  <2>3. RawUpTo(s, t, o, i - 1)
    BY <2>2
  <2>4. RawUpTo(s, DestroyIn(t, o, i), o, i)
    BY <2>3, RawNext
  <2>9. DestroyIn(t, o, i) \in {u \in State : RawUpTo(s, u, o, i)}
    BY <2>4 DEF RawUpTo, Inv
  <2>10. t \in State
    BY <2>2
  <2>11. QED
    BY <2>1, <2>9, <2>10
<1> HIDE DEF J, step, n
<1>5. PICK r : IsLoop(r, n, s, step) /\ \A i \in 0..n : r[i] \in J[i]
  BY <1>2, <1>3, <1>4, LoopRuns
<1>6. \A i \in 0..n : i # 0 => i \in 1..n /\ i - 1 \in 0..n
  BY <1>2
<1>7. r = [i \in 0..n |-> IF i = 0 THEN s ELSE DestroyIn(r[i - 1], o, i)]
  <2>1. r = [i \in 0..n |-> IF i = 0 THEN s ELSE step[<<r[i - 1], i>>]]
    BY <1>5, Zenon DEF IsLoop
  <2>2. \A i \in 0..n : i # 0 => step[<<r[i - 1], i>>] = DestroyIn(r[i - 1], o, i)
    BY <1>4, <1>5, <1>6, Zenon
  <2>3. [i \in 0..n |-> IF i = 0 THEN s ELSE step[<<r[i - 1], i>>]]
            = [i \in 0..n |-> IF i = 0 THEN s ELSE DestroyIn(r[i - 1], o, i)]
    BY <2>2, Zenon
  <2>4. QED
    BY <2>1, <2>3, Zenon
<1>8. run = [i \in 0..n |-> IF i = 0 THEN s ELSE DestroyIn(run[i - 1], o, i)]
  <2>1. \E g : Eq(g)
    BY <1>7, Zenon
  <2>2. Eq(run)
    <3> HIDE DEF Eq
    <3> QED BY <2>1, Zenon
  <2>3. QED
    BY <2>2, Zenon
<1> HIDE DEF run, Eq
<1>9. \A i \in 0..n : run[i] = IF i = 0 THEN s ELSE DestroyIn(run[i - 1], o, i)
  BY <1>8, Zenon
<1>10. 0 \in 0..n /\ n \in 0..n /\ \A i \in 1..n : i \in 0..n /\ i # 0
  BY <1>2
<1>11. run[0] \in J[0] /\ Rounds(J, run, n)
  BY <1>3, <1>4, <1>9, <1>10, Zenon DEF Rounds
<1>12. run[n] \in J[n]
  BY <1>2, <1>10, <1>11, RoundsHold, Zenon
<1>13. RawUpTo(s, run[n], o, n)
  BY <1>10, <1>12 DEF J
<1>14. QED
  BY <1>1, <1>13 DEF RawUpTo

\* op_destroy_raw.
LEMMA RawInv ==
    ASSUME NEW s, Inv(s), NEW o \in Op, RawOp(s, o)
    PROVE  Inv(OpDestroyRaw(s, o)) /\ OpDestroyRaw(s, o).abort = s.abort
<1>1. PICK t : t = RawInputs(s, o)
  OBVIOUS
<1>2. Inv(t) /\ t.abort = s.abort
  BY <1>1, RawInputsInv
<1>3. PICK d : d = IF t.output[o] # Null THEN DestroyVarnode(t, t.output[o]) ELSE t
  OBVIOUS
<1>4. Inv(d) /\ d.abort = t.abort
  <2>1. CASE t.output[o] # Null
    <3>1. t.output[o] \in Bank(t)
      BY <1>2, <2>1 DEF Inv, Writes
    <3>2. Destroyed(t, DestroyVarnode(t, t.output[o]), t.output[o])
      BY <1>2, <3>1, DestroyVarnodeInv
    <3>3. QED
      BY <1>3, <2>1, <3>2 DEF Destroyed
  <2>2. CASE t.output[o] = Null
    BY <1>2, <1>3, <2>2
  <2>3. QED
    BY <2>1, <2>2
<1>5. OpDestroyRaw(s, o) = WithDead(d, o)
  BY <1>1, <1>3 DEF OpDestroyRaw, RawInputs, DestroyIn, WithDead
<1>6. PICK r : r = WithDead(d, o)
  OBVIOUS
<1>7. Inv(r) /\ Bank(r) = Bank(d) /\ r.abort = d.abort
  BY <1>4, <1>6, DeadInv
<1>8. QED
  BY <1>2, <1>4, <1>5, <1>6, <1>7

\* SetToSeq lists the members.
LEMMA ListOfSet ==
    ASSUME NEW S, IsFiniteSet(S), NEW i \in 1..Cardinality(S)
    PROVE  SetToSeq(S)[i] \in S
<1> DEFINE n == Cardinality(S)
<1>1. ExistsBijection(1..n, S)
  BY FS_CardinalityType
<1>2. PICK f : f \in Bijection(1..n, S)
  BY <1>1 DEF ExistsBijection
<1>3. f \in [1..n -> S] /\ IsInjective(f)
  BY <1>2 DEF Bijection, Injection
<1>4. SetToSeq(S) \in [1..n -> S]
  BY <1>3 DEF SetToSeq
<1>5. QED
  BY <1>4

\* t is s after some of its inputs have been made free.
Freed(s, t) ==
    Inv(t) /\ t.abort = s.abort /\ Bank(t) = Bank(s) /\ t.output = s.output

FreeAll(s, vs) ==
    Repeat(Cardinality(vs), s, LAMBDA t, n : MakeFree(t, SetToSeq(vs)[n]))

\* One round of the freeing of unread inputs.
LEMMA FreeNext ==
    ASSUME NEW s, NEW v \in Bank(s), NotOut(s, v), NEW t, Freed(s, t)
    PROVE  Freed(s, MakeFree(t, v))
<1>1. Inv(t) /\ v \in Bank(t) /\ NotOut(t, v)
  BY DEF Freed, NotOut
<1>2. v \in Vn /\ v < t.made
  BY <1>1, BankEntry
<1>3. InvBut(t, v)
  BY <1>1, NotOutBut
<1>4. ReadsOf(t, v)
  BY <1>1 DEF Inv, Reads
<1>5. PICK u : u = MakeFree(t, v)
  OBVIOUS
<1>6. Inv(u) /\ Refiled(t, u, v) /\ u.output = t.output /\ Bank(u) = Bank(t) \cup {v}
  BY <1>2, <1>3, <1>4, <1>5, MakeFreeBut
<1>7. QED
  BY <1>1, <1>5, <1>6 DEF Freed, Refiled

\* Unread inputs are freed.
LEMMA FreeAllInv ==
    ASSUME NEW s, Inv(s), NEW vs \in SUBSET Bank(s), IsFiniteSet(vs),
           \A v \in vs : NotOut(s, v)
    PROVE  Freed(s, FreeAll(s, vs))
<1> DEFINE n == Cardinality(vs)
           Eq(r) == r = [i \in 0..n |-> IF i = 0 THEN s ELSE MakeFree(r[i - 1], SetToSeq(vs)[i])]
           run == CHOOSE r : Eq(r)
           J == [i \in 0..n |-> {t \in State : Freed(s, t)}]
           step == [p \in State \X (1..n) |-> MakeFree(p[1], SetToSeq(vs)[p[2]])]
<1>1. FreeAll(s, vs) = run[n]
  BY DEF FreeAll, Repeat
<1>2. n \in Nat
  BY FS_CardinalityType
<1>3. s \in J[0]
  <2>1. 0 \in 0..n
    BY <1>2
  <2>2. s \in State /\ Freed(s, s)
    BY DEF Inv, Freed
  <2>3. QED
    BY <2>1, <2>2
<1>4. ASSUME NEW i \in 1..n, NEW t \in J[i - 1]
      PROVE  /\ MakeFree(t, SetToSeq(vs)[i]) \in J[i]
             /\ step[<<t, i>>] = MakeFree(t, SetToSeq(vs)[i])
  <2>1. i - 1 \in 0..n /\ i \in 0..n
    BY <1>2
  <2>2. t \in {u \in State : Freed(s, u)}
    BY <2>1
  <2>3. Freed(s, t) /\ SetToSeq(vs)[i] \in vs
    BY <2>2, ListOfSet
  <2>4. PICK v : v = SetToSeq(vs)[i]
    OBVIOUS
  <2>5. Freed(s, MakeFree(t, v))
    BY <2>3, <2>4, FreeNext
  <2>9. MakeFree(t, SetToSeq(vs)[i]) \in {u \in State : Freed(s, u)}
    BY <2>4, <2>5 DEF Freed, Inv
  <2>10. t \in State
    BY <2>2
  <2>11. QED
    BY <2>1, <2>9, <2>10
<1> HIDE DEF J, step, n
<1>5. PICK r : IsLoop(r, n, s, step) /\ \A i \in 0..n : r[i] \in J[i]
  BY <1>2, <1>3, <1>4, LoopRuns
<1>6. \A i \in 0..n : i # 0 => i \in 1..n /\ i - 1 \in 0..n
  BY <1>2
<1>7. r = [i \in 0..n |-> IF i = 0 THEN s ELSE MakeFree(r[i - 1], SetToSeq(vs)[i])]
  <2>1. r = [i \in 0..n |-> IF i = 0 THEN s ELSE step[<<r[i - 1], i>>]]
    BY <1>5, Zenon DEF IsLoop
  <2>2. \A i \in 0..n : i # 0 => step[<<r[i - 1], i>>] = MakeFree(r[i - 1], SetToSeq(vs)[i])
    BY <1>4, <1>5, <1>6, Zenon
  <2>3. [i \in 0..n |-> IF i = 0 THEN s ELSE step[<<r[i - 1], i>>]]
            = [i \in 0..n |-> IF i = 0 THEN s ELSE MakeFree(r[i - 1], SetToSeq(vs)[i])]
    BY <2>2, Zenon
  <2>4. QED
    BY <2>1, <2>3, Zenon
<1>8. run = [i \in 0..n |-> IF i = 0 THEN s ELSE MakeFree(run[i - 1], SetToSeq(vs)[i])]
  <2>1. \E g : Eq(g)
    BY <1>7, Zenon
  <2>2. Eq(run)
    <3> HIDE DEF Eq
    <3> QED BY <2>1, Zenon
  <2>3. QED
    BY <2>2, Zenon
<1> HIDE DEF run, Eq
<1>9. \A i \in 0..n : run[i] = IF i = 0 THEN s ELSE MakeFree(run[i - 1], SetToSeq(vs)[i])
  BY <1>8, Zenon
<1>10. 0 \in 0..n /\ n \in 0..n /\ \A i \in 1..n : i \in 0..n /\ i # 0
  BY <1>2
<1>11. run[0] \in J[0] /\ Rounds(J, run, n)
  BY <1>3, <1>4, <1>9, <1>10, Zenon DEF Rounds
<1>12. run[n] \in J[n]
  BY <1>2, <1>10, <1>11, RoundsHold, Zenon
<1>13. QED
  BY <1>1, <1>10, <1>12 DEF J

\* t is s after some varnodes that no op writes have been erased.
Erased(s, t) ==
    Inv(t) /\ t.abort = s.abort /\ t.output = s.output

EraseAll(s, vs) ==
    Repeat(Cardinality(vs), s, LAMBDA t, n : Erase(t, SetToSeq(vs)[n]))

\* One round of the erasing of unread free varnodes.
LEMMA EraseNext ==
    ASSUME NEW s, NEW v \in Vn, NotOut(s, v), NEW t, Erased(s, t)
    PROVE  Erased(s, Erase(t, v))
<1>1. Inv(t) /\ NotOut(t, v)
  BY DEF Erased, NotOut
<1>2. InvBut(t, v)
  BY <1>1, NotOutBut
<1>3. PICK u : u = Erase(t, v)
  OBVIOUS
<1>4. Inv(u) /\ Refiled(t, u, v) /\ u.output = t.output
  BY <1>2, <1>3, EraseInv
<1>5. QED
  BY <1>3, <1>4 DEF Erased, Refiled

\* Unread free varnodes are erased.
LEMMA EraseAllInv ==
    ASSUME NEW s, Inv(s), NEW vs \in SUBSET Vn, IsFiniteSet(vs),
           \A v \in vs : NotOut(s, v)
    PROVE  Erased(s, EraseAll(s, vs))
<1> DEFINE n == Cardinality(vs)
           Eq(r) == r = [i \in 0..n |-> IF i = 0 THEN s ELSE Erase(r[i - 1], SetToSeq(vs)[i])]
           run == CHOOSE r : Eq(r)
           J == [i \in 0..n |-> {t \in State : Erased(s, t)}]
           step == [p \in State \X (1..n) |-> Erase(p[1], SetToSeq(vs)[p[2]])]
<1>1. EraseAll(s, vs) = run[n]
  BY DEF EraseAll, Repeat
<1>2. n \in Nat
  BY FS_CardinalityType
<1>3. s \in J[0]
  <2>1. 0 \in 0..n
    BY <1>2
  <2>2. s \in State /\ Erased(s, s)
    BY DEF Inv, Erased
  <2>3. QED
    BY <2>1, <2>2
<1>4. ASSUME NEW i \in 1..n, NEW t \in J[i - 1]
      PROVE  /\ Erase(t, SetToSeq(vs)[i]) \in J[i]
             /\ step[<<t, i>>] = Erase(t, SetToSeq(vs)[i])
  <2>1. i - 1 \in 0..n /\ i \in 0..n
    BY <1>2
  <2>2. t \in {u \in State : Erased(s, u)}
    BY <2>1
  <2>3. Erased(s, t) /\ SetToSeq(vs)[i] \in vs
    BY <2>2, ListOfSet
  <2>4. PICK v : v = SetToSeq(vs)[i]
    OBVIOUS
  <2>5. Erased(s, Erase(t, v))
    BY <2>3, <2>4, EraseNext
  <2>9. Erase(t, SetToSeq(vs)[i]) \in {u \in State : Erased(s, u)}
    BY <2>4, <2>5 DEF Erased, Inv
  <2>10. t \in State
    BY <2>2
  <2>11. QED
    BY <2>1, <2>9, <2>10
<1> HIDE DEF J, step, n
<1>5. PICK r : IsLoop(r, n, s, step) /\ \A i \in 0..n : r[i] \in J[i]
  BY <1>2, <1>3, <1>4, LoopRuns
<1>6. \A i \in 0..n : i # 0 => i \in 1..n /\ i - 1 \in 0..n
  BY <1>2
<1>7. r = [i \in 0..n |-> IF i = 0 THEN s ELSE Erase(r[i - 1], SetToSeq(vs)[i])]
  <2>1. r = [i \in 0..n |-> IF i = 0 THEN s ELSE step[<<r[i - 1], i>>]]
    BY <1>5, Zenon DEF IsLoop
  <2>2. \A i \in 0..n : i # 0 => step[<<r[i - 1], i>>] = Erase(r[i - 1], SetToSeq(vs)[i])
    BY <1>4, <1>5, <1>6, Zenon
  <2>3. [i \in 0..n |-> IF i = 0 THEN s ELSE step[<<r[i - 1], i>>]]
            = [i \in 0..n |-> IF i = 0 THEN s ELSE Erase(r[i - 1], SetToSeq(vs)[i])]
    BY <2>2, Zenon
  <2>4. QED
    BY <2>1, <2>3, Zenon
<1>8. run = [i \in 0..n |-> IF i = 0 THEN s ELSE Erase(run[i - 1], SetToSeq(vs)[i])]
  <2>1. \E g : Eq(g)
    BY <1>7, Zenon
  <2>2. Eq(run)
    <3> HIDE DEF Eq
    <3> QED BY <2>1, Zenon
  <2>3. QED
    BY <2>2, Zenon
<1> HIDE DEF run, Eq
<1>9. \A i \in 0..n : run[i] = IF i = 0 THEN s ELSE Erase(run[i - 1], SetToSeq(vs)[i])
  BY <1>8, Zenon
<1>10. 0 \in 0..n /\ n \in 0..n /\ \A i \in 1..n : i \in 0..n /\ i # 0
  BY <1>2
<1>11. run[0] \in J[0] /\ Rounds(J, run, n)
  BY <1>3, <1>4, <1>9, <1>10, Zenon DEF Rounds
<1>12. run[n] \in J[n]
  BY <1>2, <1>10, <1>11, RoundsHold, Zenon
<1>13. QED
  BY <1>1, <1>10, <1>12 DEF J

\* A varnode of the bank that is not written is no op's output.
LEMMA NotWritten ==
    ASSUME NEW s, Inv(s), NEW v \in Bank(s), s.state[v] # "written"
    PROVE  NotOut(s, v)
  BY DEF Inv, Writes, NotOut

\* clear_dead_varnodes.
LEMMA ClearDeadInv ==
    ASSUME NEW s, Inv(s)
    PROVE  Inv(ClearDeadVarnodes(s)) /\ ClearDeadVarnodes(s).abort = s.abort
<1> DEFINE un == {v \in Bank(s) : s.descend[v] = <<>>}
           vs == {v \in un : s.state[v] = "input" /\ s.loc[v] \notin Locked}
           f == FreeAll(s, vs)
           ws == {v \in un : IsFree(f, v)}
<1>4. ClearDeadVarnodes(s) = EraseAll(f, ws)
  BY DEF ClearDeadVarnodes, FreeAll, EraseAll
<1>1. /\ vs = {v \in un : s.state[v] = "input" /\ s.loc[v] \notin Locked}
      /\ f = FreeAll(s, vs) /\ ws = {v \in un : IsFree(f, v)}
  OBVIOUS
<1> HIDE DEF vs, f, ws
<1>5. IsFiniteSet(Vn) /\ Bank(s) \subseteq Vn
  BY Constants, FS_Interval, BankType DEF Vn, Inv
<1>6. vs \in SUBSET Bank(s) /\ IsFiniteSet(vs) /\ ws \in SUBSET Bank(s) /\ IsFiniteSet(ws)
  <2>1. vs \in SUBSET Bank(s) /\ ws \in SUBSET Bank(s)
    BY <1>1
  <2>2. vs \in SUBSET Vn /\ ws \in SUBSET Vn
    BY <1>5, <2>1
  <2>3. QED
    BY <1>5, <2>1, <2>2, FS_Subset
<1>7. \A v \in vs : NotOut(s, v)
  <2>1. \A v \in vs : v \in Bank(s) /\ s.state[v] # "written"
    BY <1>1
  <2>2. QED
    BY <2>1, NotWritten
<1>8. Freed(s, f)
  BY <1>1, <1>6, <1>7, FreeAllInv
<1>9. Inv(f) /\ f.abort = s.abort /\ ws \in SUBSET Vn
  BY <1>5, <1>6, <1>8 DEF Freed
<1>10. \A v \in ws : NotOut(f, v)
  <2>1. \A v \in ws : v \in Bank(f) /\ f.state[v] # "written"
    BY <1>1, <1>6, <1>8 DEF Freed, IsFree
  <2>2. QED
    BY <1>9, <2>1, NotWritten
<1>11. PICK r : r = EraseAll(f, ws)
  OBVIOUS
<1>12. Erased(f, r)
  BY <1>6, <1>9, <1>10, <1>11, EraseAllInv
<1>13. QED
  BY <1>4, <1>9, <1>11, <1>12 DEF Erased

\* delete_varnode.
LEMMA DeleteInv ==
    ASSUME NEW s, Inv(s), NEW v \in Bank(s), s.def[v] = NoOp
    PROVE  Inv(Erase(s, v)) /\ Erase(s, v).abort = s.abort
<1>1. v \in Vn
  BY BankEntry
<1>2. s.state[v] # "written"
  BY <1>1, Constants DEF Inv, Writer
<1>3. NotOut(s, v)
  BY <1>2, NotWritten
<1>4. Erased(s, s)
  BY DEF Erased
<1>5. Erased(s, Erase(s, v))
  BY <1>1, <1>3, <1>4, EraseNext
<1>6. QED
  BY <1>5 DEF Erased

\* set_input_varnode.
LEMMA SetInputVarnodeInv ==
    ASSUME NEW s, Inv(s), s.abort = "no", NEW v \in Bank(s), IsFree(s, v)
    PROVE  Inv(SetInputVarnode(s, v)) /\ SetInputVarnode(s, v).abort = "no"
<1>1. PICK t : t = BankSetInput(s, v)
  OBVIOUS
<1>2. Inv(t) /\ t.abort = "no"
  BY <1>1, SetInputInv
<1>3. SetInputVarnode(s, v) \in {s, t}
  BY <1>1 DEF SetInputVarnode
<1>4. QED
  BY <1>2, <1>3
-----------------------------------------------------------------------------
(***************************************************************************)
(* The calls.                                                              *)
(***************************************************************************)

\* The invariant does not look at the panic flag.
LEMMA AbortInv ==
    ASSUME NEW s, Inv(s), NEW a \in {"no", "free", "constant", "bound"},
           NEW t, t = [s EXCEPT !.abort = a]
    PROVE  Inv(t) /\ t.abort = a /\ Bank(t) = Bank(s)
<1>1. s \in State
  BY DEF Inv
<1>2. /\ t \in State /\ t.loc = s.loc /\ t.state = s.state /\ t.def = s.def
      /\ t.descend = s.descend /\ t.key = s.key /\ t.tree = s.tree /\ t.made = s.made
      /\ t.inrefs = s.inrefs /\ t.output = s.output /\ t.abort = a
  BY <1>1 DEF State
<1>3. Bank(t) = Bank(s)
  BY <1>2, BankSame
<1>4. \A x : KeyOf(t, x) = KeyOf(s, x)
  BY <1>2, KeySame
<1>5. Canon(t) /\ Young(t) /\ Writer(t) /\ Short(t)
  BY <1>2, <1>4 DEF Inv, Canon, Young, Writer, Short
<1>6. Reads(t) /\ Writes(t)
  BY <1>2, <1>3 DEF Inv, Reads, ReadsOf, Writes
<1>7. QED
  BY <1>2, <1>3, <1>5, <1>6 DEF Inv

\* A function starts with no varnodes.
LEMMA FreshInv == Inv(Fresh) /\ Fresh.abort = "no" /\ Bank(Fresh) = {}
<1>1. PICK s : s = Fresh
  OBVIOUS
<1>2. PICK e : e = <<>>
  OBVIOUS
<1>3. e \in Seq(Op) /\ e \in Seq(Entries) /\ Len(e) = 0 /\ \A x : Count(e, x) = 0
  BY <1>2, CountEmpty
<1>4. PICK l : l = (CHOOSE x \in Storage : TRUE)
  OBVIOUS
<1>5. l \in Storage /\ Null \in Entries /\ MaxVn \in Nat /\ MaxIn \in Nat
  BY <1>4, Constants
<1>6. s = [loc |-> [v \in Vn |-> l], state |-> [v \in Vn |-> "free"],
           def |-> [v \in Vn |-> NoOp], descend |-> [v \in Vn |-> e],
           key |-> [v \in Vn |-> Null], tree |-> {}, made |-> 0,
           inrefs |-> [o \in Op |-> e], output |-> [o \in Op |-> Null],
           dead |-> {}, abort |-> "no"]
  BY <1>1, <1>2, <1>4 DEF Fresh
<1>7. s \in State
  BY <1>3, <1>5, <1>6 DEF State
<1>8. /\ s.tree = {} /\ s.abort = "no" /\ \A o \in Op : s.inrefs[o] = e /\ s.output[o] = Null
      /\ \A v \in Vn : s.state[v] = "free" /\ s.def[v] = NoOp /\ s.descend[v] = e
  BY <1>6
<1>9. Bank(s) = {}
  BY <1>8 DEF Bank
<1>10. Canon(s)
  BY <1>8 DEF Canon
<1>11. Young(s)
  BY <1>2, <1>3, <1>8 DEF Young
<1>12. Writer(s)
  BY <1>8 DEF Writer
<1>13. Reads(s) /\ Writes(s)
  BY <1>8, <1>9 DEF Reads, Writes
<1>14. Short(s)
  BY <1>3, <1>5, <1>8 DEF Short
<1>15. QED
  BY <1>1, <1>7, <1>8, <1>9, <1>10, <1>11, <1>12, <1>13, <1>14 DEF Inv

\* A varnode without references is dropped.
LEMMA DroppedInv ==
    ASSUME NEW s, Inv(s)
    PROVE  Inv(Dropped(s)) /\ Dropped(s).abort = s.abort
<1> DEFINE keep(f, g) == [v \in Vn |-> IF v \in Held(s) THEN f[v] ELSE g[v]]
<1>1. PICK l, st, k : /\ l = keep(s.loc, Fresh.loc) /\ st = keep(s.state, Fresh.state)
                      /\ k = keep(s.key, Fresh.key)
  OBVIOUS
<1>2. PICK t : t = [s EXCEPT !.loc = l, !.state = st, !.key = k]
  OBVIOUS
<1>3. Dropped(s) = t
  BY <1>1, <1>2 DEF Dropped
<1>4. s \in State /\ Fresh \in State /\ \A v \in Vn : Fresh.state[v] = "free"
  <2>1. s \in State /\ Fresh \in State
    BY FreshInv DEF Inv
  <2>2. Fresh.state = [v \in Vn |-> "free"]
    BY DEF Fresh
  <2>3. QED
    BY <2>1, <2>2
<1>5. l \in [Vn -> Storage]
  BY <1>1, <1>4, StateType
<1>6. st \in [Vn -> {"free", "input", "written"}]
  BY <1>1, <1>4, StateType
<1>7. k \in [Vn -> Key \cup {Null}]
  BY <1>1, <1>4, StateType
<1>8. /\ t \in State /\ t.loc = l /\ t.state = st /\ t.key = k /\ t.def = s.def
      /\ t.descend = s.descend /\ t.tree = s.tree /\ t.made = s.made
      /\ t.inrefs = s.inrefs /\ t.output = s.output /\ t.abort = s.abort
  BY <1>2, <1>4, <1>5, <1>6, <1>7 DEF State
<1>9. Bank(t) = Bank(s)
  BY <1>8, BankSame
<1>10. \A v \in Bank(s) : l[v] = s.loc[v] /\ st[v] = s.state[v] /\ k[v] = s.key[v]
  <2>1. \A v \in Bank(s) : v \in Vn /\ v \in Held(s)
    BY <1>4, BankType DEF Held
  <2>2. QED
    BY <1>1, <2>1
<1>11. \A v \in Vn : st[v] = s.state[v] \/ st[v] = "free"
  BY <1>1, <1>4
<1>12. Canon(t)
  <2>1. \A e \in s.tree : e[2] \in Bank(s)
    BY DEF Bank
  <2>2. \A e \in s.tree : KeyOf(t, e[2]) = KeyOf(s, e[2]) /\ t.key[e[2]] = s.key[e[2]]
    BY <1>8, <1>10, <2>1, KeySame
  <2>3. Canon(s)
    BY DEF Inv
  <2>4. QED
    BY <1>8, <2>2, <2>3 DEF Canon
<1>13. Young(t)
  BY <1>8, <1>11 DEF Inv, Young
<1>14. Writer(t)
  BY <1>8, <1>11 DEF Inv, Writer
<1>15. Reads(t) /\ Short(t)
  BY <1>8, <1>9 DEF Inv, Reads, ReadsOf, Short
<1>16. Writes(t)
  BY <1>8, <1>9, <1>10 DEF Inv, Writes
<1>17. QED
  BY <1>3, <1>8, <1>12, <1>13, <1>14, <1>15, <1>16 DEF Inv

IInv == Inv(fd) /\ fd.abort \in {"no", "free"}

\* What a call leaves: its result, the result without what it dropped, or,
\* when it panicked, an empty function.
LEMMA DidInv ==
    ASSUME NEW t, Good(t), Did(t)
    PROVE  IInv'
<1>1. t \in State /\ t.abort \in {"no", "free"}
  <2>1. t \in State /\ t.abort # "constant" /\ t.abort # "bound"
    BY DEF Good, Did
  <2>2. QED
    BY <2>1, StateType
<1>2. CASE t.abort # "no"
  <2>1. t.abort = "free"
    BY <1>1, <1>2
  <2>2. PICK f : f = [Fresh EXCEPT !.abort = "free"]
    OBVIOUS
  <2>3. Inv(f) /\ f.abort = "free"
    BY <2>2, FreshInv, AbortInv
  <2>4. fd' = f
    BY <2>1, <2>2 DEF Did
  <2>5. QED
    BY <2>3, <2>4 DEF IInv
<1>3. CASE t.abort = "no"
  <2>1. Inv(t)
    BY <1>3 DEF Good
  <2>2. fd' = t \/ fd' = Dropped(t)
    BY <1>3 DEF Did
  <2>3. CASE fd' = t
    BY <1>3, <2>1, <2>3 DEF IInv
  <2>4. CASE fd' = Dropped(t)
    <3>1. Inv(Dropped(t)) /\ Dropped(t).abort = "no"
      BY <1>3, <2>1, DroppedInv
    <3>2. QED
      BY <2>4, <3>1 DEF IInv
  <2>5. QED
    BY <2>2, <2>3, <2>4
<1>4. QED
  BY <1>2, <1>3

\* A call that does not panic and keeps the invariant.
LEMMA CallInv ==
    ASSUME NEW t, Inv(t), t.abort = "no", Did(t)
    PROVE  IInv'
<1>1. Good(t)
  BY DEF Good, Inv
<1>2. QED
  BY <1>1, DidInv

\* A call starts from what the last one left.
LEMMA NowInv ==
    ASSUME IInv
    PROVE  /\ Inv(Now) /\ Now.abort = "no" /\ Bank(Now) = Bank(fd)
           /\ Now.inrefs = fd.inrefs /\ Now.output = fd.output /\ Now.state = fd.state
           /\ Now.def = fd.def /\ Now.descend = fd.descend
<1>1. Inv(fd) /\ fd \in State
  BY DEF IInv, Inv
<1>2. PICK t : t = [fd EXCEPT !.abort = "no"]
  OBVIOUS
<1>3. Inv(t) /\ t.abort = "no" /\ Bank(t) = Bank(fd)
  BY <1>1, <1>2, AbortInv
<1>4. /\ t.inrefs = fd.inrefs /\ t.output = fd.output /\ t.state = fd.state
      /\ t.def = fd.def /\ t.descend = fd.descend
  BY <1>1, <1>2 DEF State
<1>5. Now = t
  BY <1>2 DEF Now
<1>6. QED
  BY <1>3, <1>4, <1>5

\* Calls that add a slot or fill one.
LEMMA LinkStep ==
    ASSUME IInv, NEW o \in Op, NEW v \in Bank(fd), NEW i \in 1..MaxIn
    PROVE  /\ DoOpSetInput(o, v, i) => IInv'
           /\ DoOpInsertInput(o, v, i) => IInv'
<1>1. PICK s : s = Now
  OBVIOUS
<1>2. Inv(s) /\ s.abort = "no" /\ v \in Bank(s) /\ s.inrefs = fd.inrefs
  BY <1>1, NowInv
<1>3. Len(s.inrefs[o]) \in Nat /\ MaxIn \in Nat
  BY <1>2, ListType, Constants
<1>4. ASSUME DoOpSetInput(o, v, i) PROVE IInv'
  <2>1. PICK t : t = OpSetInput(s, o, v, i)
    OBVIOUS
  <2>2. i \in 1..Len(s.inrefs[o]) + 1 /\ i <= MaxIn /\ Did(t)
    BY <1>1, <1>2, <1>3, <1>4, <2>1 DEF DoOpSetInput
  <2>3. PICK n : Linked(s, t, o, n)
    BY <1>2, <2>1, <2>2, LinkInput
  <2>4. QED
    BY <2>2, <2>3, DidInv DEF Linked
<1>5. ASSUME DoOpInsertInput(o, v, i) PROVE IInv'
  <2>1. PICK t : t = OpInsertInput(s, o, v, i)
    OBVIOUS
  <2>2. /\ i \in 1..Len(s.inrefs[o]) + 1 /\ Len(s.inrefs[o]) + 1 <= MaxIn /\ Did(t)
    BY <1>1, <1>2, <1>3, <1>5, <2>1 DEF DoOpInsertInput, Room
  <2>3. Good(t)
    BY <1>2, <2>1, <2>2, InsertInv
  <2>4. QED
    BY <2>2, <2>3, DidInv
<1>6. QED
  BY <1>4, <1>5

\* Calls on one slot, or on two.
LEMMA SlotStep ==
    ASSUME IInv, NEW o \in Op, NEW i \in DOMAIN fd.inrefs[o], NEW j \in DOMAIN fd.inrefs[o]
    PROVE  /\ DoOpRemoveInput(o, i) => IInv'
           /\ DoOpUnsetInput(o, i) => IInv'
           /\ DoOpSwapInput(o, i, j) => IInv'
<1>1. PICK s : s = Now
  OBVIOUS
<1>2. Inv(s) /\ s.abort = "no" /\ s.inrefs = fd.inrefs
  BY <1>1, NowInv
<1>3. s.inrefs[o] \in Seq(Entries) /\ Len(s.inrefs[o]) \in Nat
  BY <1>2, ListType
<1>4. i \in 1..Len(s.inrefs[o]) /\ j \in 1..Len(s.inrefs[o])
  BY <1>2, <1>3
<1>5. ASSUME DoOpRemoveInput(o, i) PROVE IInv'
  <2>1. PICK t : t = OpRemoveInput(s, o, i)
    OBVIOUS
  <2>2. Inv(t) /\ t.abort = "no"
    BY <1>2, <1>4, <2>1, RemoveInv
  <2>3. QED
    BY <1>1, <1>5, <2>1, <2>2, CallInv DEF DoOpRemoveInput
<1>6. ASSUME DoOpUnsetInput(o, i) PROVE IInv'
  <2>1. PICK t : t = OpUnsetInput(s, o, i)
    OBVIOUS
  <2>2. Inv(t) /\ t.abort = "no"
    BY <1>2, <1>4, <2>1, UnsetInput
  <2>3. QED
    BY <1>1, <1>6, <2>1, <2>2, CallInv DEF DoOpUnsetInput
<1>7. ASSUME DoOpSwapInput(o, i, j) PROVE IInv'
  <2>1. PICK t : t = OpSwapInput(s, o, i, j)
    OBVIOUS
  <2>2. i # j
    BY <1>4, <1>7 DEF DoOpSwapInput
  <2>3. Inv(t) /\ t.abort = "no"
    BY <1>2, <1>4, <2>1, <2>2, SwapInv
  <2>4. QED
    BY <1>1, <1>7, <2>1, <2>3, CallInv DEF DoOpSwapInput
<1>8. QED
  BY <1>5, <1>6, <1>7

\* op_set_all_input, the call.
LEMMA SetAllStep ==
    ASSUME IInv, NEW o \in Op, NEW n \in 0..MaxIn, NEW vs \in [1..n -> Bank(fd)],
           DoOpSetAllInput(o, vs)
    PROVE  IInv'
<1>1. PICK s : s = Now
  OBVIOUS
<1>2. Inv(s) /\ s.abort = "no" /\ Bank(s) = Bank(fd)
  BY <1>1, NowInv
<1>3. n \in Nat /\ n <= MaxIn
  BY Constants
<1>4. vs \in Seq(Bank(s)) /\ Len(vs) = n
  BY <1>2, <1>3
<1>5. PICK t : t = OpSetAllInput(s, o, vs)
  OBVIOUS
<1>6. SetUpTo(s, t, o, Len(vs))
  BY <1>2, <1>3, <1>4, <1>5, SetAllInv
<1>7. Did(t)
  BY <1>1, <1>5 DEF DoOpSetAllInput
<1>8. QED
  BY <1>6, <1>7, DidInv DEF SetUpTo

\* Calls on varnodes of the bank.
LEMMA VarnodeStep ==
    ASSUME IInv, NEW v \in Bank(fd), NEW w \in Bank(fd)
    PROVE  /\ DoSetInputVarnode(v) => IInv'
           /\ DeleteVarnode(v) => IInv'
           /\ DoTotalReplace(v, w) => IInv'
<1>1. PICK s : s = Now
  OBVIOUS
<1>2. /\ Inv(s) /\ s.abort = "no" /\ Bank(s) = Bank(fd) /\ s.state = fd.state
      /\ s.def = fd.def /\ v \in Bank(s) /\ w \in Bank(s)
  BY <1>1, NowInv
<1>3. ASSUME DoSetInputVarnode(v) PROVE IInv'
  <2>1. PICK t : t = SetInputVarnode(s, v)
    OBVIOUS
  <2>2. IsFree(s, v) /\ Did(t)
    BY <1>1, <1>2, <1>3, <2>1 DEF DoSetInputVarnode, IsFree
  <2>3. Inv(t) /\ t.abort = "no"
    BY <1>2, <2>1, <2>2, SetInputVarnodeInv
  <2>4. QED
    BY <2>2, <2>3, CallInv
<1>4. ASSUME DeleteVarnode(v) PROVE IInv'
  <2>1. PICK t : t = Erase(s, v)
    OBVIOUS
  <2>2. s.def[v] = NoOp /\ Did(t)
    BY <1>1, <1>2, <1>4, <2>1 DEF DeleteVarnode
  <2>3. Inv(t) /\ t.abort = "no"
    BY <1>2, <2>1, <2>2, DeleteInv
  <2>4. QED
    BY <2>2, <2>3, CallInv
<1>5. ASSUME DoTotalReplace(v, w) PROVE IInv'
  <2>1. PICK t : t = TotalReplace(s, v, w)
    OBVIOUS
  <2>2. Replaced(s, t)
    BY <1>2, <2>1, TotalReplaceInv
  <2>3. Did(t)
    BY <1>1, <1>5, <2>1 DEF DoTotalReplace
  <2>4. QED
    BY <2>2, <2>3, DidInv DEF Replaced
<1>6. QED
  BY <1>3, <1>4, <1>5

\* Calls that give an op an output or take it.
LEMMA OutputStep ==
    ASSUME IInv, NEW o \in Op
    PROVE  /\ \A l \in Storage : DoNewVarnodeOut(o, l) => IInv'
           /\ \A v \in Bank(fd) : DoOpSetOutput(o, v) => IInv'
           /\ DoOpUnsetOutput(o) => IInv'
<1>1. PICK s : s = Now
  OBVIOUS
<1>2. /\ Inv(s) /\ s.abort = "no" /\ Bank(s) = Bank(fd) /\ s.state = fd.state
      /\ s.output = fd.output
  BY <1>1, NowInv
<1>3. ASSUME NEW l \in Storage, DoNewVarnodeOut(o, l) PROVE IInv'
  <2>1. PICK t : t = NewVarnodeOut(s, o, l)
    OBVIOUS
  <2>2. s.output[o] = Null /\ Did(t)
    BY <1>1, <1>2, <1>3, <2>1 DEF DoNewVarnodeOut
  <2>3. Good(t)
    BY <1>2, <2>1, <2>2, NewOutInv
  <2>4. QED
    BY <2>2, <2>3, DidInv
<1>4. ASSUME NEW v \in Bank(fd), DoOpSetOutput(o, v) PROVE IInv'
  <2>1. PICK t : t = OpSetOutput(s, o, v)
    OBVIOUS
  <2>2. v \in Bank(s) /\ s.state[v] # "input" /\ Did(t)
    BY <1>1, <1>2, <1>4, <2>1 DEF DoOpSetOutput
  <2>3. Inv(t) /\ t.abort = "no"
    BY <1>2, <2>1, <2>2, SetOutputInv
  <2>4. QED
    BY <2>2, <2>3, CallInv
<1>5. ASSUME DoOpUnsetOutput(o) PROVE IInv'
  <2>1. PICK t : t = OpUnsetOutput(s, o)
    OBVIOUS
  <2>2. OutputUnset(s, t, o)
    BY <1>2, <2>1, UnsetOutput
  <2>3. Inv(t) /\ t.abort = "no"
    BY <1>2, <2>2 DEF OutputUnset
  <2>4. Did(t)
    BY <1>1, <1>5, <2>1 DEF DoOpUnsetOutput
  <2>5. QED
    BY <2>3, <2>4, CallInv
<1>6. QED
  BY <1>3, <1>4, <1>5

\* Calls that take an op.
LEMMA DestroyStep ==
    ASSUME IInv, NEW o \in Op
    PROVE  /\ DoOpDestroy(o) => IInv'
           /\ DoOpDestroyRecursive(o) => IInv'
           /\ DoOpDestroyRaw(o) => IInv'
           /\ DoOpUnlink(o) => IInv'
<1>1. PICK s : s = Now
  OBVIOUS
<1>2. /\ Inv(s) /\ s.abort = "no" /\ Bank(s) = Bank(fd) /\ s.descend = fd.descend
      /\ s.inrefs = fd.inrefs
  BY <1>1, NowInv
<1>3. ASSUME DoOpDestroy(o) PROVE IInv'
  <2>1. PICK t : t = OpDestroy(s, o)
    OBVIOUS
  <2>2. Inv(t) /\ t.abort = "no"
    BY <1>2, <2>1, OpDestroyInv
  <2>3. QED
    BY <1>1, <1>3, <2>1, <2>2, CallInv DEF DoOpDestroy
<1>4. ASSUME DoOpDestroyRecursive(o) PROVE IInv'
  <2>1. PICK t : t = OpDestroyRecursive(s, o)
    OBVIOUS
  <2>2. Inv(t) /\ t.abort = "no"
    BY <1>2, <2>1, RecursiveInv
  <2>3. QED
    BY <1>1, <1>4, <2>1, <2>2, CallInv DEF DoOpDestroyRecursive
<1>5. ASSUME DoOpDestroyRaw(o) PROVE IInv'
  <2>1. PICK t : t = OpDestroyRaw(s, o)
    OBVIOUS
  <2>2. \A i \in 1..Len(s.inrefs[o]) : i \in DOMAIN fd.inrefs[o]
    BY <1>2, ListType
  <2>3. \A i \in DOMAIN fd.inrefs[o] :
            InBank(fd, fd.inrefs[o][i]) /\ fd.descend[fd.inrefs[o][i]] = <<o>>
    BY <1>5 DEF DoOpDestroyRaw
  <2>4. \A v : InBank(fd, v) => v \in Bank(fd)
    BY DEF InBank, Bank
  <2>5. RawOp(s, o)
    BY <1>2, <2>2, <2>3, <2>4 DEF RawOp
  <2>6. Inv(t) /\ t.abort = "no"
    BY <1>2, <2>1, <2>5, RawInv
  <2>7. Did(t)
    BY <1>1, <1>5, <2>1 DEF DoOpDestroyRaw
  <2>8. QED
    BY <2>6, <2>7, CallInv
<1>6. ASSUME DoOpUnlink(o) PROVE IInv'
  <2>1. PICK t : t = OpUnlink(s, o)
    OBVIOUS
  <2>2. Inv(t) /\ t.abort = "no"
    BY <1>2, <2>1, OpUnlinkInv
  <2>3. QED
    BY <1>1, <1>6, <2>1, <2>2, CallInv DEF DoOpUnlink
<1>7. QED
  BY <1>3, <1>4, <1>5, <1>6

\* Calls on the whole function.
LEMMA FunctionStep ==
    ASSUME IInv
    PROVE  /\ \A l \in Storage : NewVarnode(l) => IInv'
           /\ DoClearDeadVarnodes => IInv'
           /\ Clear => IInv'
<1>1. PICK s : s = Now
  OBVIOUS
<1>2. Inv(s) /\ s.abort = "no"
  BY <1>1, NowInv
<1>3. ASSUME NEW l \in Storage, NewVarnode(l) PROVE IInv'
  <2>1. PICK t : t = Create(s, l)
    OBVIOUS
  <2>2. Good(t)
    BY <1>2, <2>1, CreateInv
  <2>3. QED
    BY <1>1, <1>3, <2>1, <2>2, DidInv DEF NewVarnode
<1>4. ASSUME DoClearDeadVarnodes PROVE IInv'
  <2>1. PICK t : t = ClearDeadVarnodes(s)
    OBVIOUS
  <2>2. Inv(t) /\ t.abort = "no"
    BY <1>2, <2>1, ClearDeadInv
  <2>3. QED
    BY <1>1, <1>4, <2>1, <2>2, CallInv DEF DoClearDeadVarnodes
<1>5. ASSUME Clear PROVE IInv'
  <2>1. PICK t : t = Fresh
    OBVIOUS
  <2>2. Inv(t) /\ t.abort = "no"
    BY <2>1, FreshInv
  <2>3. QED
    BY <1>5, <2>1, <2>2, CallInv DEF Clear
<1>6. QED
  BY <1>3, <1>4, <1>5

\* The invariant is inductive: it holds of the empty function and every
\* call keeps it.
LEMMA Inductive == Init /\ [][Next]_fd => []IInv
<1>1. Init => IInv
  BY FreshInv DEF Init, IInv
<1>2. IInv /\ [Next]_fd => IInv'
  <2> SUFFICES ASSUME IInv, [Next]_fd PROVE IInv'
    OBVIOUS
  <2>1. CASE UNCHANGED fd
    BY <2>1 DEF IInv
  <2>2. ASSUME NEW o \in Live, NEW v \in Bank(fd), NEW i \in 1..MaxIn,
               DoOpSetInput(o, v, i) \/ DoOpInsertInput(o, v, i)
        PROVE  IInv'
    BY <2>2, LinkStep DEF Live
  <2>3. ASSUME NEW o \in Live, NEW i \in DOMAIN fd.inrefs[o], NEW j \in DOMAIN fd.inrefs[o],
               DoOpRemoveInput(o, i) \/ DoOpUnsetInput(o, i) \/ DoOpSwapInput(o, i, j)
        PROVE  IInv'
    BY <2>3, SlotStep DEF Live
  <2>4. ASSUME NEW o \in Live, NEW n \in 0..MaxIn, NEW vs \in [1..n -> Bank(fd)],
               DoOpSetAllInput(o, vs)
        PROVE  IInv'
    BY <2>4, SetAllStep DEF Live
  <2>5. ASSUME NEW v \in Bank(fd), NEW w \in Bank(fd),
               DoSetInputVarnode(v) \/ DeleteVarnode(v) \/ DoTotalReplace(v, w)
        PROVE  IInv'
    BY <2>5, VarnodeStep
  <2>6. ASSUME NEW o \in Live,
               \/ \E l \in Storage : DoNewVarnodeOut(o, l)
               \/ \E v \in Bank(fd) : DoOpSetOutput(o, v)
               \/ DoOpUnsetOutput(o)
        PROVE  IInv'
    BY <2>6, OutputStep DEF Live
  <2>7. ASSUME NEW o \in Live,
               \/ DoOpDestroy(o) \/ DoOpDestroyRecursive(o)
               \/ DoOpDestroyRaw(o) \/ DoOpUnlink(o)
        PROVE  IInv'
    BY <2>7, DestroyStep DEF Live
  <2>8. CASE (\E l \in Storage : NewVarnode(l)) \/ DoClearDeadVarnodes \/ Clear
    BY <2>8, FunctionStep
  <2>9. QED
    BY <2>1, <2>2, <2>3, <2>4, <2>5, <2>6, <2>7, <2>8, Zenon DEF Next
<1>3. QED
  BY <1>1, <1>2, PTL

\* Every field of the graph has its type, a varnode in the bank has been made
\* and no op outgrows its slots, after any of the edits of src/funcdata.rs.
THEOREM TypeCorrect == Spec => []TypeOK
<1>1. IInv => TypeOK
  <2> SUFFICES ASSUME IInv PROVE TypeOK
    OBVIOUS
  <2>1. fd \in State /\ Young(fd) /\ Short(fd) /\ fd.abort \in {"no", "free"}
    BY DEF IInv, Inv
  <2>2. fd.made \in Nat /\ Vn \subseteq Nat
    BY <2>1, StateType, Constants
  <2>3. fd.tree \subseteq Key \X (0..fd.made - 1)
    <3> SUFFICES ASSUME NEW e \in fd.tree PROVE e \in Key \X (0..fd.made - 1)
      OBVIOUS
    <3>1. e = <<e[1], e[2]>> /\ e[1] \in Key /\ e[2] \in Vn /\ e[2] < fd.made
      BY <2>1, EntryType DEF Young
    <3>2. e[2] \in 0..fd.made - 1
      BY <2>2, <3>1
    <3>3. QED
      BY <3>1, <3>2
  <2>4. \A v \in Vn : ToSet(fd.descend[v]) \subseteq Op
    <3>1. \A v \in Vn : fd.descend[v] \in Seq(Op)
      BY <2>1, StateType
    <3>2. QED
      BY <3>1 DEF ToSet
  <2>5. ASSUME NEW o \in Op
        PROVE  /\ Len(fd.inrefs[o]) <= MaxIn
               /\ ToSet(fd.inrefs[o]) \subseteq Vn \cup {Null}
               /\ fd.output[o] \in Vn \cup {Null}
    <3>1. fd.inrefs[o] \in Seq(Entries) /\ fd.output[o] \in Entries
      BY <2>1, StateType
    <3>2. ToSet(fd.inrefs[o]) \subseteq Entries
      BY <3>1 DEF ToSet
    <3>3. QED
      BY <2>1, <3>1, <3>2 DEF Short, Entries
  <2>6. QED
    BY <2>1, <2>3, <2>4, <2>5, StateType DEF TypeOK
<1>2. QED
  BY <1>1, Inductive, PTL DEF Spec

\* The two ends of every read and of every write agree after any mixture of
\* the edits of src/funcdata.rs, and linking a constant never panics: the
\* readers a varnode lists are the slots that hold it, and its writer is the
\* op whose output it is.
THEOREM LinksAgree == Spec => []DefUseSound
<1>1. IInv => DefUseSound
  <2> SUFFICES ASSUME IInv PROVE DefUseSound
    OBVIOUS
  <2>1. Reads(fd) /\ Writes(fd) /\ fd.abort # "constant"
    BY DEF IInv, Inv
  <2>2. ReadsInverse
    BY <2>1 DEF ReadsInverse, Reads, ReadsOf
  <2>3. WritesInverse
    BY <2>1 DEF WritesInverse, Writes
  <2>4. QED
    BY <2>1, <2>2, <2>3 DEF DefUseSound, ConstantsShareable
<1>2. QED
  BY <1>1, Inductive, PTL DEF Spec

\* The tree of VarnodeBank has each varnode once, under the key its fields
\* give now and the copy in its cell, and no two varnodes under one key:
\* erase finds what insert filed, and a storage has one input varnode.
THEOREM TreeCanonical == Spec => []BankCanonical
<1>1. IInv => BankCanonical
  <2> SUFFICES ASSUME IInv PROVE BankCanonical
    OBVIOUS
  <2>1. fd \in State /\ Canon(fd)
    BY DEF IInv, Inv
  <2>2. ASSUME NEW d \in fd.tree, NEW e \in fd.tree, d[2] = e[2] PROVE d = e
    <3>1. d[1] = e[1]
      BY <2>1, <2>2 DEF Canon
    <3>2. QED
      BY <2>1, <3>1 DEF Canon
  <2>3. QED
    BY <2>1, <2>2 DEF BankCanonical, Canon
<1>2. QED
  BY <1>1, Inductive, PTL DEF Spec
=============================================================================
