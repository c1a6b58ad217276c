------------------------- MODULE BlockOrder_proofs --------------------------
(***************************************************************************)
(* Proofs about BlockOrder, for every set of ops and blocks and every      *)
(* width of the order numbers that leaves three numbers to an op.          *)
(***************************************************************************)
EXTENDS BlockOrder, FiniteSetTheorems, TLAPS

\* No op of a block is numbered below the 2 that an insertion at the front
\* takes for its left neighbour; during flow generation none has the last
\* number, from which the midpoint formula would step back.
NumbersInRange ==
    \A b \in Block : \A i \in 1..Len(ops[b]) :
        order[ops[b][i]] >= 2 /\ (phase = "flow" => order[ops[b][i]] < MaxOrd)

IInv == TypeOK /\ OrderMonotone /\ NumbersInRange

\* The sequences of distinct ops.
Distinct(s) == \A i, j \in 1..Len(s) : s[i] = s[j] => i = j
-----------------------------------------------------------------------------
LEMMA InsertedFacts ==
    ASSUME NEW s \in Seq(Op), NEW p \in 1..Len(s) + 1, NEW o \in Op
    PROVE  LET t == InsertedAt(s, p, o) IN
           /\ t \in Seq(Op) /\ Len(t) = Len(s) + 1
           /\ \A i \in 1..Len(s) + 1 : /\ i < p => t[i] = s[i]
                                       /\ i = p => t[i] = o
                                       /\ i > p => t[i] = s[i - 1]
<1>1. Len(s) \in Nat /\ \A i \in 1..Len(s) : s[i] \in Op
    OBVIOUS
<1> DEFINE t == InsertedAt(s, p, o)
<1>2. t = [i \in 1..Len(s) + 1 |-> IF i < p THEN s[i] ELSE IF i = p THEN o ELSE s[i - 1]]
    BY DEF InsertedAt
<1>3. \A i \in 1..Len(s) + 1 : t[i] \in Op
    BY <1>1, <1>2
<1>4. t \in Seq(Op) /\ Len(t) = Len(s) + 1
    BY <1>1, <1>2, <1>3
<1> QED
    BY <1>1, <1>2, <1>4

LEMMA RemovedFacts ==
    ASSUME NEW s \in Seq(Op), NEW p \in 1..Len(s)
    PROVE  LET t == RemovedAt(s, p) IN
           /\ t \in Seq(Op) /\ Len(t) = Len(s) - 1
           /\ \A i \in 1..Len(s) - 1 : /\ i < p => t[i] = s[i]
                                       /\ i >= p => t[i] = s[i + 1]
<1>1. Len(s) \in Nat /\ \A i \in 1..Len(s) : s[i] \in Op
    OBVIOUS
<1> DEFINE t == RemovedAt(s, p)
<1>2. t = [i \in 1..Len(s) - 1 |-> IF i < p THEN s[i] ELSE s[i + 1]]
    BY DEF RemovedAt
<1>3. \A i \in 1..Len(s) - 1 : t[i] \in Op
    BY <1>1, <1>2
<1>4. t \in Seq(Op) /\ Len(t) = Len(s) - 1
    BY <1>1, <1>2, <1>3
<1> QED
    BY <1>1, <1>2, <1>4

\* A list of distinct ops is no longer than there are ops.
LEMMA DistinctLen ==
    ASSUME NEW s \in Seq(Op), Distinct(s)
    PROVE  3 * Len(s) <= MaxOrd
<1>1. Len(s) \in Nat /\ s \in [1..Len(s) -> Op]
    OBVIOUS
<1>2. IsFiniteSet(1..Len(s)) /\ Cardinality(1..Len(s)) = Len(s)
    BY <1>1, FS_Interval, SMTT(60)
<1>3. Cardinality(Op) \in Nat
    BY WidthAssumption, FS_CardinalityType
<1>4. ~(Cardinality(Op) < Cardinality(1..Len(s)))
    BY <1>1, <1>2, WidthAssumption, FS_PigeonHole DEF Distinct
<1> QED
    BY <1>1, <1>2, <1>3, <1>4, WidthAssumption

\* The step of set_order is at least 2, and its multiples stay in range.
LEMMA StepFacts ==
    ASSUME NEW n \in Nat, n > 0, 3 * n <= MaxOrd
    PROVE  /\ Step(n) \in Nat /\ Step(n) >= 2
           /\ \A i \in 1..n : i * Step(n) \in 2..MaxOrd
           /\ \A i, j \in 1..n : i < j => i * Step(n) < j * Step(n)
<1> DEFINE q == MaxOrd \div n
<1>1. q \in Nat /\ n * q <= MaxOrd /\ MaxOrd < n * q + n
    BY WidthAssumption
<1>3. Step(n) = q - 1
    BY DEF Step
<1> HIDE DEF q
<1>2. q >= 3
  <2>1. SUFFICES ASSUME q <= 2 PROVE FALSE
    BY <1>1
  <2>2. n * q <= n * 2
    BY <1>1, <2>1
  <2> QED
    BY <1>1, <2>2, WidthAssumption
<1>4. \A i \in 1..n : i * q <= n * q /\ i * (q - 1) = i * q - i /\ i * (q - 1) >= i * 2
    BY <1>1, <1>2
<1>5. \A i, j \in 1..n : i < j => i * (q - 1) < j * (q - 1)
    BY <1>1, <1>2
<1> QED
    BY <1>1, <1>2, <1>3, <1>4, <1>5, WidthAssumption

\* What set_order does to the ops of a list, and to the others.
LEMMA RenumberFacts ==
    ASSUME NEW s \in Seq(Op), Distinct(s), order \in [Op -> Ord]
    PROVE  LET r == Renumbered(s) IN
           /\ r \in [Op -> Ord]
           /\ \A i \in 1..Len(s) : r[s[i]] >= 2
           /\ \A i, j \in 1..Len(s) : i < j => r[s[i]] < r[s[j]]
           /\ \A o \in Op : o \notin Ran(s) => r[o] = order[o]
<1> DEFINE r == Renumbered(s)
           d == Step(Len(s))
<1>1. Len(s) \in Nat /\ \A i \in 1..Len(s) : s[i] \in Op /\ s[i] \in Ran(s)
    BY DEF Ran
<1>2. CASE Len(s) = 0
  <2>1. r = [o \in Op |-> order[o]]
    BY <1>2 DEF Renumbered, Ran
  <2> QED
    BY <1>2, <2>1
<1>3. CASE Len(s) > 0
  <2>1. /\ \A i \in 1..Len(s) : i * d \in 2..MaxOrd
        /\ \A i, j \in 1..Len(s) : i < j => i * d < j * d
    BY <1>1, <1>3, DistinctLen, StepFacts
  <2>2. \A i \in 1..Len(s) : (CHOOSE k \in 1..Len(s) : s[k] = s[i]) = i
    BY DEF Distinct
  <2>3. \A i \in 1..Len(s) : r[s[i]] = i * d
    BY <1>1, <2>2 DEF Renumbered
  <2>4. \A o \in Op : o \notin Ran(s) => r[o] = order[o]
    BY DEF Renumbered
  <2>5. ASSUME NEW o \in Op PROVE r[o] \in Ord
    <3>1. CASE o \in Ran(s)
      <4>1. PICK i \in 1..Len(s) : o = s[i]
        BY <3>1 DEF Ran
      <4> QED
        BY <2>1, <2>3, <4>1 DEF Ord
    <3>2. CASE o \notin Ran(s)
      BY <2>4, <3>2
    <3> QED
      BY <3>1, <3>2
  <2>6. r \in [Op -> Ord]
    BY <2>5 DEF Renumbered
  <2> HIDE DEF r, d
  <2> QED
    BY <2>1, <2>3, <2>4, <2>6 DEF r
<1> QED
    BY <1>1, <1>2, <1>3

\* The number of an op inserted where there is room lies between those of
\* its neighbours.
LEMMA MidpointFacts ==
    ASSUME NEW x \in Ord, NEW y \in Ord, x < y
    PROVE  /\ Midpoint(x, y) \in x..y
           /\ Midpoint(x, y) < MaxOrd
    BY WidthAssumption DEF Midpoint, Ord
-----------------------------------------------------------------------------
\* What TypeOK says of one block and of an op outside of all blocks.
LEMMA BlockFacts ==
    ASSUME TypeOK, NEW b \in Block
    PROVE  /\ ops[b] \in Seq(Op) /\ Len(ops[b]) \in Nat /\ Distinct(ops[b])
           /\ \A i \in 1..Len(ops[b]) : ops[b][i] \in Op /\ order[ops[b][i]] \in Ord
    BY DEF TypeOK, Distinct

\* A step that replaces the list of one block, and numbers that list in order
\* without touching the numbers of the other blocks, preserves the invariant.
\* The other blocks keep their ops or lose them all.
LEMMA OneListInv ==
    ASSUME IInv, NEW b \in Block, NEW t \in Seq(Op), Distinct(t),
           phase' \in {"flow", "edit"},
           phase' = "flow" => phase = "flow"
                              /\ \A i \in 1..Len(t) : order'[t[i]] < MaxOrd,
           ops' \in [Block -> Seq(Op)], ops'[b] = t,
           \A c \in Block : c # b => ops'[c] = ops[c] \/ ops'[c] = <<>>,
           \A c \in Block : c # b =>
               \A i \in 1..Len(t), j \in 1..Len(ops'[c]) : t[i] # ops'[c][j],
           order' \in [Op -> Ord],
           \A i \in 1..Len(t) : order'[t[i]] >= 2,
           \A i, j \in 1..Len(t) : i < j => order'[t[i]] <= order'[t[j]],
           \A e \in Op : e \notin Ran(t) => order'[e] = order[e]
    PROVE  IInv'
<1>1. ASSUME NEW c \in Block, c # b, NEW i \in 1..Len(ops'[c])
      PROVE  /\ i \in 1..Len(ops[c]) /\ ops'[c] = ops[c]
             /\ order'[ops[c][i]] = order[ops[c][i]]
  <2>1. ops'[c] = ops[c]
    BY <1>1
  <2>2. ops[c][i] \in Op /\ ops[c][i] \notin Ran(t)
    BY <1>1, <2>1, BlockFacts DEF Ran, IInv
  <2> QED
    BY <1>1, <2>1, <2>2
<1>2. ASSUME NEW c \in Block, NEW e \in Block,
             NEW i \in 1..Len(ops'[c]), NEW j \in 1..Len(ops'[e]),
             ops'[c][i] = ops'[e][j]
      PROVE  c = e /\ i = j
  <2>1. CASE c = b /\ e = b
    <3>1. i \in 1..Len(t) /\ j \in 1..Len(t) /\ t[i] = t[j]
      BY <1>2, <2>1
    <3> QED
      BY <2>1, <3>1 DEF Distinct
  <2>2. CASE c = b /\ e # b
    <3>1. i \in 1..Len(t) /\ t[i] = ops'[e][j]
      BY <1>2, <2>2
    <3> QED
      BY <2>2, <3>1
  <2>3. CASE c # b /\ e = b
    <3>1. j \in 1..Len(t) /\ t[j] = ops'[c][i]
      BY <1>2, <2>3
    <3> QED
      BY <2>3, <3>1
  <2>4. CASE c # b /\ e # b
    <3>1. /\ i \in 1..Len(ops[c]) /\ j \in 1..Len(ops[e])
          /\ ops[c][i] = ops[e][j]
      BY <1>1, <1>2, <2>4
    <3> QED
      BY <3>1 DEF IInv, TypeOK
  <2> QED
    BY <2>1, <2>2, <2>3, <2>4
<1>3. TypeOK'
    BY <1>2 DEF IInv, TypeOK
<1>4. ASSUME NEW c \in Block, NEW i \in 1..Len(ops'[c]), NEW j \in 1..Len(ops'[c]), i < j
      PROVE  order'[ops'[c][i]] <= order'[ops'[c][j]]
  <2>1. CASE c = b
    BY <1>4, <2>1
  <2>2. CASE c # b
    BY <1>1, <1>4, <2>2 DEF IInv, OrderMonotone
  <2> QED
    BY <2>1, <2>2
<1>5. ASSUME NEW c \in Block, NEW i \in 1..Len(ops'[c])
      PROVE  order'[ops'[c][i]] >= 2 /\ (phase' = "flow" => order'[ops'[c][i]] < MaxOrd)
  <2>1. CASE c = b
    BY <1>5, <2>1
  <2>2. CASE c # b
    BY <1>1, <1>5, <2>2 DEF IInv, NumbersInRange
  <2> QED
    BY <2>1, <2>2
<1> QED
    BY <1>3, <1>4, <1>5 DEF IInv, OrderMonotone, NumbersInRange

\* The ops of a list with o put in at p: o, and those that were there, each in
\* its place relative to o.
LEMMA InsertedElements ==
    ASSUME NEW s \in Seq(Op), NEW p \in 1..Len(s) + 1, NEW o \in Op,
           Distinct(s), \A i \in 1..Len(s) : s[i] # o
    PROVE  LET t == InsertedAt(s, p, o) IN
           /\ Distinct(t)
           /\ \A i \in 1..Len(t) :
                  \/ i = p /\ t[i] = o
                  \/ i < p /\ i \in 1..Len(s) /\ t[i] = s[i]
                  \/ i > p /\ i - 1 \in 1..Len(s) /\ t[i] = s[i - 1]
<1> DEFINE t == InsertedAt(s, p, o)
<1>1. Len(s) \in Nat /\ p \in Nat /\ 1 <= p /\ p <= Len(s) + 1
    OBVIOUS
<1>2. /\ t \in Seq(Op) /\ Len(t) = Len(s) + 1
      /\ \A i \in 1..Len(s) + 1 : /\ i < p => t[i] = s[i]
                                  /\ i = p => t[i] = o
                                  /\ i > p => t[i] = s[i - 1]
    BY InsertedFacts
<1> HIDE DEF t
<1>3. ASSUME NEW i \in 1..Len(t)
      PROVE  \/ i = p /\ t[i] = o
             \/ i < p /\ i \in 1..Len(s) /\ t[i] = s[i]
             \/ i > p /\ i - 1 \in 1..Len(s) /\ t[i] = s[i - 1]
    BY <1>1, <1>2
<1>4. ASSUME NEW i \in 1..Len(t), NEW j \in 1..Len(t), t[i] = t[j] PROVE i = j
    BY <1>1, <1>3, <1>4, SMTT(60) DEF Distinct
<1>5. Distinct(t)
    BY <1>4 DEF Distinct
<1> QED
    BY <1>3, <1>5 DEF t

\* The numbers after an insertion.
NumbersAfter(s, p, o) ==
    IF WrappingSub(OrderAfter(s, p), OrderBefore(s, p)) <= 1
    THEN Renumbered(InsertedAt(s, p, o))
    ELSE [order EXCEPT ![o] = Midpoint(OrderBefore(s, p), OrderAfter(s, p))]

\* insert_op numbers the new list in order: at least 2, not decreasing, and
\* without changing the number of an op outside of the list.
LEMMA InsertedOrder ==
    ASSUME NEW s \in Seq(Op), NEW p \in 1..Len(s) + 1, NEW o \in Op,
           Distinct(s), \A i \in 1..Len(s) : s[i] # o,
           order \in [Op -> Ord],
           \A i \in 1..Len(s) : order[s[i]] >= 2,
           \A i, j \in 1..Len(s) : i < j => order[s[i]] <= order[s[j]]
    PROVE  LET t == InsertedAt(s, p, o)
               r == NumbersAfter(s, p, o) IN
           /\ r \in [Op -> Ord]
           /\ \A i \in 1..Len(t) : r[t[i]] >= 2
           /\ \A i, j \in 1..Len(t) : i < j => r[t[i]] <= r[t[j]]
           /\ \A e \in Op : e \notin Ran(t) => r[e] = order[e]
<1> DEFINE t == InsertedAt(s, p, o)
           r == NumbersAfter(s, p, o)
           x == OrderBefore(s, p)
           y == OrderAfter(s, p)
<1> SUFFICES /\ r \in [Op -> Ord]
             /\ \A i \in 1..Len(t) : r[t[i]] >= 2
             /\ \A i, j \in 1..Len(t) : i < j => r[t[i]] <= r[t[j]]
             /\ \A e \in Op : e \notin Ran(t) => r[e] = order[e]
    OBVIOUS
<1>1. Len(s) \in Nat /\ p \in Nat /\ 1 <= p /\ p <= Len(s) + 1
    OBVIOUS
<1>2. \A i \in 1..Len(s) : s[i] \in Op /\ order[s[i]] \in Nat /\ order[s[i]] <= MaxOrd
    BY WidthAssumption DEF Ord
<1>3. /\ t \in Seq(Op) /\ Len(t) = Len(s) + 1 /\ Distinct(t)
      /\ \A i \in 1..Len(t) :
             \/ i = p /\ t[i] = o
             \/ i < p /\ i \in 1..Len(s) /\ t[i] = s[i]
             \/ i > p /\ i - 1 \in 1..Len(s) /\ t[i] = s[i - 1]
    BY InsertedFacts, InsertedElements
<1> HIDE DEF t, r
<1>4. CASE WrappingSub(y, x) <= 1
  <2>1. r = Renumbered(t)
    BY <1>4 DEF NumbersAfter, r, t
  <2>2. /\ r \in [Op -> Ord]
        /\ \A i \in 1..Len(t) : r[t[i]] >= 2
        /\ \A i, j \in 1..Len(t) : i < j => r[t[i]] < r[t[j]]
        /\ \A e \in Op : e \notin Ran(t) => r[e] = order[e]
    BY <1>3, <2>1, RenumberFacts
  <2>3. \A i \in 1..Len(t) : r[t[i]] \in Nat
    BY <1>3, <2>2 DEF Ord
  <2> QED
    BY <2>2, <2>3
<1>5. CASE ~(WrappingSub(y, x) <= 1)
  <2>1. r = [order EXCEPT ![o] = Midpoint(x, y)]
    BY <1>5 DEF NumbersAfter, r
  <2>2. x \in Nat /\ x >= 2 /\ x <= MaxOrd
    <3>1. CASE p = 1
      BY <3>1, WidthAssumption DEF OrderBefore
    <3>2. CASE p # 1
      <4>1. p - 1 \in 1..Len(s) /\ x = order[s[p - 1]]
        BY <1>1, <3>2 DEF OrderBefore
      <4> QED
        BY <1>2, <4>1
    <3> QED
      BY <3>1, <3>2
  <2>3. y \in Nat /\ y <= MaxOrd /\ x <= y
    <3>1. CASE p = Len(s) + 1
      <4>1. y = AppendLimit(x)
        BY <3>1 DEF OrderAfter
      <4> HIDE DEF x
      <4> QED
        BY <2>2, <4>1, WidthAssumption DEF AppendLimit
    <3>2. CASE p # Len(s) + 1
      <4>1. p \in 1..Len(s) /\ y = order[s[p]]
        BY <1>1, <3>2 DEF OrderAfter
      <4>2. CASE p = 1
        BY <1>2, <4>1, <4>2 DEF OrderBefore
      <4>3. CASE p # 1
        <5>1. p - 1 \in 1..Len(s) /\ x = order[s[p - 1]] /\ p - 1 < p
          BY <1>1, <3>2, <4>3 DEF OrderBefore
        <5> QED
          BY <1>2, <4>1, <5>1
      <4> QED
        BY <4>2, <4>3
    <3> QED
      BY <3>1, <3>2
  <2>4. \A i \in 1..Len(s) : i < p => order[s[i]] <= x
    <3>1. SUFFICES ASSUME NEW i \in 1..Len(s), i < p PROVE order[s[i]] <= x
      OBVIOUS
    <3>2. p - 1 \in 1..Len(s) /\ x = order[s[p - 1]]
      BY <1>1, <3>1 DEF OrderBefore
    <3>3. i = p - 1 \/ i < p - 1
      BY <1>1, <3>1
    <3> QED
      BY <1>2, <3>1, <3>2, <3>3
  <2>5. \A i \in 1..Len(s) : i >= p => y <= order[s[i]]
    <3>1. SUFFICES ASSUME NEW i \in 1..Len(s), i >= p PROVE y <= order[s[i]]
      OBVIOUS
    <3>2. p \in 1..Len(s) /\ y = order[s[p]]
      BY <1>1, <3>1 DEF OrderAfter
    <3>3. i = p \/ i > p
      BY <1>1, <3>1
    <3> QED
      BY <1>2, <3>1, <3>2, <3>3
  <2> HIDE DEF x, y
  <2>6. x < y
    BY <1>5, <2>2, <2>3, WidthAssumption DEF WrappingSub
  <2> DEFINE m == Midpoint(x, y)
  <2>7. m \in Nat /\ x <= m /\ m <= y
    <3>1. x \in Ord /\ y \in Ord
      BY <2>2, <2>3 DEF Ord
    <3>2. m \in x..y
      BY <2>6, <3>1, MidpointFacts
    <3> QED
      BY <2>2, <2>3, <3>2
  <2> HIDE DEF m
  <2>8. r \in [Op -> Ord] /\ r[o] = m /\ \A e \in Op : e # o => r[e] = order[e]
    <3>1. m \in Ord
      BY <2>3, <2>7, WidthAssumption DEF Ord
    <3>2. r = [order EXCEPT ![o] = m]
      BY <2>1 DEF m
    <3> QED
      BY <3>1, <3>2
  <2>9. o \in Ran(t)
    BY <1>1, <1>3 DEF Ran
  <2>10. ASSUME NEW i \in 1..Len(t)
         PROVE  \/ i = p /\ r[t[i]] = m
                \/ i < p /\ i \in 1..Len(s) /\ r[t[i]] = order[s[i]]
                \/ i > p /\ i - 1 \in 1..Len(s) /\ r[t[i]] = order[s[i - 1]]
    BY <1>2, <1>3, <2>8
  <2>11. ASSUME NEW i \in 1..Len(t) PROVE r[t[i]] >= 2
    <3>1. r[t[i]] = m \/ \E k \in 1..Len(s) : r[t[i]] = order[s[k]]
      BY <2>10
    <3> QED
      BY <2>2, <2>7, <3>1
  <2>12. ASSUME NEW i \in 1..Len(t), NEW j \in 1..Len(t), i < j
         PROVE  r[t[i]] <= r[t[j]]
    <3>1. CASE i = p
      <4>1. j > p /\ j - 1 \in 1..Len(s) /\ j - 1 >= p /\ r[t[j]] = order[s[j - 1]]
        BY <1>1, <1>3, <2>10, <2>12, <3>1
      <4> QED
        BY <1>1, <1>2, <2>3, <2>5, <2>7, <2>10, <3>1, <4>1, SMTT(60)
    <3>2. CASE j = p
      BY <1>1, <1>2, <2>2, <2>4, <2>7, <2>10, <2>12, <3>2
    <3>3. CASE i < p /\ j < p
      BY <1>1, <2>10, <2>12, <3>3
    <3>4. CASE i < p /\ j > p
      <4>1. j - 1 >= p /\ i < j - 1 /\ i \in 1..Len(s) /\ j - 1 \in 1..Len(s)
        BY <1>1, <1>3, <2>10, <2>12, <3>4
      <4> QED
        BY <1>1, <2>10, <3>4, <4>1
    <3>5. CASE i > p /\ j > p
      <4>1. i - 1 < j - 1 /\ i - 1 \in 1..Len(s) /\ j - 1 \in 1..Len(s)
        BY <1>1, <1>3, <2>10, <2>12, <3>5
      <4>2. r[t[i]] = order[s[i - 1]] /\ r[t[j]] = order[s[j - 1]]
        BY <1>1, <2>10, <3>5, SMTT(60)
      <4> QED
        BY <4>1, <4>2
    <3> QED
      BY <1>1, <2>12, <3>1, <3>2, <3>3, <3>4, <3>5
  <2> QED
    BY <2>8, <2>9, <2>11, <2>12
<1> QED
    BY <1>4, <1>5

\* Inserting an op that is in no block preserves the invariant.
LEMMA InsertInv ==
    ASSUME IInv, phase = "edit", phase' = phase,
           NEW b \in Block, NEW p \in 1..Len(ops[b]) + 1, NEW o \in Op,
           ~InBlock(o), Insert(b, p, o)
    PROVE  IInv'
<1> DEFINE s == ops[b]
           t == InsertedAt(s, p, o)
<1>1. /\ s \in Seq(Op) /\ Distinct(s) /\ order \in [Op -> Ord]
      /\ \A i \in 1..Len(s) : order[s[i]] >= 2
      /\ \A i, j \in 1..Len(s) : i < j => order[s[i]] <= order[s[j]]
    BY BlockFacts DEF IInv, TypeOK, OrderMonotone, NumbersInRange
<1>2. \A c \in Block : \A i \in 1..Len(ops[c]) : ops[c][i] # o
    BY DEF InBlock, Ran
<1>0. \A i \in 1..Len(s) : s[i] # o
    BY <1>2
<1> HIDE DEF s
<1>3. /\ t \in Seq(Op) /\ Distinct(t)
      /\ \A i \in 1..Len(t) : t[i] = o \/ \E k \in 1..Len(s) : t[i] = s[k]
  <2>1. p \in 1..Len(s) + 1
    BY DEF s
  <2>2. t \in Seq(Op)
    BY <1>1, <2>1, InsertedFacts
  <2> QED
    BY <1>0, <1>1, <2>1, <2>2, InsertedElements
<1>4. ops' = [ops EXCEPT ![b] = t]
    BY DEF Insert, s
<1>5. /\ ops' \in [Block -> Seq(Op)] /\ ops'[b] = t
      /\ \A c \in Block : c # b => ops'[c] = ops[c]
    BY <1>3, <1>4 DEF IInv, TypeOK
<1>6. order' = NumbersAfter(s, p, o)
    BY <1>5 DEF Insert, NumbersAfter, s
<1>7. /\ order' \in [Op -> Ord]
      /\ \A i \in 1..Len(t) : order'[t[i]] >= 2
      /\ \A i, j \in 1..Len(t) : i < j => order'[t[i]] <= order'[t[j]]
      /\ \A e \in Op : e \notin Ran(t) => order'[e] = order[e]
  <2>1. p \in 1..Len(s) + 1
    BY DEF s
  <2> QED
    BY <1>0, <1>1, <1>6, <2>1, InsertedOrder
<1> HIDE DEF t
<1>8. \A c \in Block : c # b =>
          \A i \in 1..Len(t), j \in 1..Len(ops[c]) : t[i] # ops[c][j]
  <2>1. \A c \in Block : c # b =>
            \A k \in 1..Len(s), j \in 1..Len(ops[c]) : s[k] # ops[c][j]
    BY DEF s, IInv, TypeOK
  <2> QED
    BY <1>2, <1>3, <2>1
<1>9. phase' \in {"flow", "edit"} /\ phase' # "flow"
    OBVIOUS
<1>10. \A c \in Block : c # b =>
           \A i \in 1..Len(t), j \in 1..Len(ops'[c]) : t[i] # ops'[c][j]
    BY <1>5, <1>8
<1> QED
    BY <1>3, <1>5, <1>7, <1>9, <1>10, OneListInv

\* Flow generation preserves the invariant: numbers below the last one leave
\* room for a midpoint that does not step back.
LEMMA FlowAppendInv ==
    ASSUME IInv, NEW b \in Block, NEW o \in Op, FlowAppend(b, o)
    PROVE  IInv'
<1> DEFINE s == ops[b]
           n == Len(s)
           t == Append(s, o)
           x == OrderBefore(s, n + 1)
           m == Midpoint(x, AppendLimit(x))
<1>1. /\ s \in Seq(Op) /\ n \in Nat /\ Distinct(s) /\ order \in [Op -> Ord]
      /\ \A i \in 1..n : s[i] \in Op /\ order[s[i]] \in Nat
      /\ \A i \in 1..n : order[s[i]] >= 2 /\ order[s[i]] < MaxOrd
      /\ \A i, j \in 1..n : i < j => order[s[i]] <= order[s[j]]
    BY BlockFacts DEF IInv, TypeOK, OrderMonotone, NumbersInRange, FlowAppend, Ord
<1>2. \A c \in Block : \A i \in 1..Len(ops[c]) : ops[c][i] # o
    BY DEF FlowAppend, InBlock, Ran
<1>3. \A i \in 1..n : s[i] # o
    BY <1>2
<1>4. /\ ops' = [ops EXCEPT ![b] = t] /\ order' = [order EXCEPT ![o] = m]
      /\ phase = "flow" /\ phase' = phase
    BY DEF FlowAppend
<1>5. /\ t \in Seq(Op) /\ Len(t) = n + 1 /\ t[n + 1] = o
      /\ \A i \in 1..n : t[i] = s[i]
    BY <1>1
<1>6. /\ ops' \in [Block -> Seq(Op)] /\ ops'[b] = t
      /\ \A c \in Block : c # b => ops'[c] = ops[c]
    BY <1>4, <1>5 DEF IInv, TypeOK
<1>7. \A c \in Block : c # b =>
          \A k \in 1..n, j \in 1..Len(ops[c]) : s[k] # ops[c][j]
    BY DEF IInv, TypeOK
<1>8. x \in Nat /\ x >= 2 /\ x < MaxOrd /\ \A i \in 1..n : order[s[i]] <= x
  <2>1. CASE n = 0
    BY <2>1, WidthAssumption DEF OrderBefore
  <2>2. CASE n # 0
    <3>1. x = order[s[n]] /\ n \in 1..n
      BY <1>1, <2>2 DEF OrderBefore
    <3>2. \A i \in 1..n : i = n \/ i < n
      BY <1>1
    <3> QED
      BY <1>1, <3>1, <3>2
  <2> QED
    BY <2>1, <2>2
<1> HIDE DEF x
<1>9. m \in Nat /\ x <= m /\ m < MaxOrd
  <2>1. /\ AppendLimit(x) \in Ord /\ x \in Ord /\ x < AppendLimit(x)
    BY <1>8, WidthAssumption DEF AppendLimit, Ord
  <2>2. m \in x..AppendLimit(x) /\ m < MaxOrd
    BY <2>1, MidpointFacts
  <2> QED
    BY <1>8, <2>1, <2>2 DEF Ord
<1> HIDE DEF m, s, n, t
<1>10. /\ order' \in [Op -> Ord] /\ order'[o] = m
       /\ \A e \in Op : e # o => order'[e] = order[e]
  <2>1. m \in Ord
    BY <1>9, WidthAssumption DEF Ord
  <2> QED
    BY <1>1, <1>4, <2>1
<1>11. \A i \in 1..Len(t) : \/ i = n + 1 /\ t[i] = o /\ order'[t[i]] = m
                            \/ i \in 1..n /\ t[i] = s[i] /\ order'[t[i]] = order[s[i]]
    BY <1>1, <1>3, <1>5, <1>10
<1>12. Distinct(t)
    BY <1>1, <1>3, <1>11 DEF Distinct, n
<1>13. \A i \in 1..Len(t) : order'[t[i]] >= 2 /\ order'[t[i]] < MaxOrd
    BY <1>1, <1>8, <1>9, <1>11
<1>14. ASSUME NEW i \in 1..Len(t), NEW j \in 1..Len(t), i < j
       PROVE  order'[t[i]] <= order'[t[j]]
  <2>1. i \in 1..n
    BY <1>1, <1>5, <1>14
  <2>2. order'[t[i]] = order[s[i]]
    BY <1>1, <1>11, <2>1
  <2>3. CASE j = n + 1
    BY <1>1, <1>8, <1>9, <1>11, <2>1, <2>2, <2>3
  <2>4. CASE j \in 1..n
    BY <1>1, <1>11, <1>14, <2>1, <2>2, <2>4
  <2> QED
    BY <1>11, <2>3, <2>4
<1>15. \A e \in Op : e \notin Ran(t) => order'[e] = order[e]
    BY <1>1, <1>5, <1>10 DEF Ran
<1>16. \A c \in Block : c # b =>
           \A i \in 1..Len(t), j \in 1..Len(ops'[c]) : t[i] # ops'[c][j]
  <2>1. \A i \in 1..Len(t) : t[i] = o \/ \E k \in 1..n : t[i] = s[k]
    BY <1>11
  <2> QED
    BY <1>2, <1>6, <1>7, <2>1
<1> QED
    BY <1>4, <1>5, <1>6, <1>10, <1>12, <1>13, <1>14, <1>15, <1>16, OneListInv

\* Taking an op out of its block preserves the invariant.
LEMMA RemoveInv ==
    ASSUME IInv, NEW b \in Block, NEW t \in Seq(Op), phase' = phase, phase = "edit",
           ops' = [ops EXCEPT ![b] = t], order' = order,
           \E p \in 1..Len(ops[b]) : t = RemovedAt(ops[b], p)
    PROVE  IInv'
<1> DEFINE s == ops[b]
<1>1. PICK p \in 1..Len(s) : t = RemovedAt(s, p)
    OBVIOUS
<1>2. /\ s \in Seq(Op) /\ Len(s) \in Nat /\ Distinct(s) /\ order \in [Op -> Ord]
      /\ \A i \in 1..Len(s) : order[s[i]] >= 2
      /\ \A i, j \in 1..Len(s) : i < j => order[s[i]] <= order[s[j]]
    BY BlockFacts DEF IInv, TypeOK, OrderMonotone, NumbersInRange
<1>3. /\ ops' \in [Block -> Seq(Op)] /\ ops'[b] = t
      /\ \A c \in Block : c # b => ops'[c] = ops[c]
    BY DEF IInv, TypeOK
<1>4. \A c \in Block : c # b =>
          \A k \in 1..Len(s), j \in 1..Len(ops[c]) : s[k] # ops[c][j]
    BY DEF IInv, TypeOK
<1> HIDE DEF s
<1> DEFINE pos(i) == IF i < p THEN i ELSE i + 1
<1>5. Len(t) = Len(s) - 1 /\ \A i \in 1..Len(t) : pos(i) \in 1..Len(s) /\ t[i] = s[pos(i)]
  <2>1. /\ Len(t) = Len(s) - 1
        /\ \A i \in 1..Len(s) - 1 : (i < p => t[i] = s[i]) /\ (i >= p => t[i] = s[i + 1])
    BY <1>1, <1>2, RemovedFacts
  <2> QED
    BY <1>1, <1>2, <2>1
<1>6. \A i, j \in 1..Len(t) : (i < j => pos(i) < pos(j)) /\ (pos(i) = pos(j) => i = j)
    BY <1>1, <1>2, <1>5
<1> HIDE DEF pos
<1>7. Distinct(t)
    BY <1>2, <1>5, <1>6 DEF Distinct
<1>8. \A i \in 1..Len(t) : order'[t[i]] >= 2
    BY <1>2, <1>5
<1>9. \A i, j \in 1..Len(t) : i < j => order'[t[i]] <= order'[t[j]]
    BY <1>2, <1>5, <1>6
<1>10. \A c \in Block : c # b =>
           \A i \in 1..Len(t), j \in 1..Len(ops'[c]) : t[i] # ops'[c][j]
    BY <1>3, <1>4, <1>5
<1> QED
    BY <1>2, <1>3, <1>7, <1>8, <1>9, <1>10, OneListInv

\* A list without its last op, if that is a branch.
LEMMA UnbranchedFacts ==
    ASSUME NEW s \in Seq(Op)
    PROVE  /\ Unbranched(s) \in Seq(Op) /\ Len(Unbranched(s)) \in Nat
           /\ Len(Unbranched(s)) <= Len(s)
           /\ \A i \in 1..Len(Unbranched(s)) : Unbranched(s)[i] = s[i]
           /\ Unbranched(s) = s \/ (Len(s) \in 1..Len(s) /\ Unbranched(s) = RemovedAt(s, Len(s)))
<1>1. Len(s) \in Nat
    OBVIOUS
<1>2. CASE Len(s) > 0 /\ Kind[s[Len(s)]] = "flow"
  <2>1. Len(s) \in 1..Len(s) /\ Unbranched(s) = RemovedAt(s, Len(s))
    BY <1>1, <1>2 DEF Unbranched
  <2>2. /\ Unbranched(s) \in Seq(Op) /\ Len(Unbranched(s)) = Len(s) - 1
        /\ \A i \in 1..Len(s) - 1 : i < Len(s) => Unbranched(s)[i] = s[i]
    BY <2>1, RemovedFacts
  <2> QED
    BY <1>1, <2>1, <2>2
<1>3. CASE ~(Len(s) > 0 /\ Kind[s[Len(s)]] = "flow")
  <2>1. Unbranched(s) = s
    BY <1>3 DEF Unbranched
  <2>2. Unbranched(s) \in Seq(Op) /\ Len(Unbranched(s)) = Len(s)
    BY <2>1
  <2>3. \A i \in 1..Len(Unbranched(s)) : Unbranched(s)[i] = s[i]
    BY <2>1
  <2>4. Len(Unbranched(s)) \in Nat /\ Len(Unbranched(s)) <= Len(s)
    BY <1>1, <2>2
  <2> QED
    BY <2>1, <2>2, <2>3, <2>4, Zenon
<1> QED
    BY <1>2, <1>3

\* splice_block_basic preserves the invariant, done or given up.
LEMMA SpliceInv ==
    ASSUME IInv, NEW b \in Block, NEW c \in Block, SpliceBlockBasic(b, c)
    PROVE  IInv'
<1> DEFINE s == ops[b]
           u == Unbranched(s)
           v == ops[c]
           t == u \o v
<1>1. /\ s \in Seq(Op) /\ v \in Seq(Op) /\ Len(s) \in Nat /\ Len(v) \in Nat
      /\ Distinct(s) /\ Distinct(v)
    BY BlockFacts DEF IInv
<1>2. order \in [Op -> Ord] /\ ops \in [Block -> Seq(Op)]
    BY DEF IInv, TypeOK
<1>3. b # c /\ phase = "edit" /\ phase' = phase
    BY DEF SpliceBlockBasic
<1>4. /\ u \in Seq(Op) /\ Len(u) \in Nat /\ Len(u) <= Len(s)
      /\ \A i \in 1..Len(u) : u[i] = s[i]
      /\ u = s \/ (Len(s) \in 1..Len(s) /\ u = RemovedAt(s, Len(s)))
    BY <1>1, UnbranchedFacts
<1>5. CASE Len(v) > 0 /\ Kind[v[1]] = "phi"
  <2>1. ops' = [ops EXCEPT ![b] = u] /\ order' = order
    BY <1>5 DEF SpliceBlockBasic
  <2>2. CASE u = s
    <3>1. ops' = ops
      BY <1>2, <2>1, <2>2
    <3> QED
      BY <1>3, <2>1, <3>1 DEF IInv, TypeOK, OrderMonotone, NumbersInRange
  <2>3. CASE u # s
    <3>1. \E p \in 1..Len(ops[b]) : u = RemovedAt(ops[b], p)
      BY <1>4, <2>3
    <3> HIDE DEF u
    <3> QED
      BY <1>3, <1>4, <2>1, <3>1, RemoveInv
  <2> QED
    BY <2>2, <2>3
<1>6. CASE ~(Len(v) > 0 /\ Kind[v[1]] = "phi")
  <2>1. ops' = [ops EXCEPT ![b] = t, ![c] = <<>>] /\ order' = Renumbered(t)
    BY <1>6 DEF SpliceBlockBasic
  <2>2. \A i \in 1..Len(s), j \in 1..Len(v) : s[i] # v[j]
    BY <1>3 DEF IInv, TypeOK
  <2>3. \A e \in Block : e # b /\ e # c =>
            \A j \in 1..Len(ops[e]) : /\ \A i \in 1..Len(s) : s[i] # ops[e][j]
                                      /\ \A i \in 1..Len(v) : v[i] # ops[e][j]
    BY DEF IInv, TypeOK
  <2> HIDE DEF s, u, v
  <2>4. /\ t \in Seq(Op) /\ Len(t) = Len(u) + Len(v)
        /\ \A i \in 1..Len(u) : t[i] = u[i]
        /\ \A i \in Len(u) + 1..Len(u) + Len(v) : t[i] = v[i - Len(u)]
    BY <1>1, <1>4
  <2> HIDE DEF t
  <2>5. ASSUME NEW i \in 1..Len(t)
        PROVE  \/ i \in 1..Len(u) /\ i \in 1..Len(s) /\ t[i] = s[i]
               \/ i > Len(u) /\ i - Len(u) \in 1..Len(v) /\ t[i] = v[i - Len(u)]
    <3>1. CASE i <= Len(u)
      <4>1. i \in 1..Len(u) /\ i \in 1..Len(s)
        BY <1>1, <1>4, <2>4, <3>1
      <4> QED
        BY <1>4, <2>4, <4>1
    <3>2. CASE i > Len(u)
      <4>1. i \in Len(u) + 1..Len(u) + Len(v) /\ i - Len(u) \in 1..Len(v)
        BY <1>1, <1>4, <2>4, <3>2
      <4> QED
        BY <2>4, <3>2, <4>1
    <3> QED
      BY <1>4, <2>4, <3>1, <3>2
  <2>6. ASSUME NEW i \in 1..Len(t), NEW j \in 1..Len(t), t[i] = t[j] PROVE i = j
    <3>1. CASE i \in 1..Len(u) /\ j \in 1..Len(u)
      BY <1>1, <1>4, <2>5, <2>6, <3>1 DEF Distinct
    <3>2. CASE i > Len(u) /\ j > Len(u)
      <4>1. /\ i - Len(u) \in 1..Len(v) /\ j - Len(u) \in 1..Len(v)
            /\ v[i - Len(u)] = v[j - Len(u)]
        BY <1>4, <2>5, <2>6, <3>2, SMTT(60)
      <4>2. i - Len(u) = j - Len(u)
        BY <1>1, <4>1 DEF Distinct
      <4> QED
        BY <1>4, <4>2
    <3>3. CASE ~(i > Len(u) <=> j > Len(u))
      BY <1>4, <2>2, <2>5, <2>6, <3>3
    <3> QED
      BY <1>4, <2>4, <3>1, <3>2, <3>3
  <2>7. Distinct(t)
    BY <2>6 DEF Distinct
  <2>8. /\ order' \in [Op -> Ord]
        /\ \A i \in 1..Len(t) : order'[t[i]] >= 2
        /\ \A i, j \in 1..Len(t) : i < j => order'[t[i]] < order'[t[j]]
        /\ \A e \in Op : e \notin Ran(t) => order'[e] = order[e]
    BY <1>2, <2>1, <2>4, <2>7, RenumberFacts
  <2>9. \A i, j \in 1..Len(t) : i < j => order'[t[i]] <= order'[t[j]]
    <3>1. \A i \in 1..Len(t) : order'[t[i]] \in Nat
      BY <2>4, <2>8 DEF Ord
    <3> QED
      BY <2>8, <3>1
  <2>10. /\ ops' \in [Block -> Seq(Op)] /\ ops'[b] = t /\ ops'[c] = <<>>
         /\ \A e \in Block : e # b /\ e # c => ops'[e] = ops[e]
    <3>1. <<>> \in Seq(Op)
      OBVIOUS
    <3>2. b \in DOMAIN ops /\ c \in DOMAIN ops
      BY <1>2
    <3> QED
      BY <1>2, <1>3, <2>1, <2>4, <3>1, <3>2
  <2>11. \A e \in Block : e # b =>
             \A i \in 1..Len(t), j \in 1..Len(ops'[e]) : t[i] # ops'[e][j]
    <3>1. SUFFICES ASSUME NEW e \in Block, e # b, NEW i \in 1..Len(t), NEW j \in 1..Len(ops'[e])
                   PROVE  t[i] # ops'[e][j]
      OBVIOUS
    <3>2. e # c
      BY <2>10, <3>1
    <3>3. ops'[e] = ops[e] /\ j \in 1..Len(ops[e])
      BY <2>10, <3>1, <3>2
    <3> QED
      BY <2>3, <2>5, <3>1, <3>2, <3>3
  <2>12. \A e \in Block : e # b => ops'[e] = ops[e] \/ ops'[e] = <<>>
    BY <2>10
  <2>13. phase' \in {"flow", "edit"} /\ phase' # "flow"
    BY <1>3
  <2> QED
    BY <2>4, <2>7, <2>8, <2>9, <2>10, <2>11, <2>12, <2>13, OneListInv
<1> QED
    BY <1>5, <1>6

\* Splitting a block leaves every number and the order inside both parts.
LEMMA SplitInv ==
    ASSUME IInv, NEW b \in Block, NEW c \in Block, NEW p \in 1..Len(ops[b]),
           SplitBlock(b, p, c)
    PROVE  IInv'
<1> DEFINE s == ops[b]
           u == SubSeq(s, 1, p - 1)
           v == SubSeq(s, p, Len(s))
<1>1. s \in Seq(Op) /\ Len(s) \in Nat /\ p \in 2..Len(s) /\ b # c
    BY BlockFacts DEF IInv, SplitBlock
<1>2. /\ ops' = [ops EXCEPT ![b] = u, ![c] = v] /\ order' = order
      /\ phase' = phase /\ phase = "edit" /\ ops[c] = <<>>
    BY DEF SplitBlock
<1>3. /\ u \in Seq(Op) /\ Len(u) = p - 1 /\ \A i \in 1..p - 1 : u[i] = s[i]
      /\ v \in Seq(Op) /\ Len(v) = Len(s) - p + 1
      /\ \A i \in 1..Len(s) - p + 1 : v[i] = s[p + i - 1]
    BY <1>1
<1> HIDE DEF u, v
<1>4. /\ ops' \in [Block -> Seq(Op)] /\ ops'[b] = u /\ ops'[c] = v
      /\ \A e \in Block : e # b /\ e # c => ops'[e] = ops[e]
    BY <1>1, <1>2, <1>3 DEF IInv, TypeOK
<1> DEFINE from(e) == IF e = c THEN b ELSE e
           pos(e, i) == IF e = c THEN p + i - 1 ELSE i
<1>5. ASSUME NEW e \in Block, NEW i \in 1..Len(ops'[e])
      PROVE  /\ from(e) \in Block /\ pos(e, i) \in 1..Len(ops[from(e)])
             /\ ops'[e][i] = ops[from(e)][pos(e, i)]
             /\ e = b => pos(e, i) < p
             /\ e = c => pos(e, i) >= p
  <2>1. CASE e = b
    BY <1>1, <1>3, <1>4, <1>5, <2>1
  <2>2. CASE e = c
    <3>1. i \in 1..Len(s) - p + 1 /\ ops'[e][i] = s[p + i - 1]
      BY <1>3, <1>4, <1>5, <2>2
    <3>2. p + i - 1 \in 1..Len(s) /\ p + i - 1 >= p
      BY <1>1, <3>1
    <3> QED
      BY <1>1, <2>2, <3>1, <3>2
  <2>3. CASE e # b /\ e # c
    BY <1>4, <1>5, <2>3
  <2> QED
    BY <2>1, <2>2, <2>3
<1>6. ASSUME NEW e \in Block, NEW f \in Block,
             NEW i \in 1..Len(ops'[e]), NEW j \in 1..Len(ops'[f]),
             ops'[e][i] = ops'[f][j]
      PROVE  e = f /\ i = j
  <2>1. from(e) = from(f) /\ pos(e, i) = pos(f, j)
    <3> HIDE DEF from, pos
    <3>1. /\ from(e) \in Block /\ pos(e, i) \in 1..Len(ops[from(e)])
          /\ ops'[e][i] = ops[from(e)][pos(e, i)]
      BY <1>5, <1>6
    <3>2. /\ from(f) \in Block /\ pos(f, j) \in 1..Len(ops[from(f)])
          /\ ops'[f][j] = ops[from(f)][pos(f, j)]
      BY <1>5, <1>6
    <3>3. ops[from(e)][pos(e, i)] = ops[from(f)][pos(f, j)]
      BY <1>6, <3>1, <3>2
    <3> QED
      BY <3>1, <3>2, <3>3 DEF IInv, TypeOK
  <2>2. i \in Nat /\ j \in Nat
    BY <1>4, <1>6
  <2>3. e = f
    BY <1>1, <1>5, <1>6, <2>1, <2>2
  <2> QED
    BY <1>1, <2>1, <2>2, <2>3
<1>7. ASSUME NEW e \in Block, NEW i \in 1..Len(ops'[e]), NEW j \in 1..Len(ops'[e]), i < j
      PROVE  order'[ops'[e][i]] <= order'[ops'[e][j]]
  <2>1. pos(e, i) < pos(e, j)
    BY <1>1, <1>4, <1>7
  <2> HIDE DEF from, pos
  <2>2. /\ from(e) \in Block /\ pos(e, i) \in 1..Len(ops[from(e)])
        /\ pos(e, j) \in 1..Len(ops[from(e)])
        /\ ops'[e][i] = ops[from(e)][pos(e, i)] /\ ops'[e][j] = ops[from(e)][pos(e, j)]
    BY <1>5, <1>7
  <2>3. order[ops[from(e)][pos(e, i)]] <= order[ops[from(e)][pos(e, j)]]
    BY <2>1, <2>2 DEF IInv, OrderMonotone
  <2> QED
    BY <1>2, <2>2, <2>3
<1>8. ASSUME NEW e \in Block, NEW i \in 1..Len(ops'[e])
      PROVE  order'[ops'[e][i]] >= 2
  <2> HIDE DEF from, pos
  <2>1. /\ from(e) \in Block /\ pos(e, i) \in 1..Len(ops[from(e)])
        /\ ops'[e][i] = ops[from(e)][pos(e, i)]
    BY <1>5, <1>8
  <2>2. order[ops[from(e)][pos(e, i)]] >= 2
    BY <2>1 DEF IInv, NumbersInRange
  <2> QED
    BY <1>2, <2>1, <2>2
<1>9. TypeOK'
    BY <1>2, <1>4, <1>6 DEF IInv, TypeOK
<1> QED
    BY <1>2, <1>7, <1>8, <1>9 DEF IInv, OrderMonotone, NumbersInRange
-----------------------------------------------------------------------------
(***************************************************************************)
(* The theorems.                                                           *)
(***************************************************************************)

\* Every placement of op_insert puts an op that is in no block at a position
\* of one block.
LEMMA PlacementInserts ==
    ASSUME IInv, Placement
    PROVE  /\ phase = "edit" /\ phase' = phase
           /\ \E o \in Op, b \in Block :
                  ~InBlock(o) /\ \E q \in 1..Len(ops[b]) + 1 : Insert(b, q, o)
<1>1. PICK o \in Op, b \in Block :
          \/ InsertBegin(o, b) \/ InsertEnd(o, b)
          \/ \E p \in 1..Len(ops[b]) :
                 InsertBefore(o, b, p) \/ \E prev \in Op : InsertAfter(o, prev, b, p)
    BY DEF Placement
<1>2. Len(ops[b]) \in Nat
    BY BlockFacts DEF IInv
<1> SUFFICES /\ phase = "edit" /\ phase' = phase /\ ~InBlock(o)
             /\ \E q \in 1..Len(ops[b]) + 1 : Insert(b, q, o)
    OBVIOUS
<1>3. CASE InsertBegin(o, b)
  <2>1. 1 \in 1..Len(ops[b]) + 1
    BY <1>2
  <2> QED
    BY <1>3, <2>1 DEF InsertBegin, CanInsert
<1>4. CASE InsertEnd(o, b)
  <2>1. PICK q : Insert(b, q, o) /\ ((q = Len(ops[b]) /\ Len(ops[b]) > 0) \/ q = Len(ops[b]) + 1)
    BY <1>4 DEF InsertEnd
  <2>2. q \in 1..Len(ops[b]) + 1
    BY <1>2, <2>1
  <2> QED
    BY <1>4, <2>1, <2>2 DEF InsertEnd, CanInsert
<1>5. ASSUME NEW p \in 1..Len(ops[b]), InsertBefore(o, b, p)
      PROVE  /\ phase = "edit" /\ phase' = phase /\ ~InBlock(o)
             /\ \E q \in 1..Len(ops[b]) + 1 : Insert(b, q, o)
  <2>1. PICK q \in 1..p : Insert(b, q, o)
    BY <1>5 DEF InsertBefore
  <2>2. q \in 1..Len(ops[b]) + 1
    BY <1>2, <2>1
  <2> QED
    BY <1>5, <2>1, <2>2 DEF InsertBefore, CanInsert
<1>6. ASSUME NEW p \in 1..Len(ops[b]), NEW prev \in Op, InsertAfter(o, prev, b, p)
      PROVE  /\ phase = "edit" /\ phase' = phase /\ ~InBlock(o)
             /\ \E q \in 1..Len(ops[b]) + 1 : Insert(b, q, o)
    BY <1>6 DEF InsertAfter, CanInsert
<1> QED
    BY <1>1, <1>3, <1>4, <1>5, <1>6

LEMMA InitInv == Init => IInv
    BY WidthAssumption DEF Init, IInv, TypeOK, OrderMonotone, NumbersInRange, Ord

LEMMA NextInv == IInv /\ [Next]_vars => IInv'
<1>1. SUFFICES ASSUME IInv, [Next]_vars PROVE IInv'
    OBVIOUS
<1>2. CASE \E o \in Op, b \in Block : FlowAppend(b, o)
    BY <1>1, <1>2, FlowAppendInv
<1>3. CASE FlowDone
    BY <1>1, <1>3 DEF FlowDone, IInv, TypeOK, OrderMonotone, NumbersInRange
<1>4. CASE Placement
    BY <1>1, <1>4, PlacementInserts, InsertInv
<1>5. ASSUME NEW b \in Block, NEW p \in 1..Len(ops[b]), RemoveOp(b, p) PROVE IInv'
  <2>1. ops[b] \in Seq(Op)
    BY <1>1, BlockFacts DEF IInv
  <2>2. RemovedAt(ops[b], p) \in Seq(Op)
    BY <1>5, <2>1, RemovedFacts
  <2> QED
    BY <1>1, <1>5, <2>2, RemoveInv DEF RemoveOp
<1>6. CASE \E b, c \in Block : SpliceBlockBasic(b, c)
    BY <1>1, <1>6, SpliceInv
<1>7. CASE \E b, c \in Block : \E p \in 1..Len(ops[b]) : SplitBlock(b, p, c)
    BY <1>1, <1>7, SplitInv
<1>8. CASE UNCHANGED vars
    BY <1>1, <1>8 DEF vars, IInv, TypeOK, OrderMonotone, NumbersInRange
<1> QED
    BY <1>1, <1>2, <1>3, <1>4, <1>5, <1>6, <1>7, <1>8 DEF Next

\* The inductive invariant of the specification.
THEOREM Invariance == Spec => []IInv
    BY InitInv, NextInv, PTL DEF Spec

\* Types, and: whatever is inserted, removed, spliced or split, an op stands
\* in one block at most and once.
THEOREM TypeCorrect == Spec => []TypeOK
<1>1. IInv => TypeOK
    BY DEF IInv
<1> QED
    BY <1>1, Invariance, PTL

\* The numbers that compare_order and the covers read never contradict the
\* order of the ops in their block, at any width of the numbers.
THEOREM OrderCorrect == Spec => []OrderMonotone
<1>1. IInv => OrderMonotone
    BY DEF IInv
<1> QED
    BY <1>1, Invariance, PTL
-----------------------------------------------------------------------------
(***************************************************************************)
(* MULTIEQUALs first.                                                      *)
(***************************************************************************)

PhisLead(s) ==
    \A i, j \in 1..Len(s) : i < j /\ Kind[s[j]] = "phi" => Kind[s[i]] = "phi"

\* Op o at position p of s leaves the MULTIEQUALs in front.
Fits(s, p, o) ==
    \/ Kind[o] = "phi" /\ p = 1
    \/ Kind[o] # "phi" /\ \A i \in p..Len(s) : Kind[s[i]] # "phi"

LEMMA InsertedLead ==
    ASSUME NEW s \in Seq(Op), NEW p \in 1..Len(s) + 1, NEW o \in Op,
           PhisLead(s), Fits(s, p, o)
    PROVE  PhisLead(InsertedAt(s, p, o))
<1> DEFINE t == InsertedAt(s, p, o)
           N == Len(s)
<1>1. N \in Nat /\ p \in Nat /\ 1 <= p /\ p <= N + 1
    OBVIOUS
<1>2. /\ t \in Seq(Op) /\ Len(t) = N + 1
      /\ \A i \in 1..N + 1 : /\ i < p => t[i] = s[i]
                             /\ i = p => t[i] = o
                             /\ i > p => t[i] = s[i - 1]
    BY InsertedFacts
<1> HIDE DEF t, N
<1> SUFFICES ASSUME NEW i \in 1..N + 1, NEW j \in 1..N + 1, i < j, Kind[t[j]] = "phi"
             PROVE  Kind[t[i]] = "phi"
    BY <1>2 DEF PhisLead, t
<1>3. CASE Kind[o] = "phi" /\ p = 1
  <2>1. j > p /\ j - 1 \in 1..N /\ t[j] = s[j - 1]
    BY <1>1, <1>2, <1>3
  <2>2. CASE i = p
    BY <1>2, <1>3, <2>2
  <2>3. CASE i > p
    <3>1. i - 1 \in 1..N /\ i - 1 < j - 1 /\ t[i] = s[i - 1]
      BY <1>1, <1>2, <2>3
    <3> QED
      BY <2>1, <3>1 DEF PhisLead, N
  <2> QED
    BY <1>3, <2>2, <2>3
<1>4. CASE Kind[o] # "phi" /\ \A k \in p..N : Kind[s[k]] # "phi"
  <2>1. j # p
    BY <1>2, <1>4
  <2>2. ~(j > p)
    <3> SUFFICES ASSUME j > p PROVE FALSE
      OBVIOUS
    <3>1. j - 1 \in p..N /\ t[j] = s[j - 1]
      BY <1>1, <1>2
    <3> QED
      BY <1>4, <3>1
  <2>3. /\ i < p /\ j < p /\ i \in 1..N /\ j \in 1..N
        /\ t[i] = s[i] /\ t[j] = s[j]
    BY <1>1, <1>2, <2>1, <2>2
  <2> QED
    BY <2>3 DEF PhisLead, N
<1> QED
    BY <1>3, <1>4 DEF Fits, N

LEMMA RemovedLead ==
    ASSUME NEW s \in Seq(Op), NEW p \in 1..Len(s), PhisLead(s)
    PROVE  PhisLead(RemovedAt(s, p))
<1> DEFINE t == RemovedAt(s, p)
           N == Len(s)
           pos(i) == IF i < p THEN i ELSE i + 1
<1>1. N \in Nat /\ p \in Nat /\ 1 <= p /\ p <= N
    OBVIOUS
<1>2. /\ Len(t) = N - 1
      /\ \A i \in 1..N - 1 : (i < p => t[i] = s[i]) /\ (i >= p => t[i] = s[i + 1])
    BY RemovedFacts
<1>3. \A i \in 1..N - 1 : pos(i) \in 1..N /\ t[i] = s[pos(i)]
    BY <1>1, <1>2
<1>4. \A i, j \in 1..N - 1 : i < j => pos(i) < pos(j)
    BY <1>1
<1> HIDE DEF t, pos
<1>5. \A i, j \in 1..N : i < j /\ Kind[s[j]] = "phi" => Kind[s[i]] = "phi"
    BY DEF PhisLead
<1> HIDE DEF N
<1>6. PhisLead(t)
    BY <1>2, <1>3, <1>4, <1>5 DEF PhisLead
<1> QED
    BY <1>6 DEF t

\* A list is of MULTIEQUALs and then of others: from a position that holds
\* none on, there is none.
LEMMA NoPhiBehind ==
    ASSUME NEW s \in Seq(Op), PhisLead(s), NEW p \in Nat,
           p \in 1..Len(s) => Kind[s[p]] # "phi", p >= 1
    PROVE  \A i \in p..Len(s) : Kind[s[i]] # "phi"
    BY DEF PhisLead

\* Each placement of op_insert fits.
LEMMA PlacementFits ==
    ASSUME IInv, PhisFirst, Placement
    PROVE  \E o \in Op, b \in Block :
               ~InBlock(o) /\ \E q \in 1..Len(ops[b]) + 1 : Insert(b, q, o) /\ Fits(ops[b], q, o)
<1>1. PICK o \in Op, b \in Block :
          \/ InsertBegin(o, b) \/ InsertEnd(o, b)
          \/ \E p \in 1..Len(ops[b]) :
                 InsertBefore(o, b, p) \/ \E prev \in Op : InsertAfter(o, prev, b, p)
    BY DEF Placement
<1> DEFINE s == ops[b]
           N == Len(s)
           goal == ~InBlock(o) /\ \E q \in 1..N + 1 : Insert(b, q, o) /\ Fits(s, q, o)
<1>2. s \in Seq(Op) /\ N \in Nat /\ PhisLead(s)
    BY BlockFacts DEF IInv, PhisFirst, PhisLead
<1> HIDE DEF s, N
<1>3. ASSUME NEW p \in 1..N + 1, NEW q \in 1..N + 1, PastPhis(s, p, q), Kind[o] # "phi"
      PROVE  Fits(s, q, o)
  <2>1. q \in 1..Len(s) => Kind[s[q]] # "phi"
    BY <1>2, <1>3 DEF PastPhis, N
  <2>2. \A i \in q..Len(s) : Kind[s[i]] # "phi"
    BY <1>2, <2>1, NoPhiBehind
  <2> QED
    BY <1>3, <2>2 DEF Fits
<1>4. ASSUME InsertBegin(o, b) PROVE goal
  <2>1. 1 \in 1..N + 1
    BY <1>2
  <2>2. CASE Kind[o] = "phi"
    BY <1>4, <2>1, <2>2 DEF InsertBegin, CanInsert, Fits, N, s
  <2>3. CASE Kind[o] # "phi"
    <3>1. PICK q \in 1..N + 1 : PastPhis(s, 1, q) /\ Insert(b, q, o)
      BY <1>4, <2>3 DEF InsertBegin, N, s
    <3>2. Fits(s, q, o)
      BY <1>3, <2>1, <2>3, <3>1
    <3> QED
      BY <1>4, <3>1, <3>2 DEF InsertBegin, CanInsert
  <2> QED
    BY <2>2, <2>3
<1>5. ASSUME InsertEnd(o, b) PROVE goal
  <2> DEFINE q == IF N > 0 /\ Kind[s[N]] = "flow" THEN N ELSE N + 1
  <2>1. Insert(b, q, o) /\ Kind[o] # "phi" /\ ~InBlock(o)
    BY <1>5 DEF InsertEnd, CanInsert, N, s
  <2>2. q \in 1..N + 1
    BY <1>2
  <2>3. \A i \in q..N : Kind[s[i]] # "phi"
    BY <1>2
  <2>4. Fits(s, q, o)
    BY <2>1, <2>3 DEF Fits, N
  <2> QED
    BY <2>1, <2>2, <2>4
<1>6. ASSUME NEW p \in 1..N, InsertBefore(o, b, p) PROVE goal
  <2>1. PICK q \in 1..p : /\ \A i \in q..p - 1 : q = p \/ Kind[s[i]] = "ind"
                          /\ Insert(b, q, o)
    BY <1>6 DEF InsertBefore, s
  <2>2. Kind[o] # "phi" /\ Kind[s[p]] # "phi" /\ ~InBlock(o)
    BY <1>6 DEF InsertBefore, CanInsert, s
  <2>3. p \in Nat /\ p >= 1 /\ q \in 1..N + 1
    BY <1>2, <2>1
  <2>4. \A i \in p..Len(s) : Kind[s[i]] # "phi"
    BY <1>2, <2>2, <2>3, NoPhiBehind
  <2>5. \A i \in q..N : Kind[s[i]] # "phi"
    <3> TAKE i \in q..N
    <3>1. i \in q..p - 1 \/ i \in p..N
      BY <2>1, <2>3
    <3>2. i \in q..p - 1 => q # p
      BY <2>1, <2>3
    <3> QED
      BY <2>1, <2>4, <3>1, <3>2 DEF N
  <2>6. Fits(s, q, o)
    BY <2>2, <2>5 DEF Fits, N
  <2> QED
    BY <2>1, <2>2, <2>3, <2>6
<1>7. ASSUME NEW p \in 1..N, NEW prev \in Op, InsertAfter(o, prev, b, p) PROVE goal
  <2>1. PICK q \in 1..N + 1 : PastPhis(s, p + 1, q) /\ Insert(b, q, o)
    BY <1>7 DEF InsertAfter, N, s
  <2>2. Kind[o] # "phi" /\ ~InBlock(o) /\ p + 1 \in 1..N + 1
    BY <1>2, <1>7 DEF InsertAfter, CanInsert
  <2>3. Fits(s, q, o)
    BY <1>3, <2>1, <2>2
  <2> QED
    BY <2>1, <2>2, <2>3
<1>8. goal
    BY <1>1, <1>4, <1>5, <1>6, <1>7 DEF N, s
<1> QED
    BY <1>8 DEF N, s

\* An op appended by flow generation, a splice and a split keep the
\* MULTIEQUALs in front.
LEMMA JoinedLead ==
    ASSUME NEW u \in Seq(Op), NEW v \in Seq(Op), PhisLead(u),
           \A i \in 1..Len(v) : Kind[v[i]] # "phi"
    PROVE  PhisLead(u \o v)
<1> DEFINE t == u \o v
<1>1. /\ Len(t) = Len(u) + Len(v) /\ Len(u) \in Nat /\ Len(v) \in Nat
      /\ \A i \in 1..Len(u) : t[i] = u[i]
      /\ \A i \in Len(u) + 1..Len(u) + Len(v) : t[i] = v[i - Len(u)]
    OBVIOUS
<1> HIDE DEF t
<1> SUFFICES ASSUME NEW i \in 1..Len(t), NEW j \in 1..Len(t), i < j, Kind[t[j]] = "phi"
             PROVE  Kind[t[i]] = "phi"
    BY DEF PhisLead, t
<1>2. j <= Len(u)
  <2> SUFFICES ASSUME j > Len(u) PROVE FALSE
    BY <1>1
  <2>1. j \in Len(u) + 1..Len(u) + Len(v) /\ j - Len(u) \in 1..Len(v)
    BY <1>1
  <2> QED
    BY <1>1, <2>1
<1>3. i \in 1..Len(u) /\ j \in 1..Len(u)
    BY <1>1, <1>2
<1> QED
    BY <1>1, <1>3 DEF PhisLead

LEMMA UnbranchedLead ==
    ASSUME NEW s \in Seq(Op), PhisLead(s)
    PROVE  PhisLead(Unbranched(s))
<1>1. /\ Len(Unbranched(s)) \in Nat /\ Len(Unbranched(s)) <= Len(s) /\ Len(s) \in Nat
      /\ \A i \in 1..Len(Unbranched(s)) : Unbranched(s)[i] = s[i]
    BY UnbranchedFacts
<1>2. \A i \in 1..Len(Unbranched(s)) : i \in 1..Len(s)
    BY <1>1
<1> QED
    BY <1>1, <1>2 DEF PhisLead

LEMMA PhisNext ==
    ASSUME IInv, PhisFirst, [Next]_vars
    PROVE  PhisFirst'
<1>1. /\ ops \in [Block -> Seq(Op)] /\ \A b \in Block : PhisLead(ops[b])
    BY DEF IInv, TypeOK, PhisFirst, PhisLead
<1>2. ASSUME \A b \in Block : PhisLead(ops'[b]) PROVE PhisFirst'
    BY <1>2 DEF PhisFirst, PhisLead
<1>3. ASSUME NEW b \in Block, NEW t, PhisLead(t), ops' = [ops EXCEPT ![b] = t]
      PROVE  PhisFirst'
    BY <1>1, <1>2, <1>3
<1>4. ASSUME NEW o \in Op, NEW b \in Block, FlowAppend(b, o) PROVE PhisFirst'
  <2>1. ops' = [ops EXCEPT ![b] = Append(ops[b], o)] /\ Kind[o] # "phi"
    BY <1>4 DEF FlowAppend
  <2>2. PhisLead(ops[b] \o <<o>>)
    <3>1. ops[b] \in Seq(Op) /\ PhisLead(ops[b]) /\ <<o>> \in Seq(Op)
          /\ \A i \in 1..Len(<<o>>) : Kind[<<o>>[i]] # "phi"
      BY <1>1, <2>1
    <3> QED
      BY <3>1, JoinedLead
  <2>3. Append(ops[b], o) = ops[b] \o <<o>>
    BY <1>1
  <2> QED
    BY <1>3, <2>1, <2>2, <2>3
<1>5. CASE Placement
  <2>0. PICK o \in Op, b \in Block :
            \E q \in 1..Len(ops[b]) + 1 : Insert(b, q, o) /\ Fits(ops[b], q, o)
    BY <1>5, PlacementFits
  <2>1. PICK q \in 1..Len(ops[b]) + 1 : Insert(b, q, o) /\ Fits(ops[b], q, o)
    BY <2>0
  <2>2. PhisLead(InsertedAt(ops[b], q, o))
    BY <1>1, <2>1, InsertedLead
  <2>3. ops' = [ops EXCEPT ![b] = InsertedAt(ops[b], q, o)]
    BY <2>1 DEF Insert
  <2> QED
    BY <1>3, <2>2, <2>3
<1>6. ASSUME NEW b \in Block, NEW p \in 1..Len(ops[b]), RemoveOp(b, p) PROVE PhisFirst'
  <2>1. PhisLead(RemovedAt(ops[b], p))
    BY <1>1, RemovedLead
  <2>2. ops' = [ops EXCEPT ![b] = RemovedAt(ops[b], p)]
    BY <1>6 DEF RemoveOp
  <2> QED
    BY <1>3, <2>1, <2>2
<1>7. ASSUME NEW b \in Block, NEW c \in Block, SpliceBlockBasic(b, c) PROVE PhisFirst'
  <2> DEFINE u == Unbranched(ops[b])
             v == ops[c]
  <2>1. u \in Seq(Op) /\ v \in Seq(Op) /\ PhisLead(u) /\ PhisLead(v) /\ b # c
    BY <1>1, <1>7, UnbranchedFacts, UnbranchedLead DEF SpliceBlockBasic
  <2>2. CASE Len(v) > 0 /\ Kind[v[1]] = "phi"
    <3>1. ops' = [ops EXCEPT ![b] = u]
      BY <1>7, <2>2 DEF SpliceBlockBasic
    <3> HIDE DEF u
    <3> QED
      BY <1>3, <2>1, <3>1
  <2>3. CASE ~(Len(v) > 0 /\ Kind[v[1]] = "phi")
    <3>1. ops' = [ops EXCEPT ![b] = u \o v, ![c] = <<>>]
      BY <1>7, <2>3 DEF SpliceBlockBasic
    <3>2. \A i \in 1..Len(v) : Kind[v[i]] # "phi"
      <4>1. 1 \in 1..Len(v) => Kind[v[1]] # "phi"
        BY <2>1, <2>3
      <4> HIDE DEF v
      <4> QED
        BY <2>1, <4>1, NoPhiBehind
    <3> HIDE DEF u, v
    <3>3. PhisLead(u \o v) /\ PhisLead(<<>>)
      <4>1. PhisLead(<<>>)
        BY DEF PhisLead
      <4> QED
        BY <2>1, <3>2, <4>1, JoinedLead
    <3> DEFINE t == u \o v
    <3> HIDE DEF t
    <3>4. \A e \in Block : ops'[e] = IF e = c THEN <<>> ELSE IF e = b THEN t ELSE ops[e]
      BY <1>1, <2>1, <3>1 DEF t
    <3> QED
      BY <1>1, <1>2, <3>3, <3>4 DEF t
  <2> QED
    BY <2>2, <2>3
<1>8. ASSUME NEW b \in Block, NEW c \in Block, NEW p \in 1..Len(ops[b]), SplitBlock(b, p, c)
      PROVE  PhisFirst'
  <2> DEFINE s == ops[b]
             u == SubSeq(s, 1, p - 1)
             v == SubSeq(s, p, Len(s))
  <2>1. s \in Seq(Op) /\ Len(s) \in Nat /\ PhisLead(s) /\ p \in 2..Len(s) /\ b # c
        /\ Kind[s[p]] # "phi" /\ ops' = [ops EXCEPT ![b] = u, ![c] = v]
    BY <1>1, <1>8 DEF SplitBlock
  <2>2. /\ u \in Seq(Op) /\ Len(u) = p - 1 /\ \A i \in 1..p - 1 : u[i] = s[i]
        /\ v \in Seq(Op) /\ Len(v) = Len(s) - p + 1
        /\ \A i \in 1..Len(s) - p + 1 : v[i] = s[p + i - 1]
    BY <2>1
  <2> HIDE DEF u, v, s
  <2>3. PhisLead(u)
    <3>1. \A i \in 1..p - 1 : i \in 1..Len(s)
      BY <2>1
    <3> QED
      BY <2>1, <2>2, <3>1 DEF PhisLead
  <2>4. PhisLead(v)
    <3>1. p \in Nat /\ p >= 1
      BY <2>1
    <3>2. \A i \in p..Len(s) : Kind[s[i]] # "phi"
      BY <2>1, <3>1, NoPhiBehind
    <3>3. \A i \in 1..Len(s) - p + 1 : p + i - 1 \in p..Len(s)
      BY <2>1
    <3>4. \A i \in 1..Len(v) : Kind[v[i]] # "phi"
      BY <2>2, <3>2, <3>3, SMTT(60)
    <3> QED
      BY <3>4 DEF PhisLead
  <2>5. \A e \in Block : ops'[e] = IF e = c THEN v ELSE IF e = b THEN u ELSE ops[e]
    BY <1>1, <2>1
  <2> QED
    BY <1>1, <1>2, <2>3, <2>4, <2>5
<1>9. CASE FlowDone \/ UNCHANGED vars
    BY <1>9 DEF FlowDone, vars, PhisFirst
<1> QED
    BY <1>4, <1>5, <1>6, <1>7, <1>8, <1>9 DEF Next

\* op_insert_before, after, begin and end, splices and splits leave no
\* ordinary op in front of a MULTIEQUAL of its block: heritage and the
\* printer read the MULTIEQUALs as the head of the list.
THEOREM PhisStayFirst == Spec => []PhisFirst
<1>1. Init => PhisFirst
    BY DEF Init, PhisFirst
<1>2. IInv /\ PhisFirst /\ [Next]_vars => PhisFirst'
    BY PhisNext
<1> QED
    BY <1>1, <1>2, Invariance, PTL DEF Spec
-----------------------------------------------------------------------------
(***************************************************************************)
(* Comparisons.                                                            *)
(***************************************************************************)

\* Ops x and y of block b that stay there keep the result of comparing them.
Keeps(b) ==
    \A x, y \in Ran(ops[b]) \cap Ran(ops'[b]) :
        order[x] < order[y] => order'[x] < order'[y]

\* A list renumbered whole: ops that were numbered in its order stay so.
LEMMA RenumberedKeeps ==
    ASSUME NEW t \in Seq(Op), Distinct(t), order \in [Op -> Ord],
           NEW x \in Ran(t), NEW y \in Ran(t), order[x] < order[y],
           \A i, j \in 1..Len(t) :
               t[i] = x /\ t[j] = y /\ j < i => order[y] <= order[x]
    PROVE  Renumbered(t)[x] < Renumbered(t)[y]
<1>1. PICK i \in 1..Len(t) : t[i] = x
    BY DEF Ran
<1>2. PICK j \in 1..Len(t) : t[j] = y
    BY DEF Ran
<1>3. x \in Op /\ y \in Op /\ order[x] \in Int /\ order[y] \in Int
    BY <1>1, <1>2, WidthAssumption DEF Ord
<1>4. i < j
  <2>1. ~(j < i)
    BY <1>1, <1>2, <1>3
  <2>2. i # j
    BY <1>1, <1>2, <1>3
  <2> QED
    BY <2>1, <2>2
<1>5. \A k, l \in 1..Len(t) : k < l => Renumbered(t)[t[k]] < Renumbered(t)[t[l]]
    BY RenumberFacts
<1> QED
    BY <1>1, <1>2, <1>4, <1>5

\* insert_op: with room nothing but the new op is numbered; without, the
\* block is renumbered in an order that contains the old one.
LEMMA InsertKeeps ==
    ASSUME IInv, NEW b \in Block, NEW p \in 1..Len(ops[b]) + 1, NEW o \in Op,
           ~InBlock(o), Insert(b, p, o), NEW e \in Block
    PROVE  Keeps(e)
<1> DEFINE s == ops[b]
           t == InsertedAt(s, p, o)
<1>1. /\ s \in Seq(Op) /\ Distinct(s) /\ order \in [Op -> Ord] /\ Len(s) \in Nat
      /\ p \in 1..Len(s) + 1
      /\ \A i, j \in 1..Len(s) : i < j => order[s[i]] <= order[s[j]]
    BY BlockFacts DEF IInv, TypeOK, OrderMonotone
<1>2. \A c \in Block : \A i \in 1..Len(ops[c]) : ops[c][i] # o
    BY DEF InBlock, Ran
<1>3. \A i \in 1..Len(s) : s[i] # o
    BY <1>2
<1> SUFFICES ASSUME NEW x \in Ran(ops[e]) \cap Ran(ops'[e]),
                    NEW y \in Ran(ops[e]) \cap Ran(ops'[e]), order[x] < order[y]
             PROVE  order'[x] < order'[y]
    BY DEF Keeps
<1>4. x # o /\ y # o /\ x \in Op /\ y \in Op
    BY <1>2, BlockFacts DEF Ran, IInv
<1>5. ops' = [ops EXCEPT ![b] = t] /\ ops'[b] = t
    BY DEF Insert, IInv, TypeOK
<1>6. \/ order' = Renumbered(t)
      \/ \E m : order' = [order EXCEPT ![o] = m]
    BY <1>5 DEF Insert
<1>7. CASE \E m : order' = [order EXCEPT ![o] = m]
    BY <1>1, <1>4, <1>7
<1>8. CASE order' = Renumbered(t)
  <2>1. t \in Seq(Op) /\ Distinct(t)
    BY <1>1, <1>3, InsertedFacts, InsertedElements
  <2>2. \A i \in 1..Len(t) :
            \/ i = p /\ t[i] = o
            \/ i < p /\ i \in 1..Len(s) /\ t[i] = s[i]
            \/ i > p /\ i - 1 \in 1..Len(s) /\ t[i] = s[i - 1]
    BY <1>1, <1>3, InsertedElements
  <2>3. CASE e = b
    <3>1. x \in Ran(t) /\ y \in Ran(t)
      BY <1>5, <2>3
    <3> HIDE DEF s, t
    <3>2. ASSUME NEW i \in 1..Len(t), NEW j \in 1..Len(t), t[i] = x, t[j] = y, j < i
          PROVE  order[y] <= order[x]
      <4> DEFINE k == IF i < p THEN i ELSE i - 1
                 l == IF j < p THEN j ELSE j - 1
      <4>1. i # p /\ j # p
        BY <1>4, <2>2, <3>2
      <4>2. k \in 1..Len(s) /\ l \in 1..Len(s) /\ l < k
        BY <1>1, <2>1, <2>2, <3>2, <4>1
      <4>3. x = s[k] /\ y = s[l]
        BY <2>2, <3>2, <4>1
      <4> HIDE DEF k, l
      <4> QED
        BY <1>1, <4>2, <4>3
    <3>3. Renumbered(t)[x] < Renumbered(t)[y]
      BY <1>1, <2>1, <3>1, <3>2, RenumberedKeeps
    <3> QED
      BY <1>8, <3>3
  <2>4. CASE e # b
    <3>1. \A i \in 1..Len(s) : s[i] # x /\ s[i] # y
      BY <2>4 DEF IInv, TypeOK, Ran
    <3>2. x \notin Ran(t) /\ y \notin Ran(t)
      BY <1>4, <2>2, <3>1 DEF Ran
    <3> HIDE DEF t
    <3>3. Renumbered(t)[x] = order[x] /\ Renumbered(t)[y] = order[y]
      BY <1>1, <1>4, <2>1, <3>2, RenumberFacts
    <3> QED
      BY <1>8, <3>3
  <2> QED
    BY <2>3, <2>4
<1> QED
    BY <1>6, <1>7, <1>8

\* The ops a splice appends come behind those that were there.
LEMMA SpliceKeeps ==
    ASSUME IInv, NEW b \in Block, NEW c \in Block, SpliceBlockBasic(b, c), NEW e \in Block
    PROVE  Keeps(e)
<1> DEFINE s == ops[b]
           u == Unbranched(s)
           v == ops[c]
           t == u \o v
<1>1. /\ s \in Seq(Op) /\ v \in Seq(Op) /\ Len(s) \in Nat /\ Len(v) \in Nat
      /\ Distinct(s) /\ Distinct(v) /\ order \in [Op -> Ord] /\ b # c
      /\ \A i, j \in 1..Len(s) : i < j => order[s[i]] <= order[s[j]]
    BY BlockFacts DEF IInv, TypeOK, OrderMonotone, SpliceBlockBasic
<1>2. /\ u \in Seq(Op) /\ Len(u) \in Nat /\ Len(u) <= Len(s)
      /\ \A i \in 1..Len(u) : u[i] = s[i]
    BY <1>1, UnbranchedFacts
<1>3. \A i \in 1..Len(s), j \in 1..Len(v) : s[i] # v[j]
    BY <1>1 DEF IInv, TypeOK
<1> SUFFICES ASSUME NEW x \in Ran(ops[e]) \cap Ran(ops'[e]),
                    NEW y \in Ran(ops[e]) \cap Ran(ops'[e]), order[x] < order[y]
             PROVE  order'[x] < order'[y]
    BY DEF Keeps
<1>4. CASE order' = order
    BY <1>4
<1>5. CASE ops' = [ops EXCEPT ![b] = t, ![c] = <<>>] /\ order' = Renumbered(t)
  <2>1. x \in Op /\ y \in Op
    BY BlockFacts DEF Ran, IInv
  <2>2. /\ e = b => ops'[e] = t
        /\ e # c
    <3>1. e = c => ops'[e] = <<>>
      BY <1>5 DEF IInv, TypeOK
    <3>2. Ran(<<>>) = {}
      BY DEF Ran
    <3>3. e # c
      BY <3>1, <3>2
    <3> HIDE DEF t
    <3> QED
      BY <1>1, <1>5, <3>3 DEF IInv, TypeOK
  <2>3. /\ \A i \in 1..Len(s) : e # b => s[i] # x /\ s[i] # y
        /\ \A i \in 1..Len(v) : v[i] # x /\ v[i] # y
    <3>1. PICK k \in 1..Len(ops[e]) : ops[e][k] = x
      BY DEF Ran
    <3>2. PICK l \in 1..Len(ops[e]) : ops[e][l] = y
      BY DEF Ran
    <3>3. \A f \in Block : f # e =>
              \A i \in 1..Len(ops[f]) : ops[f][i] # ops[e][k] /\ ops[f][i] # ops[e][l]
      BY DEF IInv, TypeOK
    <3> QED
      BY <2>2, <3>1, <3>2, <3>3
  <2> HIDE DEF s, u, v
  <2>4. /\ t \in Seq(Op) /\ Len(t) = Len(u) + Len(v)
        /\ \A i \in 1..Len(u) : t[i] = u[i]
        /\ \A i \in Len(u) + 1..Len(u) + Len(v) : t[i] = v[i - Len(u)]
    BY <1>1, <1>2
  <2> HIDE DEF t
  <2>5. ASSUME NEW i \in 1..Len(t)
        PROVE  \/ i \in 1..Len(s) /\ t[i] = s[i] /\ i <= Len(u)
               \/ i > Len(u) /\ i - Len(u) \in 1..Len(v) /\ t[i] = v[i - Len(u)]
    <3>1. CASE i <= Len(u)
      <4>1. i \in 1..Len(u) /\ i \in 1..Len(s)
        BY <1>1, <1>2, <2>4, <3>1
      <4> QED
        BY <1>2, <2>4, <3>1, <4>1
    <3>2. CASE i > Len(u)
      <4>1. i \in Len(u) + 1..Len(u) + Len(v) /\ i - Len(u) \in 1..Len(v)
        BY <1>1, <1>2, <2>4, <3>2
      <4> QED
        BY <2>4, <3>2, <4>1
    <3> QED
      BY <1>2, <2>4, <3>1, <3>2
  <2>6. Distinct(t)
    <3> SUFFICES ASSUME NEW i \in 1..Len(t), NEW j \in 1..Len(t), t[i] = t[j] PROVE i = j
      BY DEF Distinct
    <3>1. CASE i <= Len(u) /\ j <= Len(u)
      <4>1. i \in 1..Len(s) /\ j \in 1..Len(s) /\ s[i] = s[j]
        BY <1>2, <2>4, <2>5, <3>1
      <4> QED
        BY <1>1, <4>1 DEF Distinct
    <3>2. CASE i > Len(u) /\ j > Len(u)
      <4>1. /\ i - Len(u) \in 1..Len(v) /\ j - Len(u) \in 1..Len(v)
            /\ v[i - Len(u)] = v[j - Len(u)]
        BY <1>2, <2>4, <2>5, <3>2
      <4>2. i - Len(u) = j - Len(u)
        BY <1>1, <4>1 DEF Distinct
      <4> QED
        BY <1>2, <2>4, <4>2
    <3>3. CASE (i <= Len(u) /\ j > Len(u)) \/ (i > Len(u) /\ j <= Len(u))
      BY <1>2, <1>3, <2>4, <2>5, <3>3
    <3> QED
      BY <1>2, <2>4, <3>1, <3>2, <3>3
  <2>7. CASE e = b
    <3>1. x \in Ran(t) /\ y \in Ran(t)
      BY <2>2, <2>7
    <3>2. ASSUME NEW i \in 1..Len(t), NEW j \in 1..Len(t), t[i] = x, t[j] = y, j < i
          PROVE  order[y] <= order[x]
      <4>1. i \in 1..Len(s) /\ j \in 1..Len(s) /\ s[i] = x /\ s[j] = y
        BY <2>3, <2>5, <3>2
      <4> QED
        BY <1>1, <3>2, <4>1
    <3>3. Renumbered(t)[x] < Renumbered(t)[y]
      BY <1>1, <2>4, <2>6, <3>1, <3>2, RenumberedKeeps
    <3> QED
      BY <1>5, <3>3
  <2>8. CASE e # b
    <3>1. x \notin Ran(t) /\ y \notin Ran(t)
      BY <2>3, <2>5, <2>8 DEF Ran
    <3>2. Renumbered(t)[x] = order[x] /\ Renumbered(t)[y] = order[y]
      BY <1>1, <2>1, <2>4, <2>6, <3>1, RenumberFacts
    <3> QED
      BY <1>5, <3>2
  <2> QED
    BY <2>7, <2>8
<1> QED
    BY <1>4, <1>5 DEF SpliceBlockBasic

LEMMA NextKeeps ==
    ASSUME IInv, [Next]_vars, NEW e \in Block
    PROVE  Keeps(e)
<1>1. ASSUME NEW o \in Op, NEW b \in Block, FlowAppend(b, o) PROVE Keeps(e)
  <2>1. \E m : order' = [order EXCEPT ![o] = m]
    BY <1>1 DEF FlowAppend
  <2>2. \A x \in Ran(ops[e]) : x # o /\ x \in Op
    BY <1>1, BlockFacts DEF FlowAppend, InBlock, Ran, IInv
  <2>3. \A x \in Ran(ops[e]) : order'[x] = order[x]
    BY <2>1, <2>2 DEF IInv, TypeOK
  <2> QED
    BY <2>3 DEF Keeps
<1>2. CASE Placement
  <2>1. PICK o \in Op, b \in Block :
            ~InBlock(o) /\ \E q \in 1..Len(ops[b]) + 1 : Insert(b, q, o)
    BY <1>2, PlacementInserts
  <2> QED
    BY <2>1, InsertKeeps
<1>3. ASSUME NEW b \in Block, NEW c \in Block, SpliceBlockBasic(b, c) PROVE Keeps(e)
    BY <1>3, SpliceKeeps
<1>4. ASSUME order' = order PROVE Keeps(e)
    BY <1>4 DEF Keeps
<1> QED
    BY <1>1, <1>2, <1>3, <1>4 DEF Next, FlowDone, RemoveOp, SplitBlock, vars

\* A step between two comparisons - a renumbering in the middle of a pass,
\* the splice of a block - never reverses or levels the result compare_order
\* gave for two ops that stay in their block.
THEOREM ComparisonsStable == Spec => ComparisonStable
<1>1. IInv /\ [Next]_vars =>
          [\A b \in Block : \A x, y \in Ran(ops[b]) \cap Ran(ops'[b]) :
               order[x] < order[y] => order'[x] < order'[y]]_vars
    BY NextKeeps DEF Keeps
<1> QED
    BY <1>1, Invariance, PTL DEF Spec, ComparisonStable
=============================================================================
