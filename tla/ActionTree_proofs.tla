-------------------------- MODULE ActionTree_proofs --------------------------
(***************************************************************************)
(* Proofs about the Action tree, for every tree, every choice of flags and *)
(* every bound.                                                            *)
(*                                                                         *)
(* The call chain of nested Action::perform frames is not a variable of    *)
(* the model: it is the set S of the nodes between Root and `at`.  Chain   *)
(* says what makes a set that chain: it is closed under Parent, every node *)
(* of it but Root is the child its parent's cursor stands on, and it ends  *)
(* in `at`.  No induction over the depth of the tree is needed.            *)
(***************************************************************************)
EXTENDS ActionTree, TLAPS

USE DEF FlagBits, BreakBits, StartBits, ActionBits

\* The cursor of n's parent stands on n.
Cur(n) ==
    /\ cursor[Parent[n]] \in 1..Len(Children[Parent[n]])
    /\ Children[Parent[n]][cursor[Parent[n]]] = n

\* S is the call chain.
Chain(S) ==
    /\ S \subseteq Node /\ Root \in S /\ at \in S
    /\ \A n \in S \ {Root} : Parent[n] \in S /\ Parent[n] # at /\ Cur(n)
    /\ \A n \in S \ {at} : /\ cursor[n] \in 1..Len(Children[n])
                           /\ Children[n][cursor[n]] \in S

\* The statuses under which perform applies.
ApplyStatus == {"START", "BREAKSTARTHIT", "REPEAT", "MID"}

\* Every frame above `at`, and `at` itself in apply, is applying.  A frame
\* below the root exists only while the root's children are being run.
Applying(S) ==
    /\ \A n \in S : n # at \/ step = "apply" => status[n] \in ApplyStatus
    /\ S # {Root} => curstart # -1

ChainInv == \E S \in SUBSET Node : Chain(S) /\ Applying(S)

\* Where the control stands.
Control ==
    /\ step = "driver" => at = Root
    /\ step = "return" => at # Root
    /\ step # "driver" => result = "none"

\* The children a group has completed in this pass are the ones before its
\* cursor: for every group at any time, suspended and abandoned ones too.
Sync ==
    \A n \in Node : \A i \in 1..Len(Children[n]) :
        ran[Children[n][i]] = (IF i < cursor[n] THEN 1 ELSE 0)

\* A leaf that has had its turn cannot be applied again.
Turns ==
    \A n \in Leaf :
        /\ turns[n] <= 1
        /\ turns[n] = 1 =>
              /\ Flags[n] \cap {"once", "oneact"} # {}
              /\ \/ status[n] = "END"
                 \/ status[n] = "ACTIONBREAK" /\ ("once" \in Flags[n] \/ count[n] > 0)

Settled == restartPending => warned \/ jumptable \/ ~callback

\* What the root's own fields say of a pending restart.
Restarts ==
    /\ warned => curstart = -1
    /\ curstart = -1 => (restartPending <=> warned)
    /\ status[Root] \in {"END", "ACTIONBREAK"} \/ result = "done" => Settled

TreeInv == TypeOK /\ Control /\ ChainInv /\ Sync /\ Turns /\ Restarts
-----------------------------------------------------------------------------
LEMMA Constants ==
    /\ Root \in Node /\ MaxRestarts \in Nat /\ MaxFuel \in Nat
    /\ Callback \subseteq BOOLEAN
    /\ \A n \in Node : Parent[n] \in Node
  BY TreeAssumption, FlagAssumption

(***************************************************************************)
(* The two operators every perform ends in.                                *)
(***************************************************************************)

\* What the end of an iteration assigns: the node keeps the control to
\* repeat, or hands cnt to its caller in a settled status.
LEMMA RepeatOrReturnFacts ==
    ASSUME TypeOK, NEW n \in Node, NEW cnt \in Nat, RepeatOrReturn(n, cnt)
    PROVE  /\ at' = n /\ ret' \in Int
           /\ \/ /\ step' = "perform" /\ status' = [status EXCEPT ![n] = "REPEAT"]
                 /\ "repeat" \in Flags[n] /\ lcount[n] < cnt
                 /\ ret' = ret /\ result' = result
              \/ /\ step' = (IF n = Root THEN "driver" ELSE "return")
                 /\ status' = [status EXCEPT ![n] = DoneStatus(n, cnt)]
                 /\ ~("repeat" \in Flags[n] /\ lcount[n] < cnt)
                 /\ ret' = cnt /\ result' = (IF n = Root THEN "done" ELSE result)
  <1>1. ~(cnt < 0) /\ cnt \in Int OBVIOUS
  <1>2. QED
    BY <1>1 DEF RepeatOrReturn, Return, TypeOK

\* What apply's return assigns, in the four ways perform goes on from it.
Goes(n, res, cnt) ==
    \/ /\ res < 0 /\ breaks' = breaks
       /\ status' = [status EXCEPT ![n] = "MID"]
       /\ step' = (IF n = Root THEN "driver" ELSE "return")
       /\ ret' = -1 /\ result' = (IF n = Root THEN "break" ELSE result)
    \/ /\ res >= 0 /\ lcount[n] < cnt
       /\ breaks' = [breaks EXCEPT ![n] = @ \ {"tmpaction"}]
       /\ status' = [status EXCEPT ![n] = "ACTIONBREAK"]
       /\ step' = (IF n = Root THEN "driver" ELSE "return")
       /\ ret' = -1 /\ result' = (IF n = Root THEN "break" ELSE result)
    \/ /\ res >= 0 /\ breaks' = breaks /\ step' = "perform"
       /\ status' = [status EXCEPT ![n] = "REPEAT"]
       /\ "repeat" \in Flags[n] /\ lcount[n] < cnt
       /\ ret' = ret /\ result' = result
    \/ /\ res >= 0 /\ breaks' = breaks
       /\ step' = (IF n = Root THEN "driver" ELSE "return")
       /\ status' = [status EXCEPT ![n] = DoneStatus(n, cnt)]
       /\ ~("repeat" \in Flags[n] /\ lcount[n] < cnt)
       /\ ret' = cnt /\ result' = (IF n = Root THEN "done" ELSE result)

LEMMA ApplyReturnsFacts ==
    ASSUME TypeOK, NEW n \in Node, NEW res \in Int, NEW delta \in Nat,
           NEW cnt, cnt = count[n] + delta + (IF res > 0 THEN res ELSE 0),
           ApplyReturns(n, res, delta)
    PROVE  /\ cnt \in Nat /\ count[n] <= cnt
           /\ count' = [count EXCEPT ![n] = cnt] /\ lcount' = lcount
           /\ at' = n
           /\ Goes(n, res, cnt)
  <1>1. cnt \in Nat /\ count[n] <= cnt BY DEF TypeOK
  <1>2. ~(-1 >= 0) /\ -1 < 0 OBVIOUS
  <1>3. CASE res < 0
    <2>1. ~(res >= 0) BY <1>3
    <2>2. QED BY <1>1, <1>2, <1>3, <2>1 DEF ApplyReturns, Return, Goes
  <1>4. CASE res >= 0 /\ lcount[n] < cnt /\ breaks[n] \cap ActionBits # {}
    <2>1. ~(res < 0) BY <1>4
    <2>2. QED BY <1>1, <1>2, <1>4, <2>1 DEF ApplyReturns, Return, Goes
  <1>5. CASE res >= 0 /\ ~(lcount[n] < cnt /\ breaks[n] \cap ActionBits # {})
    <2>1. ~(res < 0) BY <1>5
    <2>2. RepeatOrReturn(n, cnt) /\ breaks' = breaks
          /\ count' = [count EXCEPT ![n] = cnt] /\ lcount' = lcount
      BY <1>5, <2>1 DEF ApplyReturns
    <2>3. QED BY <1>1, <1>5, <2>2, RepeatOrReturnFacts DEF Goes
  <1>6. QED BY <1>3, <1>4, <1>5
-----------------------------------------------------------------------------
(***************************************************************************)
(* Type correctness.                                                       *)
(***************************************************************************)

Statuses == {"START", "BREAKSTARTHIT", "REPEAT", "MID", "END", "ACTIONBREAK"}
Steps == {"driver", "perform", "apply", "return"}
Results == {"none", "break", "done", "error"}

\* The part of TypeOK that perform's bookkeeping of one node assigns.
FrameType ==
    /\ status \in [Node -> Statuses]
    /\ count \in [Node -> Nat] /\ lcount \in [Node -> Nat]
    /\ breaks \in [Node -> SUBSET BreakBits]
    /\ at \in Node /\ step \in Steps /\ ret \in Int /\ result \in Results

\* The rest of it.
DataType ==
    /\ cursor \in [Node -> Nat \ {0}] /\ pending \in [Node -> Nat]
    /\ ownPending \in Nat /\ curstart \in -1..MaxRestarts
    /\ callback \in BOOLEAN
    /\ restartPending \in BOOLEAN /\ jumptable \in BOOLEAN /\ warned \in BOOLEAN

GhostType ==
    /\ fuel \in Nat /\ changes \in Nat /\ dirty \subseteq Node
    /\ ran \in [Node -> Nat] /\ turns \in [Node -> Nat] /\ erred \in BOOLEAN

LEMMA TypeParts == TypeOK <=> FrameType /\ DataType /\ GhostType
  BY DEF TypeOK, FrameType, DataType, GhostType, Statuses, Steps, Results

LEMMA TypePartsNext == FrameType' /\ DataType' /\ GhostType' => TypeOK'
  BY DEF TypeOK, FrameType, DataType, GhostType, Statuses, Steps, Results

LEMMA DoneStatusFacts ==
    ASSUME NEW n, NEW cnt
    PROVE  DoneStatus(n, cnt) \in {"START", "END"}
  BY DEF DoneStatus

LEMMA RepeatOrReturnType ==
    ASSUME TypeOK, NEW n \in Node, NEW cnt \in Nat, RepeatOrReturn(n, cnt),
           UNCHANGED <<count, lcount, breaks>>
    PROVE  FrameType'
  <1>1. FrameType BY TypeParts
  <1>2. cnt \in Int OBVIOUS
  <1>3. DoneStatus(n, cnt) \in Statuses BY DoneStatusFacts DEF Statuses
  <1>4. QED
    BY <1>1, <1>2, <1>3, RepeatOrReturnFacts DEF FrameType, Statuses, Steps, Results

LEMMA ApplyReturnsType ==
    ASSUME TypeOK, NEW n \in Node, NEW res \in Int, NEW delta \in Nat,
           ApplyReturns(n, res, delta)
    PROVE  FrameType'
  <1> DEFINE cnt == count[n] + delta + (IF res > 0 THEN res ELSE 0)
  <1>1. FrameType BY TypeParts
  <1>2. /\ cnt \in Nat /\ count' = [count EXCEPT ![n] = cnt] /\ lcount' = lcount
        /\ at' = n /\ Goes(n, res, cnt)
    BY ApplyReturnsFacts
  <1> HIDE DEF cnt
  <1>3. DoneStatus(n, cnt) \in Statuses BY DoneStatusFacts DEF Statuses
  <1>4. count' \in [Node -> Nat] /\ lcount' \in [Node -> Nat] /\ at' \in Node
    BY <1>1, <1>2 DEF FrameType
  <1>5. breaks' \in [Node -> SUBSET BreakBits]
    BY <1>1, <1>2 DEF FrameType, Goes
  <1>6. status' \in [Node -> Statuses]
    BY <1>1, <1>2, <1>3 DEF FrameType, Goes, Statuses
  <1>7. step' \in Steps /\ ret' \in Int /\ result' \in Results
    BY <1>1, <1>2 DEF FrameType, Goes, Steps, Results
  <1>8. QED BY <1>4, <1>5, <1>6, <1>7 DEF FrameType

LEMMA TypeInit == Init => TypeOK
  <1> SUFFICES ASSUME Init PROVE TypeOK OBVIOUS
  <1>1. FrameType BY Constants DEF Init, FrameType, Statuses, Steps, Results
  <1>2. 0 \in -1..MaxRestarts BY Constants
  <1>3. callback \in BOOLEAN BY Constants DEF Init
  <1>4. DataType
    <2>1. /\ cursor \in [Node -> Nat \ {0}] /\ pending \in [Node -> Nat]
          /\ ownPending \in Nat /\ curstart \in -1..MaxRestarts
      BY <1>2 DEF Init
    <2>2. restartPending \in BOOLEAN /\ jumptable \in BOOLEAN /\ warned \in BOOLEAN
      BY Zenon DEF Init
    <2>3. QED BY <1>3, <2>1, <2>2 DEF DataType
  <1>5. GhostType BY Constants DEF Init, GhostType
  <1>6. QED BY <1>1, <1>4, <1>5, TypeParts

LEMMA TypePerform ==
    ASSUME TypeOK, Perform, UNCHANGED callback
    PROVE  TypeOK'
  <1> USE Constants
  <1>1. FrameType /\ DataType /\ GhostType BY TypeParts
  <1>2. CASE PerformStartBreak
    <2>1. FrameType'
      BY <1>1, <1>2 DEF FrameType, PerformStartBreak, Return, Statuses, Steps, Results
    <2>2. DataType' /\ GhostType'
      BY <1>1, <1>2 DEF DataType, GhostType, PerformStartBreak, restart, funcdata, ghosts
    <2>3. QED BY <2>1, <2>2, TypePartsNext
  <1>3. CASE PerformEnd
    <2>1. FrameType'
      BY <1>1, <1>3 DEF FrameType, PerformEnd, Return, Statuses, Steps, Results, actionState
    <2>2. DataType' /\ GhostType'
      BY <1>1, <1>3 DEF DataType, GhostType, PerformEnd, restart, funcdata, ghosts
    <2>3. QED BY <2>1, <2>2, TypePartsNext
  <1>4. CASE PerformApply
    <2>1. count' \in [Node -> Nat] BY <1>1, <1>4 DEF FrameType, PerformApply
    <2>2. lcount' \in [Node -> Nat] BY <2>1, <1>1, <1>4 DEF FrameType, PerformApply
    <2>3. FrameType' BY <2>1, <2>2, <1>1, <1>4 DEF FrameType, PerformApply, Steps
    <2>4. DataType' BY <1>1, <1>4 DEF DataType, FrameType, PerformApply, restart, funcdata
    <2>5. GhostType' BY <1>1, <1>4 DEF GhostType, PerformApply
    <2>6. QED BY <2>3, <2>4, <2>5, TypePartsNext
  <1>5. CASE PerformAfterActionBreak
    <2>1. count[at] \in Nat /\ at \in Node BY <1>1 DEF FrameType
    <2>2. FrameType'
      BY <1>5, <2>1, RepeatOrReturnType DEF PerformAfterActionBreak
    <2>3. DataType' /\ GhostType'
      BY <1>1, <1>5 DEF DataType, GhostType, PerformAfterActionBreak, restart, funcdata, ghosts
    <2>4. QED BY <2>2, <2>3, TypePartsNext
  <1>6. QED BY <1>2, <1>3, <1>4, <1>5 DEF Perform

LEMMA TypeLeaf ==
    ASSUME TypeOK, LeafStep, UNCHANGED callback
    PROVE  TypeOK'
  <1>1. FrameType /\ DataType /\ GhostType BY TypeParts
  <1>2. PICK h \in 0..2 : LeafApply(h) \/ PoolPark(h) \/ LeafError(h)
    BY DEF LeafStep
  <1>3. at \in Node /\ pending[at] \in Nat /\ h \in Nat /\ h \in Int /\ 0 \in Nat
        /\ pending[at] + h \in Nat /\ -1 \in Int
    BY <1>1 DEF FrameType, DataType
  <1>4. LeafRuns(h) BY <1>2 DEF LeafApply, PoolPark, LeafError
  <1>5. fuel' \in Nat /\ changes' \in Nat /\ dirty' \subseteq Node
        /\ restartPending' \in BOOLEAN
    <2>1. fuel' \in Nat /\ changes' \in Nat
      BY <1>1, <1>3, <1>4 DEF LeafRuns, GhostType
    <2>2. dirty' \subseteq Node BY <1>1, <1>4 DEF LeafRuns, GhostType
    <2>3. restartPending' \in BOOLEAN BY <1>1, <1>4, Zenon DEF LeafRuns, DataType
    <2>4. QED BY <2>1, <2>2, <2>3
  <1>6. CASE LeafApply(h)
    <2>1. FrameType'
      <3>1. ApplyReturns(at, 0, pending[at] + h) \/ ApplyReturns(at, h, 0)
        BY <1>6, Zenon DEF LeafApply
      <3>2. at \in Node /\ pending[at] + h \in Nat /\ h \in Int /\ 0 \in Int /\ 0 \in Nat
        BY <1>3
      <3>3. QED BY <3>1, <3>2, ApplyReturnsType, Zenon
    <2>2. DataType'
      BY <1>1, <1>3, <1>5, <1>6 DEF DataType, LeafApply, restart
    <2>3. GhostType'
      BY <1>1, <1>3, <1>5, <1>6 DEF GhostType, LeafApply
    <2>4. QED BY <2>1, <2>2, <2>3, TypePartsNext
  <1>7. CASE PoolPark(h)
    <2>1. FrameType'
      BY <1>3, <1>7, ApplyReturnsType DEF PoolPark
    <2>2. DataType'
      BY <1>1, <1>3, <1>5, <1>7 DEF DataType, PoolPark, restart
    <2>3. GhostType'
      BY <1>1, <1>3, <1>5, <1>7 DEF GhostType, PoolPark
    <2>4. QED BY <2>1, <2>2, <2>3, TypePartsNext
  <1>8. CASE LeafError(h)
    <2>1. FrameType'
      BY <1>1, <1>8, Constants DEF FrameType, LeafError, Fail, actionState, Steps, Results
    <2>2. pending' \in [Node -> Nat]
      <3>1. h > 0 BY <1>8 DEF LeafError
      <3>2. pending[at] + h - 1 \in Nat BY <3>1, <1>3
      <3>3. QED BY <3>2, <1>1, <1>8 DEF DataType, LeafError
    <2>3. DataType'
      BY <2>2, <1>1, <1>3, <1>5, <1>8 DEF DataType, LeafError, Fail, restart
    <2>4. GhostType'
      BY <1>1, <1>3, <1>5, <1>8 DEF GhostType, LeafError, Fail
    <2>5. QED BY <2>1, <2>3, <2>4, TypePartsNext
  <1>9. QED BY <1>2, <1>6, <1>7, <1>8

LEMMA TypeGroup ==
    ASSUME TypeOK, GroupStep, UNCHANGED callback
    PROVE  TypeOK'
  <1>1. FrameType /\ DataType /\ GhostType BY TypeParts
  <1>2. at \in Node /\ pending[at] \in Nat /\ 0 \in Int /\ -1 \in Int
        /\ Parent[at] \in Node /\ pending[Parent[at]] \in Nat /\ ownPending \in Nat
        /\ ownPending + pending[Parent[at]] \in Nat
    BY <1>1, Constants DEF FrameType, DataType
  <1>3. CASE GroupDescend
    <2>1. at' \in Node
      <3>1. Children[at] \in Seq(Node) BY <1>2, TreeAssumption
      <3>2. cursor[at] \in 1..Len(Children[at])
        BY <1>1, <1>2, <1>3, <3>1 DEF DataType, GroupDescend
      <3>3. QED BY <3>1, <3>2, <1>3 DEF GroupDescend
    <2>2. QED
      BY <2>1, <1>1, <1>3, TypePartsNext
      DEF GroupDescend, FrameType, DataType, GhostType, actionState, restart, funcdata,
          ghosts, Steps
  <1>4. CASE GroupDone
    <2>1. FrameType' BY <1>2, <1>4, ApplyReturnsType DEF GroupDone
    <2>2. DataType' /\ GhostType'
      BY <1>1, <1>2, <1>4 DEF DataType, GhostType, GroupDone, restart, funcdata, ghosts
    <2>3. QED BY <2>1, <2>2, TypePartsNext
  <1>5. CASE ChildReturns
    <2> DEFINE p == Parent[at]
    <2>1. ret \in Nat /\ p \in Node BY <1>1, <1>2, <1>5 DEF ChildReturns, FrameType
    <2>2. GhostType'
      BY <1>1, <1>2, <1>5 DEF GhostType, ChildReturns
    <2>3. /\ ran' \in [Node -> Nat]
          /\ cursor' \in [Node -> Nat \ {0}]
      BY <1>1, <1>2, <1>5 DEF DataType, GhostType, ChildReturns
    <2>4. CASE ret > 0 /\ breaks[p] \cap ActionBits # {}
      <3>1. count[p] + pending[p] + ret + (IF p = Root THEN ownPending ELSE 0) \in Nat
        BY <1>1, <2>1 DEF FrameType, DataType
      <3>2. /\ count' = [count EXCEPT ![p] = count[p] + pending[p] + ret +
                                 (IF p = Root THEN ownPending ELSE 0)]
            /\ breaks' = [breaks EXCEPT ![p] = @ \ {"tmpaction"}]
            /\ status' = [status EXCEPT ![p] = "MID"]
            /\ pending' = [pending EXCEPT ![p] = 0]
            /\ ownPending' = (IF p = Root THEN 0 ELSE ownPending)
            /\ at' = p /\ ret' = -1 /\ lcount' = lcount
            /\ step' = (IF p = Root THEN "driver" ELSE "return")
            /\ result' = (IF p # Root THEN result ELSE "break")
        BY <1>5, <2>4 DEF ChildReturns, Return
      <3>3. FrameType'
        BY <1>1, <2>1, <3>1, <3>2 DEF FrameType, Statuses, Steps, Results
      <3>4. DataType' BY <1>1, <2>1, <2>3, <3>2, <1>5 DEF DataType, ChildReturns, funcdata
      <3>5. QED BY <2>2, <3>3, <3>4, TypePartsNext
    <2>5. CASE ~(ret > 0 /\ breaks[p] \cap ActionBits # {})
      <3>1. /\ pending' = [pending EXCEPT ![p] = @ + ret]
            /\ at' = p /\ step' = "apply"
            /\ UNCHANGED <<actionState, ret, result, ownPending>>
        BY <1>5, <2>5 DEF ChildReturns
      <3>2. FrameType'
        BY <1>1, <2>1, <3>1 DEF FrameType, Steps, actionState
      <3>3. DataType' BY <1>1, <2>1, <2>3, <3>1, <1>5 DEF DataType, ChildReturns, funcdata
      <3>5. QED BY <2>2, <3>2, <3>3, TypePartsNext
    <2>6. QED BY <2>4, <2>5
  <1>6. CASE ChildSuspends
    <2>1. FrameType' BY <1>2, <1>6, ApplyReturnsType DEF ChildSuspends, GroupBreaks
    <2>2. DataType' /\ GhostType'
      BY <1>1, <1>2, <1>6 DEF DataType, GhostType, ChildSuspends, GroupBreaks, funcdata, ghosts
    <2>3. QED BY <2>1, <2>2, TypePartsNext
  <1>7. QED BY <1>3, <1>4, <1>5, <1>6 DEF GroupStep

LEMMA TypeRestart ==
    ASSUME TypeOK, RestartStep, UNCHANGED callback
    PROVE  TypeOK'
  <1> USE Constants
  <1>1. FrameType /\ DataType /\ GhostType BY TypeParts
  <1>2. pending[Root] \in Nat /\ ownPending \in Nat /\ ownPending + pending[Root] \in Nat
        /\ 0 \in Int /\ curstart \in Int /\ curstart + 1 \in Int
    BY <1>1 DEF DataType
  <1>3. CASE RestartCompleted
    <2>1. FrameType' BY <1>2, <1>3, ApplyReturnsType DEF RestartCompleted
    <2>2. DataType' /\ GhostType'
      BY <1>1, <1>2, <1>3 DEF DataType, GhostType, RestartCompleted, funcdata, ghosts
    <2>3. QED BY <2>1, <2>2, TypePartsNext
  <1>4. ASSUME RestartReturns, curstart' \in -1..MaxRestarts, warned' \in BOOLEAN
        PROVE  TypeOK'
    <2>1. FrameType' BY <1>2, <1>4, ApplyReturnsType DEF RestartReturns
    <2>2. DataType' /\ GhostType'
      BY <1>1, <1>2, <1>4 DEF DataType, GhostType, RestartReturns, ghosts
    <2>3. QED BY <2>1, <2>2, TypePartsNext
  <1>5. CASE RestartNotPending
    BY <1>1, <1>4, <1>5 DEF RestartNotPending, DataType
  <1>6. CASE RestartRefused
    BY <1>1, <1>4, <1>6 DEF RestartRefused, DataType
  <1>7. CASE RestartExceeded
    BY <1>1, <1>4, <1>7 DEF RestartExceeded, DataType
  <1>8. CASE RestartNoCallback
    BY <1>1, <1>4, <1>8 DEF RestartNoCallback, DataType
  <1>9. ASSUME RestartClears PROVE pending' \in [Node -> Nat] /\ ownPending' \in Nat
        /\ curstart' \in -1..MaxRestarts /\ warned' \in BOOLEAN /\ jumptable' \in BOOLEAN
    <2>1. pending' \in [Node -> Nat] /\ ownPending' \in Nat
      BY <1>1, <1>2, <1>9 DEF RestartClears, DataType
    <2>2. curstart' \in -1..MaxRestarts
      BY <1>1, <1>2, <1>9 DEF RestartClears, DataType
    <2>3. warned' \in BOOLEAN /\ jumptable' \in BOOLEAN
      BY <1>1, <1>9, Zenon DEF RestartClears, DataType
    <2>4. QED BY <2>1, <2>2, <2>3
  <1>10. CASE RestartAgain
    <2>1. FrameType'
      BY <1>1, <1>10 DEF RestartAgain, FrameType, control, Statuses
    <2>2. DataType' BY <1>1, <1>9, <1>10 DEF RestartAgain, DataType
    <2>3. GhostType' BY <1>1, <1>10 DEF RestartAgain, GhostType
    <2>4. QED BY <2>1, <2>2, <2>3, TypePartsNext
  <1>11. CASE RestartFlowError
    <2>1. FrameType'
      BY <1>1, <1>11 DEF RestartFlowError, Fail, FrameType, actionState, Steps, Results
    <2>2. DataType' BY <1>1, <1>9, <1>11 DEF RestartFlowError, Fail, DataType
    <2>3. GhostType' BY <1>1, <1>11 DEF RestartFlowError, Fail, GhostType
    <2>4. QED BY <2>1, <2>2, <2>3, TypePartsNext
  <1>12. QED
    BY <1>3, <1>5, <1>6, <1>7, <1>8, <1>10, <1>11 DEF RestartStep

LEMMA TypeDriver ==
    ASSUME TypeOK, Driver
    PROVE  TypeOK'
  <1> USE Constants
  <1>1. FrameType /\ DataType /\ GhostType BY TypeParts
  <1>2. CASE ResetForFunction /\ UNCHANGED callback
    <2>1. FrameType' BY <1>1, <1>2 DEF ResetForFunction, FrameType, Statuses, Results
    <2>2. DataType'
      <3>1. 0 \in -1..MaxRestarts OBVIOUS
      <3>2. QED BY <3>1, <1>1, <1>2 DEF ResetForFunction, DataType
    <2>3. GhostType' BY <1>1, <1>2 DEF ResetForFunction, GhostType
    <2>4. QED BY <2>1, <2>2, <2>3, TypePartsNext
  <1>3. CASE CallPerform /\ UNCHANGED callback
    <2>1. FrameType' BY <1>1, <1>3 DEF CallPerform, FrameType, actionState, Steps, Results
    <2>2. DataType' BY <1>1, <1>3 DEF CallPerform, DataType, restart, funcdata
    <2>3. GhostType' BY <1>1, <1>3 DEF CallPerform, GhostType
    <2>4. QED BY <2>1, <2>2, <2>3, TypePartsNext
  <1>4. CASE Debugger /\ UNCHANGED callback
    <2>1. breaks' \in [Node -> SUBSET BreakBits]
      BY <1>1, <1>4 DEF Debugger, ClearBreakPoints, SetBreakPoint, FrameType
    <2>2. FrameType'
      BY <2>1, <1>1, <1>4 DEF Debugger, ClearBreakPoints, SetBreakPoint, FrameType, control
    <2>3. DataType' /\ GhostType'
      BY <1>1, <1>4
      DEF Debugger, ClearBreakPoints, SetBreakPoint, DataType, GhostType, restart, funcdata,
          ghosts
    <2>4. QED BY <2>2, <2>3, TypePartsNext
  <1>5. QED BY <1>2, <1>3, <1>4 DEF Driver

LEMMA TypeStep == TypeOK /\ [Next]_vars => TypeOK'
  <1> SUFFICES ASSUME TypeOK, [Next]_vars PROVE TypeOK' OBVIOUS
  <1>1. CASE Engine
    BY <1>1, TypePerform, TypeLeaf, TypeGroup, TypeRestart DEF Engine
  <1>2. CASE Driver BY <1>2, TypeDriver
  <1>3. CASE UNCHANGED vars
    BY <1>3 DEF TypeOK, vars, actionState, restart, funcdata, control, ghosts
  <1>4. QED BY <1>1, <1>2, <1>3 DEF Next
-----------------------------------------------------------------------------
(***************************************************************************)
(* The call chain.                                                         *)
(***************************************************************************)

\* A group's children are distinct nodes whose Parent it is.
LEMMA Tree ==
    ASSUME NEW n \in Node, NEW i \in 1..Len(Children[n])
    PROVE  /\ Children[n][i] \in Node /\ Parent[Children[n][i]] = n
           /\ Children[n][i] # Root
           /\ \A j \in 1..Len(Children[n]) : Children[n][i] = Children[n][j] => i = j
  <1>1. Children[n] \in Seq(Node) BY TreeAssumption
  <1>2. Children[n][i] \in Node BY <1>1
  <1>3. QED BY <1>2, TreeAssumption

\* A step inside the innermost frame keeps the chain.
LEMMA ChainStay ==
    ASSUME NEW S, Chain(S), at' = at,
           \A n \in Node \ {at} : cursor'[n] = cursor[n]
    PROVE  Chain(S)'
  <1>1. \A n \in S \ {Root} : Parent[n] \in S /\ Parent[n] # at /\ Parent[n] \in Node
                              /\ cursor'[Parent[n]] = cursor[Parent[n]]
    BY DEF Chain
  <1>2. \A n \in S \ {at} : cursor'[n] = cursor[n] BY DEF Chain
  <1>3. QED BY <1>1, <1>2 DEF Chain, Cur

\* A call of the child under the cursor adds a frame.
LEMMA ChainDown ==
    ASSUME NEW S, NEW T, NEW c, Chain(S), cursor[at] \in 1..Len(Children[at]),
           c = Children[at][cursor[at]], at' = c, cursor' = cursor, T = S \cup {c}
    PROVE  Chain(T)'
  <1>1. at \in Node BY DEF Chain
  <1>2. c \in Node /\ Parent[c] = at /\ c # Root BY <1>1, Tree
  <1>3. c \notin S BY <1>2 DEF Chain
  <1>4. \A n \in S \ {Root} : Parent[n] # c BY <1>3 DEF Chain
  <1>5. at # c BY <1>3 DEF Chain
  <1>6. \A n \in T \ {Root} : Parent[n] \in T /\ Parent[n] # c /\ Cur(n)'
    <2>1. ASSUME NEW n \in S \ {Root} PROVE Parent[n] \in T /\ Parent[n] # c /\ Cur(n)'
      BY <1>4 DEF Chain, Cur
    <2>2. Parent[c] \in T /\ Parent[c] # c /\ Cur(c)'
      <3>1. Parent[c] \in T /\ Parent[c] # c BY <1>2, <1>5 DEF Chain
      <3>2. Cur(c)' BY <1>2 DEF Cur
      <3>3. QED BY <3>1, <3>2
    <2>3. QED BY <2>1, <2>2
  <1>7. \A n \in T \ {c} : cursor'[n] \in 1..Len(Children[n])
                           /\ Children[n][cursor'[n]] \in T
    BY DEF Chain
  <1>8. QED BY <1>2, <1>6, <1>7 DEF Chain

\* A return to the parent, which moves no cursor but its own, removes one.
LEMMA ChainUp ==
    ASSUME NEW S, NEW T, Chain(S), at # Root, at' = Parent[at],
           \A n \in Node \ {Parent[at]} : cursor'[n] = cursor[n], T = S \ {at}
    PROVE  Chain(T)'
  <1> DEFINE p == Parent[at]
  <1>1. at \in S /\ p \in S /\ p # at /\ Cur(at) /\ S \subseteq Node BY DEF Chain
  <1>2. \A n \in T \ {Root} : Parent[n] \in T /\ Parent[n] # p /\ Cur(n)'
    <2> SUFFICES ASSUME NEW n \in T \ {Root}
                 PROVE  Parent[n] \in T /\ Parent[n] # p /\ Cur(n)'
      OBVIOUS
    <2>1. Parent[n] \in S /\ Parent[n] # at /\ Cur(n) BY DEF Chain
    <2>2. Parent[n] # p BY <2>1, <1>1 DEF Cur
    <2>3. cursor'[Parent[n]] = cursor[Parent[n]] BY <2>1, <2>2, <1>1
    <2>4. QED BY <2>1, <2>2, <2>3 DEF Cur
  <1>3. \A n \in T \ {p} : cursor'[n] \in 1..Len(Children[n])
                           /\ Children[n][cursor'[n]] \in T
    <2> SUFFICES ASSUME NEW n \in T \ {p}
                 PROVE  cursor'[n] \in 1..Len(Children[n]) /\ Children[n][cursor'[n]] \in T
      OBVIOUS
    <2>1. n \in Node /\ cursor'[n] = cursor[n] BY <1>1
    <2>2. cursor[n] \in 1..Len(Children[n]) /\ Children[n][cursor[n]] \in S BY DEF Chain
    <2>3. Parent[Children[n][cursor[n]]] = n BY <2>1, <2>2, Tree
    <2>4. QED BY <2>1, <2>2, <2>3
  <1>4. QED BY <1>1, <1>2, <1>3 DEF Chain

\* Back in the root there is one frame.
LEMMA ChainRoot ==
    ASSUME at' = Root, step' = "apply" => status'[Root] \in ApplyStatus
    PROVE  Chain({Root})' /\ Applying({Root})' /\ ChainInv'
  <1>1. Chain({Root})' /\ Applying({Root})' BY Constants DEF Chain, Applying
  <1>2. {Root} \in SUBSET Node BY Constants
  <1>3. QED BY <1>1, <1>2 DEF ChainInv

\* The frame of n is left or loops: no other status changes.
Ends(n) ==
    /\ at' = n /\ step' # "apply"
    /\ \A m \in Node \ {n} : status'[m] = status[m]

LEMMA ApplyingEnds ==
    ASSUME NEW S, Chain(S), Applying(S), Ends(at), curstart' = curstart, cursor' = cursor
    PROVE  Chain(S)' /\ Applying(S)'
  <1>1. Chain(S)' BY ChainStay DEF Ends
  <1>2. Applying(S)' BY DEF Applying, Ends, Chain
  <1>3. QED BY <1>1, <1>2

LEMMA ApplyingUp ==
    ASSUME NEW S, NEW T, Chain(S), Applying(S), at # Root, T = S \ {at},
           at' = Parent[at], curstart' = curstart,
           \A n \in Node \ {Parent[at]} : cursor'[n] = cursor[n],
           \A m \in Node \ {Parent[at]} : status'[m] = status[m],
           step' = "apply" => status' = status
    PROVE  Chain(T)' /\ Applying(T)'
  <1>1. Chain(T)' BY ChainUp
  <1>2. Parent[at] \in S /\ Parent[at] # at /\ S \subseteq Node /\ Root \in S /\ at \in S
    BY DEF Chain
  <1>3. S # {Root} BY <1>2
  <1>4. Applying(T)' BY <1>2, <1>3 DEF Applying
  <1>5. QED BY <1>1, <1>4

LEMMA GoesEnds ==
    ASSUME TypeOK, NEW n \in Node, NEW res, NEW cnt, at' = n, Goes(n, res, cnt),
           result = "none"
    PROVE  Ends(n) /\ Control'
  BY DEF Goes, Ends, Control, TypeOK

LEMMA RepeatOrReturnEnds ==
    ASSUME TypeOK, NEW n \in Node, NEW cnt \in Nat, RepeatOrReturn(n, cnt),
           result = "none"
    PROVE  Ends(n) /\ Control'
  BY RepeatOrReturnFacts DEF Ends, Control, TypeOK

\* Every action, as what it does to the innermost frame.
LEMMA LeafEnds ==
    ASSUME TypeOK, Control, NEW h \in 0..2, LeafApply(h) \/ PoolPark(h)
    PROVE  /\ Ends(at) /\ Control' /\ at \in Node /\ at # Root
           /\ cursor' = cursor /\ curstart' = curstart
  <1>1. at \in Node /\ pending[at] + h \in Nat /\ h \in Int /\ -1 \in Int /\ 0 \in Int
        /\ 0 \in Nat
    BY DEF TypeOK
  <1>2. step = "apply" /\ result = "none" /\ IsLeaf(at)
    BY DEF LeafApply, PoolPark, LeafRuns, Control
  <1>3. at # Root BY <1>2, FlagAssumption DEF IsLeaf
  <1>4. \E res \in Int, delta \in Nat : ApplyReturns(at, res, delta)
    BY <1>1 DEF LeafApply, PoolPark
  <1>5. PICK res \in Int, delta \in Nat : ApplyReturns(at, res, delta) BY <1>4
  <1>6. \E cnt : at' = at /\ Goes(at, res, cnt)
    BY <1>1, <1>5, ApplyReturnsFacts
  <1>7. Ends(at) /\ Control' BY <1>1, <1>2, <1>6, GoesEnds
  <1>8. QED BY <1>1, <1>3, <1>7 DEF LeafApply, PoolPark, restart

LEMMA ApplyReturnsEnds ==
    ASSUME TypeOK, NEW n \in Node, NEW res \in Int, NEW delta \in Nat,
           ApplyReturns(n, res, delta), result = "none"
    PROVE  Ends(n) /\ Control'
  <1>1. \E cnt : at' = n /\ Goes(n, res, cnt) BY ApplyReturnsFacts
  <1>2. QED BY <1>1, GoesEnds

LEMMA RootEnds ==
    ASSUME TypeOK, Control,
           RestartCompleted \/ RestartNotPending \/ RestartRefused \/ RestartExceeded
           \/ RestartNoCallback
    PROVE  /\ Ends(Root) /\ Control' /\ at = Root
  <1>1. Root \in Node /\ ownPending \in Nat /\ ownPending + pending[Root] \in Nat /\ 0 \in Int
    BY Constants DEF TypeOK
  <1>2. step = "apply" /\ at = Root /\ result = "none"
    BY DEF Control, RestartCompleted, RestartNotPending, RestartRefused, RestartExceeded,
           RestartNoCallback, RestartDue
  <1>3. \E delta \in Nat : ApplyReturns(Root, 0, delta)
    BY <1>1 DEF RestartCompleted, RestartNotPending, RestartRefused, RestartExceeded,
           RestartNoCallback, RestartReturns
  <1>4. QED BY <1>1, <1>2, <1>3, ApplyReturnsEnds

LEMMA PerformEnds ==
    ASSUME TypeOK, Control, PerformStartBreak \/ PerformEnd \/ PerformAfterActionBreak
    PROVE  /\ Ends(at) /\ Control' /\ at \in Node
           /\ cursor' = cursor /\ curstart' = curstart
  <1>1. at \in Node /\ count[at] \in Nat BY DEF TypeOK
  <1>2. step = "perform" /\ result = "none"
    BY DEF Control, PerformStartBreak, PerformEnd, PerformAfterActionBreak
  <1>3. CASE PerformStartBreak
    BY <1>1, <1>2, <1>3 DEF PerformStartBreak, Return, Ends, Control, TypeOK, restart
  <1>4. CASE PerformEnd
    BY <1>1, <1>2, <1>4 DEF PerformEnd, Return, Ends, Control, restart, actionState
  <1>5. CASE PerformAfterActionBreak
    BY <1>1, <1>2, <1>5, RepeatOrReturnEnds DEF PerformAfterActionBreak, restart
  <1>6. QED BY <1>3, <1>4, <1>5

LEMMA GroupDoneEnds ==
    ASSUME TypeOK, Control, GroupDone
    PROVE  /\ Ends(at) /\ Control' /\ at \in Node /\ at # Root
           /\ cursor' = cursor /\ curstart' = curstart
  <1>1. at \in Node /\ pending[at] \in Nat /\ 0 \in Int BY DEF TypeOK
  <1>2. result = "none" BY DEF GroupDone, Control
  <1>3. QED BY <1>1, <1>2, ApplyReturnsEnds DEF GroupDone, restart

LEMMA ChildUp ==
    ASSUME TypeOK, Control, ChildReturns \/ ChildSuspends
    PROVE  /\ at # Root /\ at' = Parent[at] /\ Control' /\ curstart' = curstart
           /\ Parent[at] \in Node
           /\ \A n \in Node \ {Parent[at]} : cursor'[n] = cursor[n]
           /\ \A m \in Node \ {Parent[at]} : status'[m] = status[m]
           /\ step' = "apply" => status' = status
  <1>1. at \in Node /\ Parent[at] \in Node /\ pending[Parent[at]] \in Nat
        /\ ownPending + pending[Parent[at]] \in Nat /\ -1 \in Int
    BY Constants DEF TypeOK
  <1>2. step = "return" /\ result = "none" /\ at # Root
    BY DEF ChildReturns, ChildSuspends, Control
  <1>3. CASE ChildReturns
    <2>1. cursor' = [cursor EXCEPT ![Parent[at]] = @ + 1] /\ curstart' = curstart
      BY <1>3 DEF ChildReturns
    <2>2. \A n \in Node \ {Parent[at]} : cursor'[n] = cursor[n]
      BY <2>1 DEF TypeOK
    <2>3. CASE status' = status /\ at' = Parent[at] /\ step' = "apply" /\ result' = result
      BY <1>1, <1>2, <2>1, <2>2, <2>3 DEF Control
    <2>4. CASE status' = [status EXCEPT ![Parent[at]] = "MID"] /\ Return(Parent[at], -1)
      BY <1>1, <1>2, <2>1, <2>2, <2>4 DEF Control, Return, TypeOK
    <2>5. QED BY <1>3, <2>3, <2>4 DEF ChildReturns, actionState
  <1>4. CASE ChildSuspends
    <2>1. Ends(Parent[at]) /\ Control'
      BY <1>1, <1>2, <1>4, ApplyReturnsEnds DEF ChildSuspends, GroupBreaks
    <2>2. cursor' = cursor /\ curstart' = curstart BY <1>4 DEF ChildSuspends
    <2>3. QED BY <1>1, <1>2, <2>1, <2>2 DEF Ends
  <1>5. QED BY <1>3, <1>4

LEMMA DescendDown ==
    ASSUME TypeOK, Control, GroupDescend, NEW S, Chain(S), Applying(S),
           NEW c, c = Children[at][cursor[at]], NEW T, T = S \cup {c}
    PROVE  /\ c \in Node /\ c # Root /\ Parent[c] = at
           /\ cursor[at] \in 1..Len(Children[at])
           /\ Chain(T)' /\ Applying(T)' /\ Control'
  <1>1. at \in Node /\ cursor[at] \in Nat \ {0} BY DEF TypeOK
  <1>2. Len(Children[at]) \in Nat BY <1>1, TreeAssumption
  <1>3. cursor[at] \in 1..Len(Children[at]) BY <1>1, <1>2 DEF GroupDescend
  <1>4. c \in Node /\ Parent[c] = at /\ c # Root BY <1>1, <1>3, Tree
  <1>5. Chain(T)' BY <1>3, ChainDown DEF GroupDescend
  <1>6. Applying(T)'
    <2>1. curstart' # -1
      BY DEF GroupDescend, restart, Applying, Chain
    <2>2. \A n \in S : status[n] \in ApplyStatus BY DEF Applying, GroupDescend
    <2>3. QED BY <2>1, <2>2 DEF GroupDescend, Applying, actionState
  <1>7. Control' BY <1>4 DEF Control, GroupDescend
  <1>8. QED BY <1>3, <1>4, <1>5, <1>6, <1>7

LEMMA ChainStep ==
    ASSUME TypeOK, Control, ChainInv, Next
    PROVE  ChainInv' /\ Control'
  <1>1. PICK S \in SUBSET Node : Chain(S) /\ Applying(S) BY DEF ChainInv
  <1>2. ASSUME Ends(at), curstart' = curstart, cursor' = cursor PROVE ChainInv'
    BY <1>1, <1>2, ApplyingEnds DEF ChainInv
  <1>3. CASE PerformApply
    <2>1. /\ at' = at /\ step' = "apply" /\ status' = status /\ result' = result
          /\ curstart' = curstart
          /\ \A n \in Node \ {at} : cursor'[n] = cursor[n]
          /\ status[at] \in ApplyStatus
      BY <1>3 DEF PerformApply, restart, ApplyStatus, TypeOK
    <2>2. Chain(S)' BY <1>1, <2>1, ChainStay
    <2>3. Applying(S)' BY <1>1, <2>1 DEF Applying
    <2>4. Control' BY <1>3, <2>1 DEF Control, PerformApply
    <2>5. QED BY <2>2, <2>3, <2>4 DEF ChainInv
  <1>4. CASE Perform
    BY <1>2, <1>3, <1>4, PerformEnds DEF Perform
  <1>5. ASSUME at' = Root, step' = "driver"
        PROVE  ChainInv'
    BY <1>5, ChainRoot
  <1>6. CASE LeafStep
    <2>1. PICK h \in 0..2 : LeafApply(h) \/ PoolPark(h) \/ LeafError(h) BY <1>6 DEF LeafStep
    <2>2. CASE LeafError(h)
      BY <1>5, <2>2 DEF LeafError, Fail, Control
    <2>3. QED BY <1>2, <2>1, <2>2, LeafEnds
  <1>7. CASE GroupDescend
    <2>1. PICK c : c = Children[at][cursor[at]] OBVIOUS
    <2>2. PICK T : T = S \cup {c} OBVIOUS
    <2>3. c \in Node /\ Chain(T)' /\ Applying(T)' /\ Control'
      BY <1>1, <1>7, <2>1, <2>2, DescendDown
    <2>4. T \in SUBSET Node BY <2>2, <2>3
    <2>5. QED BY <2>3, <2>4 DEF ChainInv
  <1>8. CASE ChildReturns \/ ChildSuspends
    <2>1. PICK T : T = S \ {at} OBVIOUS
    <2>2. Chain(T)' /\ Applying(T)' BY <1>1, <1>8, <2>1, ChildUp, ApplyingUp
    <2>3. QED BY <1>1, <1>8, <2>1, <2>2, ChildUp DEF ChainInv
  <1>9. CASE GroupStep
    BY <1>2, <1>7, <1>8, <1>9, GroupDoneEnds DEF GroupStep
  <1>10. CASE RestartStep
    <2>1. CASE RestartAgain
      <3>1. at' = Root /\ step' = "apply" /\ status'[Root] = "START" /\ result' = result
        BY <2>1, Constants DEF RestartAgain, RestartClears, RestartDue, control
      <3>2. ChainInv' BY <3>1, ChainRoot DEF ApplyStatus
      <3>3. QED BY <2>1, <3>1, <3>2 DEF Control, RestartAgain, RestartClears, RestartDue
    <2>2. CASE RestartFlowError
      BY <1>5, <2>2 DEF RestartFlowError, Fail, Control
    <2>3. CASE ~RestartAgain /\ ~RestartFlowError
      <3>1. Ends(Root) /\ Control' /\ at = Root
        BY <1>10, <2>3, RootEnds DEF RestartStep
      <3>2. ChainInv' BY <3>1, ChainRoot DEF Ends
      <3>3. QED BY <3>1, <3>2
    <2>4. QED BY <2>1, <2>2, <2>3
  <1>11. CASE Driver
    <2>1. at = Root BY <1>11
      DEF Control, Driver, ResetForFunction, CallPerform, Debugger, ClearBreakPoints,
          SetBreakPoint
    <2>2. /\ at' = Root /\ step' \in {"driver", "perform"}
          /\ step' = "perform" => result' = "none"
      BY <1>11, <2>1
      DEF Control, Driver, ResetForFunction, CallPerform, Debugger, ClearBreakPoints,
          SetBreakPoint, control
    <2>3. ChainInv' BY <2>2, ChainRoot
    <2>4. Control' BY <2>2 DEF Control
    <2>5. QED BY <2>3, <2>4
  <1>12. QED BY <1>4, <1>6, <1>9, <1>10, <1>11 DEF Next, Engine
-----------------------------------------------------------------------------
(***************************************************************************)
(* Passes, turns and restarts.                                             *)
(***************************************************************************)

LEMMA SyncStep ==
    ASSUME TypeOK, Control, ChainInv, Sync, Next
    PROVE  Sync'
  <1>1. CASE UNCHANGED <<cursor, ran>> BY <1>1 DEF Sync
  <1>2. CASE PerformApply
    <2>1. CASE status[at] = "MID"
      <3>1. cursor' = cursor /\ ran' = ran BY <1>2, <2>1 DEF PerformApply, TypeOK
      <3>2. QED BY <1>1, <3>1
    <2>2. CASE status[at] # "MID"
      <3>1. /\ cursor' = [cursor EXCEPT ![at] = 1]
            /\ ran' = [n \in Node |-> IF n \in ChildSet(at) THEN 0 ELSE ran[n]]
        BY <1>2, <2>2 DEF PerformApply
      <3>2. SUFFICES ASSUME NEW n \in Node, NEW i \in 1..Len(Children[n])
                     PROVE  ran'[Children[n][i]] = IF i < cursor'[n] THEN 1 ELSE 0
        BY DEF Sync
      <3>3. Children[n][i] \in Node /\ Parent[Children[n][i]] = n BY Tree
      <3>4. CASE n = at
        <4>1. Children[n][i] \in ChildSet(at) BY <3>4 DEF ChildSet
        <4>2. cursor'[n] = 1 /\ ~(i < 1) BY <3>1, <3>4 DEF TypeOK
        <4>3. QED BY <3>1, <3>3, <4>1, <4>2
      <3>5. CASE n # at
        <4>1. Children[n][i] \notin ChildSet(at)
          <5>1. at \in Node BY DEF TypeOK
          <5>2. \A j \in 1..Len(Children[at]) : Parent[Children[at][j]] = at BY <5>1, Tree
          <5>3. QED BY <3>3, <3>5, <5>2 DEF ChildSet
        <4>2. QED BY <3>1, <3>3, <3>5, <4>1 DEF Sync, TypeOK
      <3>6. QED BY <3>4, <3>5
    <2>3. QED BY <2>1, <2>2
  <1>3. CASE ChildReturns
    <2>1. PICK S \in SUBSET Node : Chain(S) BY DEF ChainInv
    <2>2. at # Root /\ at \in Node /\ Parent[at] \in Node
      BY <1>3, Constants DEF Control, ChildReturns, TypeOK
    <2>3. Cur(at) BY <2>1, <2>2 DEF Chain
    <2>4. /\ cursor' = [cursor EXCEPT ![Parent[at]] = @ + 1]
          /\ ran' = [ran EXCEPT ![at] = @ + 1]
      BY <1>3 DEF ChildReturns
    <2>5. SUFFICES ASSUME NEW n \in Node, NEW i \in 1..Len(Children[n])
                   PROVE  ran'[Children[n][i]] = IF i < cursor'[n] THEN 1 ELSE 0
      BY DEF Sync
    <2>6. /\ Children[n][i] \in Node /\ Parent[Children[n][i]] = n
          /\ ran[Children[n][i]] = IF i < cursor[n] THEN 1 ELSE 0
      BY Tree DEF Sync
    <2>7. CASE n # Parent[at]
      BY <2>2, <2>4, <2>6, <2>7 DEF TypeOK
    <2>8. CASE n = Parent[at]
      <3>1. cursor[n] \in 1..Len(Children[n]) /\ Children[n][cursor[n]] = at
            /\ cursor'[n] = cursor[n] + 1
        BY <2>2, <2>3, <2>4, <2>8 DEF Cur, TypeOK
      <3>2. i # cursor[n] => Children[n][i] # at BY <3>1, Tree
      <3>3. CASE i = cursor[n]
        <4>1. Children[n][i] = at /\ ran[at] = 0 BY <2>6, <3>1, <3>3
        <4>2. ran'[at] = 1 BY <2>2, <2>4, <4>1 DEF TypeOK
        <4>3. i < cursor'[n] BY <3>1, <3>3
        <4>4. QED BY <4>1, <4>2, <4>3
      <3>4. CASE i # cursor[n]
        <4>1. ran'[Children[n][i]] = ran[Children[n][i]]
          BY <2>2, <2>4, <2>6, <3>2, <3>4 DEF TypeOK
        <4>2. (i < cursor[n]) <=> (i < cursor'[n]) BY <3>1, <3>4
        <4>3. QED BY <4>1, <4>2, <2>6
      <3>5. QED BY <3>3, <3>4
    <2>9. QED BY <2>7, <2>8
  <1>4. CASE RestartAgain
    <2>1. /\ cursor' = [cursor EXCEPT ![Root] = 1] /\ Root \in Node
          /\ ran' = [n \in Node |-> IF n \in ChildSet(Root) THEN 0 ELSE ran[n]]
      BY <1>4, Constants DEF RestartAgain
    <2>2. SUFFICES ASSUME NEW n \in Node, NEW i \in 1..Len(Children[n])
                   PROVE  ran'[Children[n][i]] = IF i < cursor'[n] THEN 1 ELSE 0
      BY DEF Sync
    <2>3. Children[n][i] \in Node /\ Parent[Children[n][i]] = n BY Tree
    <2>4. CASE n = Root
      <3>1. Children[n][i] \in ChildSet(Root) BY <2>4 DEF ChildSet
      <3>2. cursor'[n] = 1 /\ ~(i < 1) BY <2>1, <2>4 DEF TypeOK
      <3>3. QED BY <2>1, <2>3, <3>1, <3>2
    <2>5. CASE n # Root
      <3>1. Children[n][i] \notin ChildSet(Root)
        BY <2>1, <2>3, <2>5, Tree DEF ChildSet
      <3>2. QED BY <2>1, <2>3, <2>5, <3>1 DEF Sync, TypeOK
    <2>6. QED BY <2>4, <2>5
  <1>5. CASE Perform
    BY <1>1, <1>2, <1>5 DEF Perform, PerformStartBreak, PerformEnd, PerformAfterActionBreak, ghosts
  <1>6. CASE LeafStep
    BY <1>1, <1>6 DEF LeafStep, LeafApply, PoolPark, LeafError, Fail
  <1>7. CASE GroupStep
    BY <1>1, <1>3, <1>7 DEF GroupStep, GroupDescend, GroupDone, ChildSuspends, ghosts
  <1>8. CASE RestartStep
    BY <1>1, <1>4, <1>8
    DEF RestartStep, RestartCompleted, RestartNotPending, RestartRefused, RestartExceeded,
        RestartNoCallback, RestartFlowError, RestartReturns, Fail, ghosts
  <1>9. CASE Driver
    BY <1>1, <1>9
    DEF Driver, ResetForFunction, CallPerform, Debugger, ClearBreakPoints, SetBreakPoint, ghosts
  <1>10. QED BY <1>5, <1>6, <1>7, <1>8, <1>9 DEF Next, Engine

\* An action that counts no turn, and that leaves a leaf that has had one
\* as it is or at its end, keeps Turns.
LEMMA TurnsKept ==
    ASSUME TypeOK, Turns, NEW n \in Node, turns' = turns,
           \A m \in Node \ {n} : status'[m] = status[m] /\ count'[m] = count[m],
           n \in Leaf /\ turns[n] = 1 =>
               \/ status'[n] = "END"
               \/ status'[n] = status[n] /\ count'[n] = count[n]
    PROVE  Turns'
  BY DEF Turns, Leaf

LEMMA TurnsStep ==
    ASSUME TypeOK, Control, ChainInv, Turns, Next
    PROVE  Turns'
  <1>1. PICK S \in SUBSET Node : Chain(S) /\ Applying(S) BY DEF ChainInv
  <1>2. at \in Node /\ Root \in Node /\ at \in S BY <1>1, Constants DEF TypeOK, Chain
  <1>3. step = "apply" => ~(at \in Leaf /\ turns[at] = 1)
    BY <1>1, <1>2 DEF Applying, Turns, ApplyStatus
  <1>4. CASE UNCHANGED <<status, count, turns>> BY <1>4 DEF Turns
  <1>5. ASSUME NEW n \in Node, NEW res \in Int, NEW delta \in Nat,
               ApplyReturns(n, res, delta), turns' = turns, ~(n \in Leaf /\ turns[n] = 1)
        PROVE  Turns'
    <2>1. \E cnt : count' = [count EXCEPT ![n] = cnt] /\ Goes(n, res, cnt)
      BY <1>5, ApplyReturnsFacts
    <2>2. \A m \in Node \ {n} : status'[m] = status[m] /\ count'[m] = count[m]
      BY <2>1 DEF Goes, TypeOK
    <2>3. QED BY <1>5, <2>2, TurnsKept
  <1>6. CASE Perform
    <2>1. CASE PerformStartBreak
      <3>1. ~(at \in Leaf /\ turns[at] = 1) BY <2>1 DEF PerformStartBreak, Turns
      <3>2. turns' = turns
            /\ \A m \in Node \ {at} : status'[m] = status[m] /\ count'[m] = count[m]
        BY <2>1 DEF PerformStartBreak, TypeOK, ghosts
      <3>3. QED BY <1>2, <3>1, <3>2, TurnsKept
    <2>2. CASE PerformEnd
      BY <1>4, <2>2 DEF PerformEnd, actionState, ghosts
    <2>3. CASE PerformApply
      <3>1. ~(at \in Leaf /\ turns[at] = 1) BY <2>3 DEF PerformApply, Turns
      <3>2. turns' = turns
            /\ \A m \in Node \ {at} : status'[m] = status[m] /\ count'[m] = count[m]
        BY <2>3 DEF PerformApply, TypeOK
      <3>3. QED BY <1>2, <3>1, <3>2, TurnsKept
    <2>4. CASE PerformAfterActionBreak
      <3>1. turns' = turns /\ count' = count /\ RepeatOrReturn(at, count[at])
            /\ count[at] \in Nat /\ status[at] = "ACTIONBREAK"
        BY <1>2, <2>4 DEF PerformAfterActionBreak, TypeOK, ghosts
      <3>2. \A m \in Node \ {at} : status'[m] = status[m] /\ count'[m] = count[m]
        BY <1>2, <3>1, RepeatOrReturnFacts DEF TypeOK
      <3>3. ASSUME at \in Leaf, turns[at] = 1 PROVE status'[at] = "END"
        <4>1. /\ Flags[at] \cap {"once", "oneact"} # {}
              /\ "once" \in Flags[at] \/ count[at] > 0
          BY <3>1, <3>3 DEF Turns
        <4>2. Flags[at] \subseteq {"repeat", "once", "oneact"} BY <1>2, FlagAssumption
        <4>3. "repeat" \notin Flags[at]
          BY <1>2, <3>3, <4>1, TurnAssumption DEF Leaf, IsLeaf
        <4>4. DoneStatus(at, count[at]) = "END" BY <4>1, <4>2 DEF DoneStatus
        <4>5. status' = [status EXCEPT ![at] = DoneStatus(at, count[at])]
          BY <1>2, <3>1, <4>3, RepeatOrReturnFacts
        <4>6. QED BY <1>2, <4>4, <4>5 DEF TypeOK
      <3>4. QED BY <1>2, <3>1, <3>2, <3>3, TurnsKept
    <2>5. QED BY <1>6, <2>1, <2>2, <2>3, <2>4 DEF Perform
  <1>7. CASE LeafStep
    <2>1. PICK h \in 0..2 : LeafApply(h) \/ PoolPark(h) \/ LeafError(h) BY <1>7 DEF LeafStep
    <2>2. step = "apply" /\ at \in Leaf /\ h \in Nat /\ h \in Int /\ pending[at] + h \in Nat
          /\ pending[at] \in Nat /\ 0 \in Nat /\ 0 \in Int /\ -1 \in Int
      <3>1. LeafRuns(h) BY <2>1 DEF LeafApply, PoolPark, LeafError
      <3>2. step = "apply" /\ at \in Leaf BY <1>2, <3>1 DEF LeafRuns, Leaf
      <3>3. pending[at] \in Nat BY <1>2 DEF TypeOK
      <3>4. QED BY <3>2, <3>3
    <2>3. CASE LeafError(h)
      BY <1>4, <2>3 DEF LeafError, Fail, actionState
    <2>4. CASE PoolPark(h)
      BY <1>2, <1>3, <1>5, <2>2, <2>4 DEF PoolPark
    <2>5. CASE LeafApply(h)
      <3>1. PICK res \in Int, delta \in Nat :
               /\ ApplyReturns(at, res, delta) /\ res >= 0
               /\ h = (IF res > 0 THEN res ELSE 0) \/ (delta = pending[at] + h /\ res = 0)
        BY <2>2, <2>5 DEF LeafApply
      <3>2. PICK cnt : cnt = count[at] + delta + (IF res > 0 THEN res ELSE 0) OBVIOUS
      <3>3. /\ cnt \in Nat /\ count' = [count EXCEPT ![at] = cnt]
            /\ Goes(at, res, cnt)
        BY <1>2, <3>1, <3>2, ApplyReturnsFacts
      <3>4. h <= cnt BY <1>2, <2>2, <3>1, <3>2 DEF TypeOK
      <3>5. turns[at] = 0 BY <1>2, <1>3, <2>2 DEF Turns, TypeOK
      <3>6. CASE ~("once" \in Flags[at] \/ ("oneact" \in Flags[at] /\ h > 0))
        <4>1. turns' = turns BY <2>5, <3>6 DEF LeafApply
        <4>2. QED BY <1>2, <1>5, <3>1, <3>5, <4>1
      <3>7. CASE "once" \in Flags[at] \/ ("oneact" \in Flags[at] /\ h > 0)
        <4>1. turns' = [turns EXCEPT ![at] = @ + 1] BY <2>5, <3>7 DEF LeafApply
        <4>2. turns'[at] = 1 BY <1>2, <3>5, <4>1 DEF TypeOK
        <4>3. "repeat" \notin Flags[at]
          BY <1>2, <2>2, <3>7, TurnAssumption DEF Leaf, IsLeaf
        <4>4. DoneStatus(at, cnt) = "END"
          BY <3>3, <3>4, <3>7, <2>2 DEF DoneStatus
        <4>5. ~(res < 0) BY <3>1
        <4>6. /\ count'[at] = cnt
              /\ status'[at] = "END" \/ (status'[at] = "ACTIONBREAK")
          BY <1>2, <3>3, <4>3, <4>4, <4>5 DEF Goes, TypeOK
        <4>7. "once" \in Flags[at] \/ cnt > 0 BY <3>3, <3>4, <3>7, <2>2
        <4>8. \A m \in Leaf \ {at} :
                 status'[m] = status[m] /\ count'[m] = count[m] /\ turns'[m] = turns[m]
          BY <3>3, <4>1 DEF Goes, TypeOK, Leaf
        <4>9. Flags[at] \cap {"once", "oneact"} # {} BY <3>7
        <4>10. SUFFICES ASSUME NEW m \in Leaf
                        PROVE  /\ turns'[m] <= 1
                               /\ turns'[m] = 1 =>
                                    /\ Flags[m] \cap {"once", "oneact"} # {}
                                    /\ \/ status'[m] = "END"
                                       \/ /\ status'[m] = "ACTIONBREAK"
                                          /\ "once" \in Flags[m] \/ count'[m] > 0
          BY DEF Turns
        <4>11. CASE m = at BY <4>2, <4>6, <4>7, <4>9, <4>11
        <4>12. CASE m # at BY <4>8, <4>12 DEF Turns
        <4>13. QED BY <4>11, <4>12
      <3>8. QED BY <3>6, <3>7
    <2>6. QED BY <2>1, <2>3, <2>4, <2>5
  <1>8. CASE GroupStep
    <2>1. Parent[at] \in Node /\ pending[Parent[at]] \in Nat /\ pending[at] \in Nat
          /\ ownPending + pending[Parent[at]] \in Nat /\ 0 \in Int /\ -1 \in Int
      BY <1>2, Constants DEF TypeOK
    <2>2. CASE GroupDescend
      BY <1>4, <2>2 DEF GroupDescend, actionState, ghosts
    <2>3. CASE GroupDone
      <3>1. at \notin Leaf BY <2>3 DEF GroupDone, Leaf
      <3>2. QED BY <1>2, <1>5, <2>1, <2>3, <3>1 DEF GroupDone, ghosts
    <2>4. step = "return" => Parent[at] \notin Leaf
      <3>1. SUFFICES ASSUME step = "return" PROVE ~(Children[Parent[at]] = <<>>)
        BY DEF Leaf, IsLeaf
      <3>2. at # Root BY <3>1 DEF Control
      <3>3. Cur(at) BY <1>1, <1>2, <3>2 DEF Chain
      <3>4. QED BY <3>3 DEF Cur
    <2>5. CASE ChildReturns
      <3>1. turns' = turns /\ Parent[at] \notin Leaf BY <2>4, <2>5 DEF ChildReturns
      <3>2. \A m \in Node \ {Parent[at]} : status'[m] = status[m] /\ count'[m] = count[m]
        BY <2>1, <2>5 DEF ChildReturns, TypeOK, actionState
      <3>3. QED BY <2>1, <3>1, <3>2, TurnsKept
    <2>6. CASE ChildSuspends
      BY <1>5, <2>1, <2>4, <2>6 DEF ChildSuspends, GroupBreaks, ghosts
    <2>7. QED BY <1>8, <2>2, <2>3, <2>5, <2>6 DEF GroupStep
  <1>9. Root \notin Leaf BY FlagAssumption DEF Leaf, IsLeaf
  <1>10. CASE RestartStep
    <2>1. ownPending \in Nat /\ ownPending + pending[Root] \in Nat /\ 0 \in Int
      BY <1>2 DEF TypeOK
    <2>2. CASE RestartAgain
      BY <2>2 DEF RestartAgain, Turns, Leaf
    <2>3. CASE RestartFlowError
      BY <1>4, <2>3 DEF RestartFlowError, Fail, actionState
    <2>4. CASE ~RestartAgain /\ ~RestartFlowError
      <3>1. turns' = turns /\ \E delta \in Nat : ApplyReturns(Root, 0, delta)
        BY <1>10, <2>1, <2>4
        DEF RestartStep, RestartCompleted, RestartNotPending, RestartRefused,
            RestartExceeded, RestartNoCallback, RestartReturns, ghosts
      <3>2. QED BY <1>2, <1>5, <1>9, <2>1, <3>1
    <2>5. QED BY <2>2, <2>3, <2>4
  <1>11. CASE Driver
    <2>1. CASE ResetForFunction
      BY <2>1 DEF ResetForFunction, Turns, Leaf
    <2>2. QED
      BY <1>4, <1>11, <2>1
      DEF Driver, CallPerform, Debugger, ClearBreakPoints, SetBreakPoint, ghosts, actionState
  <1>12. QED BY <1>6, <1>7, <1>8, <1>10, <1>11 DEF Next, Engine

\* What a completed root promises depends on its status, on the result and
\* on flags only leaves, restarts and the driver write.
LEMMA RestartsKept ==
    ASSUME Restarts, UNCHANGED <<funcdata, callback, curstart>>,
           status'[Root] \in {"END", "ACTIONBREAK"} \/ result' = "done" =>
               status[Root] \in {"END", "ACTIONBREAK"} \/ result = "done"
    PROVE  Restarts'
  BY DEF Restarts, Settled, funcdata

LEMMA RestartsStep ==
    ASSUME TypeOK, Control, ChainInv, Restarts, Next
    PROVE  Restarts'
  <1>1. PICK S \in SUBSET Node : Chain(S) /\ Applying(S) BY DEF ChainInv
  <1>2. at \in Node /\ Root \in Node /\ at \in S /\ Root \in S
    BY <1>1, Constants DEF TypeOK, Chain
  <1>3. callback' = callback BY DEF Next, Engine, Driver
  <1>4. step # "driver" => result = "none" /\ result # "done" BY DEF Control
  <1>5. ASSUME at # Root, Ends(at), step # "driver", Control' PROVE
           status'[Root] = status[Root] /\ result' # "done"
    BY <1>2, <1>5 DEF Ends, Control, TypeOK
  <1>6. CASE Perform
    <2>1. step = "perform" /\ UNCHANGED <<funcdata, curstart>>
      BY <1>6 DEF Perform, PerformStartBreak, PerformEnd, PerformApply,
                  PerformAfterActionBreak, restart
    <2>2. CASE at = Root
      <3>1. CASE PerformStartBreak
        BY <1>2, <1>3, <2>1, <2>2, <3>1, RestartsKept DEF PerformStartBreak, Return, TypeOK
      <3>2. CASE PerformEnd
        BY <1>3, <2>1, <2>2, <3>2, RestartsKept DEF PerformEnd, actionState
      <3>3. CASE PerformApply
        BY <1>3, <2>1, <3>3, RestartsKept DEF PerformApply
      <3>4. CASE PerformAfterActionBreak
        BY <1>3, <2>1, <2>2, <3>4, RestartsKept DEF PerformAfterActionBreak
      <3>5. QED BY <1>6, <3>1, <3>2, <3>3, <3>4 DEF Perform
    <2>3. CASE at # Root
      <3>1. CASE PerformApply
        BY <1>3, <2>1, <3>1, RestartsKept DEF PerformApply
      <3>2. CASE ~PerformApply
        <4>1. Ends(at) /\ Control' BY <1>6, <3>2, PerformEnds DEF Perform
        <4>2. QED BY <1>3, <1>5, <2>1, <2>3, <4>1, RestartsKept
      <3>3. QED BY <3>1, <3>2
    <2>4. QED BY <2>2, <2>3
  <1>7. CASE LeafStep
    <2>1. PICK h \in 0..2 : LeafApply(h) \/ PoolPark(h) \/ LeafError(h) BY <1>7 DEF LeafStep
    <2>2. LeafRuns(h) /\ UNCHANGED <<curstart, warned, jumptable>>
      BY <2>1 DEF LeafApply, PoolPark, LeafError, restart
    <2>3. at # Root /\ step = "apply" /\ result = "none"
      BY <2>2, FlagAssumption DEF LeafRuns, IsLeaf, Control
    <2>4. curstart # -1 /\ status[Root] \in ApplyStatus
      BY <1>1, <1>2, <2>3 DEF Applying
    <2>5. status'[Root] = status[Root] /\ result' # "done"
      <3>1. CASE LeafError(h) BY <3>1 DEF LeafError, Fail, actionState
      <3>2. CASE ~LeafError(h) BY <1>5, <2>1, <2>3, <3>2, LeafEnds
      <3>3. QED BY <3>1, <3>2
    <2>6. QED BY <2>2, <2>4, <2>5 DEF Restarts, ApplyStatus
  <1>8. CASE GroupStep
    <2>1. UNCHANGED <<funcdata, curstart>> /\ step # "driver"
      BY <1>8 DEF GroupStep, GroupDescend, GroupDone, ChildReturns, ChildSuspends, restart
    <2>2. CASE GroupDescend
      BY <1>3, <2>1, <2>2, RestartsKept DEF GroupDescend, actionState
    <2>3. CASE GroupDone
      BY <1>3, <1>5, <2>1, <2>3, GroupDoneEnds, RestartsKept
    <2>4. ASSUME step = "return" PROVE Parent[at] \in Node /\ status[Root] \in ApplyStatus
      BY <1>1, <1>2, <2>4, Constants DEF Control, Applying
    <2>5. CASE ChildReturns
      <3>1. status'[Root] \in {status[Root], "MID"} /\ result' # "done"
        BY <1>2, <1>4, <2>1, <2>4, <2>5
        DEF ChildReturns, Return, TypeOK, actionState
      <3>2. step = "return" BY <2>5 DEF ChildReturns
      <3>3. QED BY <1>3, <2>1, <2>4, <3>1, <3>2, RestartsKept DEF ApplyStatus
    <2>6. CASE ChildSuspends
      <3>1. step = "return" BY <2>6 DEF ChildSuspends
      <3>2. pending[Parent[at]] \in Nat /\ ownPending + pending[Parent[at]] \in Nat /\ -1 \in Int
        BY <2>4, <3>1 DEF TypeOK
      <3>3. \E cnt : Goes(Parent[at], -1, cnt)
        BY <2>4, <2>6, <3>1, <3>2, ApplyReturnsFacts DEF ChildSuspends, GroupBreaks
      <3>4. ~(-1 >= 0) OBVIOUS
      <3>5. status'[Root] \in {status[Root], "MID"} /\ result' # "done"
        BY <1>2, <1>4, <2>1, <2>4, <3>1, <3>3, <3>4 DEF Goes, TypeOK
      <3>6. QED BY <1>3, <2>1, <2>4, <3>1, <3>5, RestartsKept DEF ApplyStatus
    <2>7. QED BY <1>8, <2>2, <2>3, <2>5, <2>6 DEF GroupStep
  <1>9. CASE RestartStep
    <2>1. at = Root /\ step = "apply" /\ status[Root] \in ApplyStatus /\ result = "none"
      <3>1. at = Root /\ step = "apply"
        BY <1>9
        DEF RestartStep, RestartCompleted, RestartNotPending, RestartRefused,
            RestartExceeded, RestartNoCallback, RestartAgain, RestartFlowError,
            RestartClears, RestartDue
      <3>2. QED BY <1>1, <1>2, <3>1 DEF Applying, Control
    <2>3. curstart \in Int /\ (curstart # -1 => curstart + 1 # -1) BY DEF TypeOK
    <2>4. CASE RestartCompleted
      BY <1>3, <2>4 DEF RestartCompleted, Restarts, Settled, funcdata
    <2>5. CASE RestartNotPending
      BY <1>3, <2>5 DEF RestartNotPending, RestartDue, RestartReturns, Restarts, Settled
    <2>6. CASE RestartRefused
      BY <1>3, <2>6 DEF RestartRefused, RestartDue, RestartReturns, Restarts, Settled
    <2>7. CASE RestartExceeded
      BY <1>3, <2>7 DEF RestartExceeded, RestartDue, RestartReturns, Restarts, Settled
    <2>8. CASE RestartNoCallback
      BY <1>3, <2>3, <2>8 DEF RestartNoCallback, RestartDue, RestartReturns, Restarts, Settled
    <2>9. ASSUME RestartClears PROVE warned' = FALSE /\ curstart' # -1
      BY <2>9, <2>3 DEF RestartClears, RestartDue, TypeOK
    <2>10. CASE RestartAgain
      <3>1. warned' = FALSE /\ curstart' # -1 BY <2>9, <2>10 DEF RestartAgain
      <3>2. status'[Root] = "START" /\ result' = "none"
        BY <1>2, <2>1, <2>10 DEF RestartAgain, control
      <3>3. QED BY <3>1, <3>2 DEF Restarts
    <2>11. CASE RestartFlowError
      <3>1. warned' = FALSE /\ curstart' # -1 BY <2>9, <2>11 DEF RestartFlowError
      <3>2. status' = status /\ result' = "error"
        BY <2>11 DEF RestartFlowError, Fail, actionState
      <3>3. QED BY <2>1, <3>1, <3>2 DEF Restarts, ApplyStatus
    <2>12. QED BY <1>9, <2>4, <2>5, <2>6, <2>7, <2>8, <2>10, <2>11 DEF RestartStep
  <1>10. CASE Driver
    <2>1. CASE ResetForFunction
      <3>1. /\ warned' = FALSE /\ curstart' = 0 /\ status'[Root] = "START"
            /\ result' = "none"
        BY <1>2, <2>1 DEF ResetForFunction
      <3>2. QED BY <3>1 DEF Restarts
    <2>2. CASE CallPerform
      BY <1>3, <2>2, RestartsKept DEF CallPerform, actionState, restart
    <2>3. CASE Debugger
      BY <1>3, <2>3, RestartsKept
      DEF Debugger, ClearBreakPoints, SetBreakPoint, control, restart
    <2>4. QED BY <1>10, <2>1, <2>2, <2>3 DEF Driver
  <1>11. QED BY <1>6, <1>7, <1>8, <1>9, <1>10 DEF Next, Engine
-----------------------------------------------------------------------------
LEMMA TreeInvariant == Spec => []TreeInv
  <1>1. Init => TreeInv
    <2> SUFFICES ASSUME Init PROVE TreeInv OBVIOUS
    <2>1. TypeOK BY TypeInit
    <2>2. Control BY DEF Init, Control
    <2>3. ChainInv
      <3>1. Chain({Root}) /\ Applying({Root})
        BY Constants DEF Init, Chain, Applying, ApplyStatus
      <3>2. QED BY <3>1, Constants DEF ChainInv
    <2>4. Sync
      <3>1. SUFFICES ASSUME NEW n \in Node, NEW i \in 1..Len(Children[n])
                     PROVE  ran[Children[n][i]] = IF i < cursor[n] THEN 1 ELSE 0
        BY DEF Sync
      <3>2. Children[n][i] \in Node BY Tree
      <3>3. ~(i < 1) OBVIOUS
      <3>4. QED BY <3>2, <3>3 DEF Init
    <2>5. Turns
      <3>1. \A n \in Leaf : turns[n] = 0 BY DEF Init, Leaf
      <3>2. QED BY <3>1 DEF Turns
    <2>6. Restarts
      <3>1. warned = FALSE /\ curstart # -1 /\ status[Root] = "START" /\ result = "none"
        BY Constants DEF Init
      <3>2. QED BY <3>1 DEF Restarts
    <2>7. QED BY <2>1, <2>2, <2>3, <2>4, <2>5, <2>6 DEF TreeInv
  <1>2. TreeInv /\ [Next]_vars => TreeInv'
    <2> SUFFICES ASSUME TreeInv, [Next]_vars PROVE TreeInv' OBVIOUS
    <2> USE DEF TreeInv
    <2>1. CASE Next
      BY <2>1, TypeStep, ChainStep, SyncStep, TurnsStep, RestartsStep
    <2>2. CASE UNCHANGED vars
      <3>1. TypeOK' BY TypeStep
      <3>2. Control' /\ Sync' /\ Turns' /\ Restarts'
        BY <2>2 DEF Control, Sync, Turns, Restarts, Settled, vars, actionState, restart,
                    funcdata, control, ghosts
      <3>3. ChainInv'
        BY <2>2 DEF ChainInv, Chain, Cur, Applying, vars, actionState, restart, control
      <3>4. QED BY <3>1, <3>2, <3>3
    <2>3. QED BY <2>1, <2>2
  <1>3. QED BY <1>1, <1>2, PTL DEF Spec

\* Every step of the driver, of perform, of a leaf, of a group and of the
\* restart root keeps the types: the restart counter in particular never
\* leaves -1..MaxRestarts.
THEOREM TypeCorrect == Spec => []TypeOK
  <1>1. TreeInv => TypeOK BY DEF TreeInv
  <1>2. QED BY <1>1, TreeInvariant, PTL

\* In any tree, a group in the middle of its apply has completed exactly the
\* children before its cursor, each once, whatever was suspended, failed,
\* abandoned or restarted before.
THEOREM PassesComplete == Spec => []EachChildOnce
  <1>1. TreeInv => EachChildOnce BY DEF TreeInv, EachChildOnce, Sync, TypeOK
  <1>2. QED BY <1>1, TreeInvariant, PTL

\* In any tree, no leaf has more than one turn per function.
THEOREM OneTurnPerFunction == Spec => []OncePerFunction
  <1>1. TreeInv => OncePerFunction BY DEF TreeInv, OncePerFunction, Turns
  <1>2. QED BY <1>1, TreeInvariant, PTL

\* In any tree and for any maxrestarts, a completed root has honoured the
\* restart that was asked for, or says why it has not.
THEOREM RestartsHonoured == Spec => []RestartHonoured
  <1>1. TreeInv => RestartHonoured
    BY DEF TreeInv, RestartHonoured, Restarts, Settled
  <1>2. QED BY <1>1, TreeInvariant, PTL
-----------------------------------------------------------------------------
(***************************************************************************)
(* Where the changes are.  F extends the call chain by the frames that a   *)
(* suspension left below it: each is the child under its parent's cursor,  *)
(* and its parent is in the middle of a pass.  sub[n] is the number of     *)
(* changes on their way up from n: what n's frame holds, and what is on    *)
(* its way up from the child under its cursor.                             *)
(***************************************************************************)

InPass(S, n) ==
    \/ n \in S /\ n # at
    \/ n = at /\ step = "apply"
    \/ status[n] = "MID"

Own(n) == IF n = Root THEN ownPending ELSE 0

Held(S, n) ==
    IF InPass(S, n) THEN count[n] + pending[n] + Own(n)
    ELSE IF n = at /\ step = "return" /\ ret >= 0 THEN ret
    ELSE IF status[n] \in {"REPEAT", "ACTIONBREAK", "BREAKSTARTHIT"} THEN count[n]
    ELSE 0

HasChild(F, n) == \E c \in F \ {Root} : Parent[c] = n

Below(F, sub, n) == IF HasChild(F, n) THEN sub[Children[n][cursor[n]]] ELSE 0

\* Nodes outside the frames are at rest, and there are frames below the
\* root only while its children are being run.
Frames(S, F) ==
    /\ S \subseteq F /\ F \subseteq Node
    /\ \A n \in F \ {Root} : Parent[n] \in F /\ Cur(n) /\ InPass(S, Parent[n])
    /\ \A n \in Node \ F : status[n] \in {"START", "END"}
    /\ step = "return" /\ ret >= 0 => status[at] \in {"START", "END"}
    /\ step = "driver" /\ result \in {"none", "done"} => status[Root] \in {"START", "END"}
    /\ F # {Root} => curstart # -1

\* The count a pass started from is not above the count, and below it after
\* an action break.
Passes(S, F) ==
    \A n \in F : /\ InPass(S, n) => lcount[n] <= count[n]
                 /\ status[n] = "ACTIONBREAK" => lcount[n] < count[n]

Amounts(S, F, sub) ==
    /\ sub \in [Node -> Nat]
    /\ \A n \in F : sub[n] = Held(S, n) + Below(F, sub, n)

\* A group that a leaf below it changed in this pass will see it.
Seen(S, F, sub) ==
    \A n \in F \ {Root} : InPass(S, n) /\ n \in dirty => sub[n] > lcount[n]

\* Without an error, nothing is held outside the chain, and what is on its
\* way up to the root is what was changed since the driver's call.
Counting(S, sub) ==
    ~erred =>
        /\ \A n \in Node : ~(n \in S /\ (n # at \/ step = "apply")) => pending[n] = 0
        /\ ownPending = 0 \/ at # Root \/ step = "apply"
        /\ curstart = -1 => pending[Root] = 0
        /\ step # "driver" \/ result = "break" => changes = sub[Root]

\* An action that is not a pool has no pending count.
CoreLeaves == \A n \in Leaf \ Pool : pending[n] = 0

Accounts(S, F, sub) ==
    /\ Chain(S) /\ Applying(S) /\ Frames(S, F) /\ Passes(S, F)
    /\ Amounts(S, F, sub) /\ Seen(S, F, sub) /\ Counting(S, sub)

CountInv ==
    /\ CoreLeaves /\ Fixpoint /\ CountExact
    /\ result = "error" => erred
    /\ result # "error" => \E S, F, sub : Accounts(S, F, sub)

\* The only child that can have a frame is the one under the cursor.
LEMMA ChildFrame ==
    ASSUME NEW S, NEW F, Frames(S, F), NEW n \in Node, HasChild(F, n)
    PROVE  /\ Children[n][cursor[n]] \in F \ {Root}
           /\ cursor[n] \in 1..Len(Children[n])
           /\ Parent[Children[n][cursor[n]]] = n /\ InPass(S, n)
           /\ \A c \in F \ {Root} : Parent[c] = n => c = Children[n][cursor[n]]
  <1>1. ASSUME NEW c \in F \ {Root}, Parent[c] = n
        PROVE  /\ c = Children[n][cursor[n]] /\ cursor[n] \in 1..Len(Children[n])
               /\ InPass(S, n)
    BY <1>1 DEF Frames, Cur
  <1>2. PICK c \in F \ {Root} : Parent[c] = n BY DEF HasChild
  <1>3. QED BY <1>1, <1>2

\* Without a frame below `at' the frames are the chain.
LEMMA NoTail ==
    ASSUME NEW S, NEW F, Chain(S), Frames(S, F), ~HasChild(F, at)
    PROVE  F = S
  <1> DEFINE X == F \ S
  <1>1. X \in SUBSET (Node \ {Root}) BY DEF Frames, Chain
  <1>2. ASSUME NEW n \in X PROVE Parent[n] \in X
    <2>1. n # Root /\ n \in F /\ n \notin S BY DEF Chain
    <2>2. Parent[n] \in F /\ Cur(n) BY <2>1 DEF Frames
    <2>3. Parent[n] # at BY <2>1 DEF HasChild
    <2>4. Parent[n] \notin S
      BY <2>1, <2>2, <2>3 DEF Chain, Cur
    <2>5. QED BY <2>2, <2>4
  <1>3. X = {} BY <1>1, <1>2, RootedAssumption
  <1>4. QED BY <1>3 DEF Frames

\* In the root without a frame below it, the root's is the only one.
LEMMA RootOnly ==
    ASSUME NEW S, Chain(S), at = Root
    PROVE  S = {Root}
  <1> DEFINE X == S \ {Root}
  <1>1. X \in SUBSET (Node \ {Root}) BY DEF Chain
  <1>2. \A n \in X : Parent[n] \in X BY DEF Chain
  <1>3. X = {} BY <1>1, <1>2, RootedAssumption
  <1>4. QED BY <1>3 DEF Chain

LEMMA HeldType ==
    ASSUME TypeOK, NEW S, NEW n \in Node
    PROVE  /\ Held(S, n) \in Nat
           /\ InPass(S, n) => count[n] <= Held(S, n)
  <1>1. count[n] \in Nat /\ pending[n] \in Nat /\ ret \in Int /\ ownPending \in Nat
    BY DEF TypeOK
  <1>2. Own(n) \in Nat BY <1>1 DEF Own
  <1>3. QED BY <1>1, <1>2 DEF Held

LEMMA BelowType ==
    ASSUME NEW S, NEW F, NEW sub, Frames(S, F), Amounts(S, F, sub), NEW n \in Node
    PROVE  Below(F, sub, n) \in Nat
  <1>1. F \subseteq Node /\ sub \in [Node -> Nat] BY DEF Frames, Amounts
  <1>2. HasChild(F, n) => Children[n][cursor[n]] \in F BY ChildFrame
  <1>3. QED BY <1>1, <1>2 DEF Below

\* What a step in frame a leaves alone.
OthersKept(a) ==
    \A n \in Node \ {a} :
        /\ status'[n] = status[n] /\ count'[n] = count[n] /\ lcount'[n] = lcount[n]
        /\ pending'[n] = pending[n] /\ cursor'[n] = cursor[n]

\* A step of the innermost frame that adds d changes to it.
LEMMA Inner ==
    ASSUME TypeOK, TypeOK', NEW S, NEW F, NEW sub, Accounts(S, F, sub),
           NEW a, a = at, at' = a, OthersKept(a), ownPending' = ownPending \/ a = Root,
           curstart' = curstart,
           HasChild(F, a) => cursor'[a] = cursor[a] /\ InPass(S, a)',
           NEW d \in Nat, Held(S, a)' = Held(S, a) + d,
           InPass(S, a)' => lcount'[a] <= count'[a],
           status'[a] = "ACTIONBREAK" => lcount'[a] < count'[a],
           (\A n \in Node \ {a} : n \in dirty' => n \in dirty) \/ (d > 0 /\ F = S),
           a # Root /\ InPass(S, a)' /\ a \in dirty' =>
               Held(S, a) + d + Below(F, sub, a) > lcount'[a],
           step' = "return" /\ ret' >= 0 => status'[a] \in {"START", "END"},
           step' = "driver" /\ result' \in {"none", "done"} =>
               status'[Root] \in {"START", "END"},
           NEW sub2, sub2 = [n \in Node |-> IF n \in S THEN sub[n] + d ELSE sub[n]]
    PROVE  /\ Chain(S)' /\ Frames(S, F)' /\ Passes(S, F)'
           /\ Amounts(S, F, sub2)' /\ Seen(S, F, sub2)'
  <1>1. /\ Chain(S) /\ Frames(S, F) /\ Passes(S, F) /\ Amounts(S, F, sub)
        /\ Seen(S, F, sub)
    BY DEF Accounts
  <1>2. a \in Node /\ a \in S /\ Root \in S /\ S \subseteq F /\ F \subseteq Node
        /\ Root \in Node
    BY <1>1 DEF Chain, Frames
  <1>3. Chain(S)' BY <1>1, ChainStay DEF OthersKept
  <1>4. ASSUME NEW n \in Node, n # a
        PROVE  /\ InPass(S, n)' <=> InPass(S, n)
               /\ Held(S, n)' = Held(S, n)
    <2>1. InPass(S, n)' <=> InPass(S, n) BY <1>4 DEF InPass, OthersKept
    <2>2. Own(n)' = Own(n) BY <1>4 DEF Own
    <2>3. QED BY <1>4, <2>1, <2>2 DEF Held, OthersKept
  <1>5. ASSUME NEW n \in Node, HasChild(F, n)
        PROVE  cursor'[n] = cursor[n] /\ InPass(S, n)'
    <2>1. InPass(S, n) BY <1>1, <1>5, ChildFrame
    <2>2. CASE n = a BY <2>2, <1>5
    <2>3. CASE n # a BY <1>4, <2>1, <2>3 DEF OthersKept
    <2>4. QED BY <2>2, <2>3
  <1>6. Frames(S, F)'
    <2>1. \A n \in F \ {Root} : Parent[n] \in F /\ Cur(n)' /\ InPass(S, Parent[n])'
      <3>1. SUFFICES ASSUME NEW n \in F \ {Root}
                     PROVE  Parent[n] \in F /\ Cur(n)' /\ InPass(S, Parent[n])'
        OBVIOUS
      <3>2. Parent[n] \in F /\ Cur(n) /\ Parent[n] \in Node BY <1>1, <1>2 DEF Frames
      <3>3. HasChild(F, Parent[n]) BY DEF HasChild
      <3>4. cursor'[Parent[n]] = cursor[Parent[n]] /\ InPass(S, Parent[n])'
        BY <1>5, <3>2, <3>3
      <3>5. QED BY <3>2, <3>4 DEF Cur
    <2>2. \A n \in Node \ F : status'[n] \in {"START", "END"}
      BY <1>1, <1>2 DEF Frames, OthersKept
    <2>3. QED BY <1>1, <1>2, <2>1, <2>2 DEF Frames
  <1>7. Passes(S, F)'
    <2>1. SUFFICES ASSUME NEW n \in F
                   PROVE  /\ InPass(S, n)' => lcount'[n] <= count'[n]
                          /\ status'[n] = "ACTIONBREAK" => lcount'[n] < count'[n]
      BY DEF Passes
    <2>2. CASE n = a BY <2>2
    <2>3. CASE n # a BY <1>1, <1>2, <1>4, <2>3 DEF Passes, OthersKept
    <2>4. QED BY <2>2, <2>3
  <1>8. sub \in [Node -> Nat] /\ sub2 \in [Node -> Nat]
        /\ \A n \in Node : sub2[n] = (IF n \in S THEN sub[n] + d ELSE sub[n])
    BY <1>1 DEF Amounts
  <1>9. ASSUME NEW n \in F
        PROVE  /\ Held(S, n) \in Nat /\ Below(F, sub, n) \in Nat
               /\ sub[n] = Held(S, n) + Below(F, sub, n)
    BY <1>1, <1>2, HeldType, BelowType DEF Amounts
  <1>10. ASSUME NEW n \in F
         PROVE  Below(F, sub2, n)' = Below(F, sub, n) + (IF n \in S \ {a} THEN d ELSE 0)
    <2>1. n \in Node BY <1>2
    <2>2. CASE HasChild(F, n)
      <3> DEFINE c == Children[n][cursor[n]]
      <3>1. c \in F \ {Root} /\ Parent[c] = n /\ c \in Node
        BY <1>1, <1>2, <2>1, <2>2, ChildFrame
      <3>2. cursor'[n] = cursor[n] BY <1>5, <2>1, <2>2
      <3>3. Below(F, sub2, n)' = sub2[c] /\ Below(F, sub, n) = sub[c]
        BY <2>2, <3>2 DEF Below, HasChild
      <3>4. n \in S \ {a} => c \in S BY <1>1 DEF Chain
      <3>5. c \in S => n \in S \ {a} BY <1>1, <3>1 DEF Chain
      <3>6. CASE n \in S \ {a}
        <4>1. sub2[c] = sub[c] + d BY <1>8, <3>1, <3>4, <3>6
        <4>2. QED BY <3>3, <3>6, <4>1
      <3>7. CASE n \notin S \ {a}
        <4>1. sub2[c] = sub[c] BY <1>8, <3>1, <3>5, <3>7
        <4>2. sub[c] \in Nat BY <1>8, <3>1
        <4>3. QED BY <3>3, <3>7, <4>1, <4>2
      <3>8. QED BY <3>6, <3>7
    <2>3. CASE ~HasChild(F, n)
      <3>1. n \notin S \ {a}
        <4>1. SUFFICES ASSUME n \in S \ {a} PROVE FALSE OBVIOUS
        <4>2. /\ cursor[n] \in 1..Len(Children[n])
              /\ Children[n][cursor[n]] \in S
          BY <1>1, <4>1 DEF Chain
        <4>3. Parent[Children[n][cursor[n]]] = n /\ Children[n][cursor[n]] # Root
          BY <2>1, <4>2, Tree
        <4>4. QED BY <1>2, <2>3, <4>2, <4>3 DEF HasChild
      <3>2. Below(F, sub2, n)' = 0 /\ Below(F, sub, n) = 0
        BY <2>3 DEF Below, HasChild
      <3>3. QED BY <3>1, <3>2
    <2>4. QED BY <2>2, <2>3
  <1>11. ASSUME NEW n \in F PROVE sub2[n] = Held(S, n)' + Below(F, sub2, n)'
    <2>1. n \in Node BY <1>2
    <2>2. CASE n = a
      <3>1. Below(F, sub2, n)' = Below(F, sub, n) BY <1>9, <1>10, <2>2
      <3>2. sub2[n] = sub[n] + d BY <1>2, <1>8, <2>2
      <3>3. Held(S, n)' = Held(S, n) + d BY <2>2
      <3>4. QED BY <1>9, <3>1, <3>2, <3>3
    <2>3. CASE n # a
      <3>1. Held(S, n)' = Held(S, n) BY <1>4, <2>1, <2>3
      <3>2. CASE n \in S
        <4>1. Below(F, sub2, n)' = Below(F, sub, n) + d BY <1>10, <2>3, <3>2
        <4>2. sub2[n] = sub[n] + d BY <1>8, <2>1, <3>2
        <4>3. QED BY <1>9, <3>1, <4>1, <4>2
      <3>3. CASE n \notin S
        <4>1. Below(F, sub2, n)' = Below(F, sub, n) BY <1>9, <1>10, <3>3
        <4>2. sub2[n] = sub[n] BY <1>8, <2>1, <3>3
        <4>3. QED BY <1>9, <3>1, <4>1, <4>2
      <3>4. QED BY <3>2, <3>3
    <2>4. QED BY <2>2, <2>3
  <1>12. Amounts(S, F, sub2)' BY <1>8, <1>11 DEF Amounts
  <1>13. Seen(S, F, sub2)'
    <2>1. SUFFICES ASSUME NEW n \in F \ {Root}, InPass(S, n)', n \in dirty'
                   PROVE  sub2[n] > lcount'[n]
      BY DEF Seen
    <2>2. n \in Node /\ lcount[n] \in Nat /\ count[n] \in Nat /\ lcount'[n] \in Nat
      BY <1>2 DEF TypeOK
    <2>3. CASE n = a
      <3>1. Held(S, n) + d + Below(F, sub, n) > lcount'[n] BY <2>1, <2>3
      <3>2. sub2[n] = sub[n] + d BY <1>2, <1>8, <2>3
      <3>3. QED BY <1>9, <2>2, <3>1, <3>2
    <2>4. CASE n # a
      <3>1. InPass(S, n) /\ lcount'[n] = lcount[n]
        BY <1>4, <2>1, <2>2, <2>4 DEF OthersKept
      <3>2. CASE n \in dirty
        <4>1. sub[n] > lcount[n] BY <1>1, <2>1, <3>1, <3>2 DEF Seen
        <4>2. sub2[n] >= sub[n] BY <1>8, <2>2
        <4>3. sub[n] \in Nat /\ sub2[n] \in Nat BY <1>8, <2>2
        <4>4. QED BY <2>2, <3>1, <4>1, <4>2, <4>3
      <3>3. CASE n \notin dirty
        <4>1. d > 0 /\ F = S BY <2>1, <2>2, <2>4, <3>3
        <4>2. sub2[n] = sub[n] + d BY <1>8, <2>2, <4>1
        <4>3. lcount[n] <= count[n] BY <1>1, <3>1 DEF Passes
        <4>4. count[n] <= Held(S, n) BY <2>2, <3>1, HeldType
        <4>5. QED BY <1>9, <2>2, <3>1, <4>1, <4>2, <4>3, <4>4
      <3>4. QED BY <3>2, <3>3
    <2>5. QED BY <2>3, <2>4
  <1>14. QED BY <1>3, <1>6, <1>7, <1>12, <1>13

\* A call: the child's frame, new or suspended, joins the chain.
LEMMA DownAccounts ==
    ASSUME TypeOK, Control, GroupDescend, NEW S, NEW F, NEW sub, Accounts(S, F, sub)
    PROVE  \E S2, F2, sub2 : Accounts(S2, F2, sub2)'
  <1>1. /\ Chain(S) /\ Applying(S) /\ Frames(S, F) /\ Passes(S, F)
        /\ Amounts(S, F, sub) /\ Seen(S, F, sub) /\ Counting(S, sub)
    BY DEF Accounts
  <1>2. PICK a : a = at OBVIOUS
  <1>3. PICK c : c = Children[at][cursor[at]] OBVIOUS
  <1>4. PICK T : T = S \cup {c} OBVIOUS
  <1>5. PICK G : G = F \cup {c} OBVIOUS
  <1>6. PICK s2 : s2 = [n \in Node |-> IF n \in F THEN sub[n] ELSE 0] OBVIOUS
  <1>7. /\ c \in Node /\ c # Root /\ Parent[c] = a /\ cursor[a] \in 1..Len(Children[a])
        /\ Chain(T)' /\ Applying(T)' /\ a \in Node /\ a \in S
    BY <1>1, <1>2, <1>3, <1>4, DescendDown DEF Chain
  <1>8. /\ UNCHANGED <<status, count, lcount, cursor, pending, ownPending, curstart,
                       changes, dirty, erred>>
        /\ at' = c /\ step = "apply" /\ step' = "perform"
    BY <1>3 DEF GroupDescend, actionState, restart, ghosts
  <1>9. a # c /\ c \notin S BY <1>1, <1>2, <1>7 DEF Chain
  <1>10. ASSUME NEW n \in Node
         PROVE  /\ InPass(T, n)' <=> InPass(S, n)
                /\ Held(T, n)' = Held(S, n)
    <2>1. InPass(T, n)' <=> InPass(S, n) BY <1>2, <1>4, <1>7, <1>8, <1>9 DEF InPass
    <2>2. Own(n)' = Own(n) BY <1>8 DEF Own
    <2>3. QED BY <1>8, <2>1, <2>2 DEF Held
  <1>11. InPass(S, a) BY <1>2, <1>8 DEF InPass
  <1>12. c \notin F => /\ ~HasChild(F, a) /\ ~HasChild(F, c) /\ ~InPass(S, c)
                       /\ status[c] \in {"START", "END"} /\ Held(S, c) = 0
    <2>1. SUFFICES ASSUME c \notin F
                   PROVE  /\ ~HasChild(F, a) /\ ~HasChild(F, c) /\ ~InPass(S, c)
                          /\ status[c] \in {"START", "END"} /\ Held(S, c) = 0
      OBVIOUS
    <2>2. ~HasChild(F, a) BY <1>1, <1>2, <1>3, <1>7, <2>1, ChildFrame
    <2>3. ~HasChild(F, c) BY <1>1, <2>1 DEF HasChild, Frames
    <2>4. status[c] \in {"START", "END"} BY <1>1, <1>7, <2>1 DEF Frames
    <2>5. ~InPass(S, c) BY <1>2, <1>9, <2>4 DEF InPass
    <2>6. Held(S, c) = 0 BY <1>2, <1>9, <2>4, <2>5 DEF Held
    <2>7. QED BY <2>2, <2>3, <2>4, <2>5, <2>6
  <1>13. S \subseteq F /\ F \subseteq Node BY <1>1 DEF Frames
  <1>14. Frames(T, G)'
    <2>1. T \subseteq G /\ G \subseteq Node BY <1>4, <1>5, <1>7, <1>13
    <2>2. ASSUME NEW n \in G \ {Root}
          PROVE  Parent[n] \in G /\ Cur(n)' /\ InPass(T, Parent[n])'
      <3>1. CASE n \in F
        <4>1. Parent[n] \in F /\ Cur(n) /\ InPass(S, Parent[n]) BY <1>1, <3>1 DEF Frames
        <4>2. QED BY <1>5, <1>8, <1>10, <1>13, <4>1 DEF Cur
      <3>2. CASE n = c
        <4>1. Cur(c) BY <1>2, <1>3, <1>7 DEF Cur
        <4>2. QED BY <1>5, <1>7, <1>8, <1>10, <1>11, <1>13, <3>2, <4>1 DEF Cur
      <3>3. QED BY <1>5, <3>1, <3>2
    <2>3. \A n \in Node \ G : status'[n] \in {"START", "END"}
      BY <1>1, <1>5, <1>8 DEF Frames
    <2>4. curstart' # -1 BY <1>4, <1>7 DEF Applying
    <2>5. QED BY <1>8, <2>1, <2>2, <2>3, <2>4 DEF Frames
  <1>15. Passes(T, G)'
    <2>1. \A n \in F : /\ InPass(T, n)' => lcount'[n] <= count'[n]
                       /\ status'[n] = "ACTIONBREAK" => lcount'[n] < count'[n]
      BY <1>1, <1>8, <1>10, <1>13 DEF Passes
    <2>2. c \notin F => ~InPass(T, c)' /\ status'[c] # "ACTIONBREAK"
      BY <1>7, <1>8, <1>10, <1>12
    <2>3. QED BY <1>5, <2>1, <2>2 DEF Passes
  <1>16. sub \in [Node -> Nat] /\ s2 \in [Node -> Nat]
         /\ (\A n \in F : s2[n] = sub[n]) /\ (c \notin F => s2[c] = 0)
    BY <1>1, <1>6, <1>7, <1>13 DEF Amounts
  <1>17. Amounts(T, G, s2)'
    <2>1. SUFFICES ASSUME NEW n \in G PROVE s2[n] = Held(T, n)' + Below(G, s2, n)'
      BY <1>16 DEF Amounts
    <2>2. n \in Node BY <1>5, <1>7, <1>13
    <2>3. CASE n \in F /\ HasChild(F, n)
      <3>1. Children[n][cursor[n]] \in F BY <1>1, <2>2, <2>3, ChildFrame
      <3>2. HasChild(G, n) BY <1>5, <2>3 DEF HasChild
      <3>3. Below(G, s2, n)' = Below(F, sub, n)
        BY <1>8, <1>16, <2>3, <3>1, <3>2 DEF Below, HasChild
      <3>4. QED BY <1>1, <1>10, <1>16, <2>2, <2>3, <3>3 DEF Amounts
    <2>4. CASE n \in F /\ ~HasChild(F, n) /\ n # a
      <3>1. ~HasChild(G, n) BY <1>5, <1>7, <2>4 DEF HasChild
      <3>2. Below(G, s2, n)' = 0 /\ Below(F, sub, n) = 0
        BY <2>4, <3>1 DEF Below, HasChild
      <3>3. QED BY <1>1, <1>10, <1>16, <2>2, <2>4, <3>2 DEF Amounts
    <2>5. CASE n = a /\ ~HasChild(F, n)
      <3>1. c \notin F BY <1>7, <2>5 DEF HasChild
      <3>2. Below(F, sub, n) = 0 BY <2>5 DEF Below
      <3>3. HasChild(G, a) BY <1>5, <1>7 DEF HasChild
      <3>4. Below(G, s2, a)' = s2[c]
        BY <1>2, <1>3, <1>8, <3>3 DEF Below, HasChild
      <3>5. n \in F BY <1>7, <1>13, <2>5
      <3>6. QED BY <1>1, <1>10, <1>16, <2>2, <2>5, <3>1, <3>2, <3>4, <3>5 DEF Amounts
    <2>6. CASE n \notin F
      <3>1. n = c BY <1>5, <2>6
      <3>2. ~HasChild(G, c) BY <1>5, <1>7, <1>9, <1>12, <2>6, <3>1 DEF HasChild
      <3>3. Below(G, s2, c)' = 0 BY <3>2 DEF Below, HasChild
      <3>4. QED BY <1>10, <1>12, <1>16, <2>2, <2>6, <3>1, <3>3
    <2>7. QED BY <2>3, <2>4, <2>5, <2>6
  <1>18. Seen(T, G, s2)'
    <2>1. \A n \in F \ {Root} : InPass(T, n)' /\ n \in dirty' => s2[n] > lcount'[n]
      BY <1>1, <1>8, <1>10, <1>13, <1>16 DEF Seen
    <2>2. c \notin F => ~InPass(T, c)' BY <1>7, <1>10, <1>12
    <2>3. QED BY <1>5, <2>1, <2>2 DEF Seen
  <1>19. Counting(T, s2)'
    <2>1. SUFFICES ASSUME ~erred PROVE Counting(T, s2)'
      BY <1>8 DEF Counting
    <2>2. \A n \in Node : ~(n \in T /\ n # c) => pending'[n] = 0
      BY <1>1, <1>2, <1>4, <1>8, <1>9, <2>1 DEF Counting
    <2>3. s2[Root] = sub[Root] BY <1>1, <1>13, <1>16 DEF Chain
    <2>4. QED BY <1>1, <1>7, <1>8, <2>1, <2>2, <2>3 DEF Counting
  <1>20. QED BY <1>7, <1>14, <1>15, <1>17, <1>18, <1>19 DEF Accounts

\* What a return assigns in the caller p: the changes it gets are pending,
\* or all of p's are in its count and p is suspended.
Receives(p, got) ==
    /\ lcount' = lcount
    /\ \A n \in Node \ {p} : /\ status'[n] = status[n] /\ count'[n] = count[n]
                             /\ pending'[n] = pending[n]
    /\ \/ /\ step' = "apply" /\ UNCHANGED <<status, count, ownPending>>
          /\ pending'[p] = pending[p] + got /\ ret >= 0
       \/ /\ step' # "apply" /\ step' # "perform" /\ ret' = -1
          /\ step' = "driver" => result' = "break"
          /\ status'[p] = "MID" /\ pending'[p] = 0
          /\ ownPending' = (IF p = Root THEN 0 ELSE ownPending)
          /\ count'[p] = count[p] + pending[p] + Own(p) + got

LEMMA ChildReceives ==
    ASSUME TypeOK, Control, ChildReturns \/ ChildSuspends,
           NEW got, got = (IF ret >= 0 THEN ret ELSE 0)
    PROVE  /\ Receives(Parent[at], got) /\ got \in Nat
           /\ UNCHANGED <<changes, dirty, erred, curstart>>
           /\ ret < 0 => cursor' = cursor
  <1> DEFINE p == Parent[at]
  <1>1. at \in Node /\ p \in Node /\ ret \in Int /\ got \in Nat
        /\ pending[p] \in Nat /\ ownPending \in Nat /\ count[p] \in Nat
        /\ ownPending + pending[p] \in Nat /\ -1 \in Int
    BY Constants DEF TypeOK
  <1>2. result = "none" BY DEF Control, ChildReturns, ChildSuspends
  <1>3. CASE ChildReturns
    <2>1. ret >= 0 /\ got = ret /\ ~(ret < 0) BY <1>1, <1>3 DEF ChildReturns
    <2>2. UNCHANGED <<changes, dirty, erred, curstart>> BY <1>3 DEF ChildReturns
    <2>3. CASE /\ pending' = [pending EXCEPT ![p] = @ + ret]
               /\ step' = "apply" /\ UNCHANGED <<actionState, ownPending>>
      BY <1>1, <2>1, <2>2, <2>3 DEF Receives, actionState, TypeOK
    <2>4. CASE /\ count' = [count EXCEPT ![p] = @ + pending[p] + ret +
                                 (IF p = Root THEN ownPending ELSE 0)]
               /\ status' = [status EXCEPT ![p] = "MID"]
               /\ pending' = [pending EXCEPT ![p] = 0]
               /\ ownPending' = (IF p = Root THEN 0 ELSE ownPending)
               /\ Return(p, -1) /\ lcount' = lcount
      <3>1. count'[p] = count[p] + pending[p] + Own(p) + ret BY <1>1, <2>4 DEF Own, TypeOK
      <3>2. step' = (IF p = Root THEN "driver" ELSE "return") /\ ret' = -1
            /\ (p = Root => result' = "break")
        BY <2>4 DEF Return
      <3>3. /\ \A n \in Node \ {p} : status'[n] = status[n] /\ count'[n] = count[n]
                                     /\ pending'[n] = pending[n]
            /\ status'[p] = "MID" /\ pending'[p] = 0
        BY <1>1, <2>4 DEF TypeOK
      <3>4. QED BY <1>1, <2>1, <2>2, <2>4, <3>1, <3>2, <3>3 DEF Receives
    <2>5. QED BY <1>3, <2>3, <2>4 DEF ChildReturns
  <1>4. CASE ChildSuspends
    <2>1. ret < 0 /\ got = 0 /\ ~(-1 > 0) /\ ~(-1 >= 0) BY <1>1, <1>4 DEF ChildSuspends
    <2>2. UNCHANGED <<changes, dirty, erred, curstart, cursor>>
      BY <1>4 DEF ChildSuspends, ghosts
    <2>3. PICK delta \in Nat : delta = IF p = Root THEN ownPending + pending[p] ELSE pending[p]
      BY <1>1
    <2>4. /\ ApplyReturns(p, -1, delta)
          /\ pending' = [pending EXCEPT ![p] = 0]
          /\ ownPending' = IF p = Root THEN 0 ELSE ownPending
      BY <1>4, <2>3 DEF ChildSuspends, GroupBreaks
    <2>5. PICK cnt : cnt = count[p] + delta + (IF -1 > 0 THEN -1 ELSE 0) OBVIOUS
    <2>6. /\ count' = [count EXCEPT ![p] = cnt] /\ lcount' = lcount
          /\ Goes(p, -1, cnt)
      BY <1>1, <2>4, <2>5, ApplyReturnsFacts
    <2>7. cnt = count[p] + pending[p] + Own(p) + got
      BY <1>1, <2>1, <2>3, <2>5 DEF Own
    <2>8. /\ status' = [status EXCEPT ![p] = "MID"]
          /\ step' = (IF p = Root THEN "driver" ELSE "return")
          /\ ret' = -1 /\ result' = (IF p = Root THEN "break" ELSE result)
      BY <2>1, <2>6 DEF Goes
    <2>9. /\ \A n \in Node \ {p} : status'[n] = status[n] /\ count'[n] = count[n]
                                   /\ pending'[n] = pending[n]
          /\ status'[p] = "MID" /\ pending'[p] = 0 /\ count'[p] = cnt
      BY <1>1, <2>4, <2>6, <2>8 DEF TypeOK
    <2>10. QED BY <1>1, <2>1, <2>2, <2>4, <2>6, <2>7, <2>8, <2>9 DEF Receives
  <1>5. QED BY <1>3, <1>4

\* A return: a completed child's frame is gone, a suspended one stays below.
LEMMA UpAccounts ==
    ASSUME TypeOK, Control, ChildReturns \/ ChildSuspends,
           NEW S, NEW F, NEW sub, Accounts(S, F, sub)
    PROVE  \E S2, F2, sub2 : Accounts(S2, F2, sub2)'
  <1>1. /\ Chain(S) /\ Applying(S) /\ Frames(S, F) /\ Passes(S, F)
        /\ Amounts(S, F, sub) /\ Seen(S, F, sub) /\ Counting(S, sub)
    BY DEF Accounts
  <1>2. PICK a : a = at OBVIOUS
  <1>3. PICK p : p = Parent[at] OBVIOUS
  <1>4. PICK T : T = S \ {at} OBVIOUS
  <1>5. PICK G : G = IF ret >= 0 THEN F \ {at} ELSE F OBVIOUS
  <1>6. PICK got : got = (IF ret >= 0 THEN ret ELSE 0) OBVIOUS
  <1>7. /\ a # Root /\ at' = p /\ step = "return" /\ curstart' = curstart
        /\ \A n \in Node \ {p} : cursor'[n] = cursor[n]
        /\ Chain(T)' /\ Applying(T)'
    <2>1. /\ at # Root /\ at' = Parent[at] /\ curstart' = curstart
          /\ \A n \in Node \ {Parent[at]} : cursor'[n] = cursor[n]
          /\ \A m \in Node \ {Parent[at]} : status'[m] = status[m]
          /\ step' = "apply" => status' = status
      BY ChildUp
    <2>2. Chain(T)' /\ Applying(T)' BY <1>1, <1>4, <2>1, ApplyingUp
    <2>3. step = "return" BY DEF ChildReturns, ChildSuspends
    <2>4. QED BY <1>2, <1>3, <2>1, <2>2, <2>3
  <1>8. /\ a \in S /\ p \in S /\ p # a /\ Parent[a] = p /\ Cur(a)
        /\ S \subseteq F /\ F \subseteq Node /\ Root \in S
    BY <1>1, <1>2, <1>3, <1>7 DEF Chain, Frames
  <1>9. /\ Receives(p, got) /\ got \in Nat /\ UNCHANGED <<changes, dirty, erred>>
        /\ ret < 0 => cursor' = cursor
    BY <1>3, <1>6, ChildReceives
  <1>10. ret \in Int /\ count[p] \in Nat /\ pending[p] \in Nat /\ ownPending \in Nat
         /\ lcount[p] \in Nat /\ Own(p) \in Nat
    BY <1>8 DEF TypeOK, Own
  <1>11. InPass(S, p) /\ InPass(T, p)' /\ Held(T, p)' = Held(S, p) + got
    <2>1. InPass(S, p) BY <1>2, <1>8 DEF InPass
    <2>2. Held(S, p) = count[p] + pending[p] + Own(p) BY <2>1 DEF Held
    <2>3. CASE step' = "apply"
      <3>1. InPass(T, p)' BY <1>7, <2>3 DEF InPass
      <3>2. count'[p] = count[p] /\ pending'[p] = pending[p] + got /\ Own(p)' = Own(p)
        BY <1>9, <2>3 DEF Receives, Own
      <3>3. Held(T, p)' = count'[p] + pending'[p] + Own(p)' BY <3>1 DEF Held
      <3>4. QED BY <1>9, <1>10, <2>1, <2>2, <3>1, <3>2, <3>3
    <2>4. CASE step' # "apply"
      <3>1. /\ status'[p] = "MID" /\ pending'[p] = 0 /\ Own(p)' = 0
            /\ count'[p] = count[p] + pending[p] + Own(p) + got
        BY <1>9, <2>4 DEF Receives, Own
      <3>2. InPass(T, p)' BY <3>1 DEF InPass
      <3>3. Held(T, p)' = count'[p] + pending'[p] + Own(p)' BY <3>2 DEF Held
      <3>4. QED BY <1>9, <1>10, <2>1, <2>2, <3>1, <3>2, <3>3
    <2>5. QED BY <2>3, <2>4
  <1>12. ASSUME NEW n \in Node, n # p, n # a \/ ret < 0
         PROVE  /\ InPass(T, n)' <=> InPass(S, n)
                /\ Held(T, n)' = Held(S, n)
    <2>1. status'[n] = status[n] /\ count'[n] = count[n] /\ pending'[n] = pending[n]
      BY <1>9, <1>12 DEF Receives
    <2>2. InPass(T, n)' <=> InPass(S, n)
      BY <1>2, <1>4, <1>7, <1>8, <1>12, <2>1 DEF InPass
    <2>3. Own(n)' = Own(n) BY <1>9, <1>12 DEF Own, Receives
    <2>4. ~(n = at /\ step = "return" /\ ret >= 0) BY <1>2, <1>10, <1>12
    <2>5. n # at' BY <1>7, <1>12
    <2>6. QED BY <2>1, <2>2, <2>3, <2>4, <2>5 DEF Held
  <1>13. ret >= 0 => /\ ~HasChild(F, a) /\ sub[a] = ret
                     /\ status[a] \in {"START", "END"}
    <2>1. SUFFICES ASSUME ret >= 0
                   PROVE  ~HasChild(F, a) /\ sub[a] = ret /\ status[a] \in {"START", "END"}
      OBVIOUS
    <2>2. status[a] \in {"START", "END"} BY <1>1, <1>2, <1>7, <2>1 DEF Frames
    <2>3. ~InPass(S, a) BY <1>2, <1>7, <2>2 DEF InPass
    <2>4. ~HasChild(F, a) BY <1>1, <1>8, <2>3, ChildFrame
    <2>5. Held(S, a) = ret BY <1>2, <1>7, <2>1, <2>3 DEF Held
    <2>6. Below(F, sub, a) = 0 BY <2>4 DEF Below
    <2>7. sub[a] = ret BY <1>1, <1>8, <1>10, <2>5, <2>6 DEF Amounts
    <2>8. QED BY <2>2, <2>4, <2>7
  <1>14. G \subseteq F /\ (F \ {a}) \subseteq G /\ (a \in G => ret < 0) /\ T \subseteq G
    BY <1>2, <1>4, <1>5, <1>8, <1>10
  <1>15. ASSUME NEW n \in F \ {Root}, Parent[n] = p PROVE n = a
    BY <1>1, <1>8, <1>15 DEF Frames, Cur
  <1>16. ASSUME NEW n \in G
         PROVE  InPass(T, n)' <=> InPass(S, n)
    BY <1>8, <1>11, <1>12, <1>14
  <1>17. Frames(T, G)'
    <2>1. ASSUME NEW n \in G \ {Root}
          PROVE  Parent[n] \in G /\ Cur(n)' /\ InPass(T, Parent[n])'
      <3>1. Parent[n] \in F /\ Cur(n) /\ InPass(S, Parent[n]) /\ Parent[n] \in Node
        BY <1>1, <1>8, <1>14 DEF Frames
      <3>2. Parent[n] \in G
        <4>1. ret >= 0 => Parent[n] # a BY <1>13, <1>14 DEF HasChild
        <4>2. QED BY <1>5, <1>2, <3>1, <4>1
      <3>3. InPass(T, Parent[n])' BY <1>16, <3>1, <3>2
      <3>4. cursor'[Parent[n]] = cursor[Parent[n]]
        <4>1. CASE ret < 0 BY <1>9, <4>1
        <4>2. CASE ret >= 0
          <5>1. n # a BY <1>2, <1>5, <4>2
          <5>2. Parent[n] # p BY <1>14, <1>15, <5>1
          <5>3. QED BY <1>7, <3>1, <5>2
        <4>3. QED BY <1>10, <4>1, <4>2
      <3>5. QED BY <3>1, <3>2, <3>3, <3>4 DEF Cur
    <2>2. ASSUME NEW n \in Node \ G PROVE status'[n] \in {"START", "END"}
      <3>1. n # p BY <1>8, <1>14
      <3>2. status'[n] = status[n] BY <1>9, <3>1 DEF Receives
      <3>3. CASE n = a
        <4>1. ret >= 0 BY <1>2, <1>5, <1>8, <3>3
        <4>2. QED BY <1>13, <3>2, <3>3, <4>1
      <3>4. CASE n # a
        <4>1. n \notin F BY <1>14, <3>4
        <4>2. QED BY <1>1, <3>2, <4>1 DEF Frames
      <3>5. QED BY <3>3, <3>4
    <2>3. ~(step' = "return" /\ ret' >= 0)
      BY <1>9 DEF Receives
    <2>4. step' = "driver" => result' = "break" BY <1>9 DEF Receives
    <2>5. T \subseteq G /\ G \subseteq Node BY <1>8, <1>14
    <2>6. curstart' # -1 BY <1>1, <1>7, <1>8 DEF Applying
    <2>7. QED BY <2>1, <2>2, <2>3, <2>4, <2>5, <2>6 DEF Frames
  <1>18. Passes(T, G)'
    <2>1. SUFFICES ASSUME NEW n \in G
                   PROVE  /\ InPass(T, n)' => lcount'[n] <= count'[n]
                          /\ status'[n] = "ACTIONBREAK" => lcount'[n] < count'[n]
      BY DEF Passes
    <2>2. n \in F /\ n \in Node /\ lcount'[n] = lcount[n] BY <1>8, <1>9, <1>14 DEF Receives
    <2>3. CASE n = p
      <3>1. lcount[p] <= count[p] BY <1>1, <1>8, <1>11 DEF Passes
      <3>2. count'[p] \in Nat /\ count[p] <= count'[p] BY <1>9, <1>10 DEF Receives
      <3>3. status'[p] # "ACTIONBREAK"
        BY <1>1, <1>2, <1>8, <1>9 DEF Receives, Applying, ApplyStatus
      <3>4. QED BY <1>10, <2>2, <2>3, <3>1, <3>2, <3>3
    <2>4. CASE n # p
      BY <1>1, <1>9, <1>16, <2>1, <2>2, <2>4 DEF Passes, Receives
    <2>5. QED BY <2>3, <2>4
  <1>19. Amounts(T, G, sub)'
    <2>1. SUFFICES ASSUME NEW n \in G PROVE sub[n] = Held(T, n)' + Below(G, sub, n)'
      BY <1>1 DEF Amounts
    <2>2. n \in F /\ n \in Node BY <1>8, <1>14
    <2>3. sub[n] = Held(S, n) + Below(F, sub, n) /\ Held(S, n) \in Nat
      BY <1>1, <2>2, HeldType DEF Amounts
    <2>4. CASE n = p /\ ret >= 0
      <3>1. ~HasChild(G, p) BY <1>2, <1>5, <1>15, <2>4 DEF HasChild
      <3>2. HasChild(F, p) BY <1>7, <1>8 DEF HasChild
      <3>3. Children[p][cursor[p]] = a BY <1>8 DEF Cur
      <3>4. Below(G, sub, p)' = 0 /\ Below(F, sub, p) = ret
        BY <1>13, <2>4, <3>1, <3>2, <3>3 DEF Below, HasChild
      <3>5. got = ret BY <1>6, <2>4
      <3>6. QED BY <1>10, <1>11, <2>3, <2>4, <3>4, <3>5
    <2>5. CASE n # p /\ ret >= 0
      <3>1. n # a BY <1>2, <1>5, <2>5
      <3>2. Held(T, n)' = Held(S, n) BY <1>12, <2>2, <2>5, <3>1
      <3>3. HasChild(G, n) <=> HasChild(F, n)
        BY <1>2, <1>5, <1>8, <2>5 DEF HasChild
      <3>4. cursor'[n] = cursor[n] BY <1>7, <2>2, <2>5
      <3>5. Below(G, sub, n)' = Below(F, sub, n) BY <3>3, <3>4 DEF Below, HasChild
      <3>6. QED BY <2>3, <3>2, <3>5
    <2>6. CASE ret < 0
      <3>1. got = 0 /\ G = F /\ cursor' = cursor BY <1>5, <1>6, <1>9, <1>10, <2>6
      <3>2. Held(T, n)' = Held(S, n) BY <1>11, <1>12, <2>2, <2>3, <2>6, <3>1
      <3>3. Below(G, sub, n)' = Below(F, sub, n) BY <3>1 DEF Below, HasChild
      <3>4. QED BY <2>3, <3>2, <3>3
    <2>7. QED BY <1>10, <2>4, <2>5, <2>6
  <1>20. Seen(T, G, sub)'
    <2>1. lcount' = lcount /\ dirty' = dirty BY <1>9 DEF Receives
    <2>2. QED BY <1>1, <1>14, <1>16, <2>1 DEF Seen
  <1>21. Counting(T, sub)'
    <2>1. SUFFICES ASSUME ~erred PROVE Counting(T, sub)'
      BY <1>9 DEF Counting
    <2>2. ASSUME NEW n \in Node, ~(n \in T /\ (n # p \/ step' = "apply"))
          PROVE  pending'[n] = 0
      <3>1. CASE n = p
        <4>1. p \in T BY <1>2, <1>4, <1>8
        <4>2. QED BY <1>9, <2>2, <3>1, <4>1 DEF Receives
      <3>2. CASE n # p
        <4>1. n \notin T BY <2>2, <3>2
        <4>2. pending[n] = 0
          BY <1>1, <1>2, <1>4, <1>7, <2>1, <4>1 DEF Counting
        <4>3. QED BY <1>9, <3>2, <4>2 DEF Receives
      <3>3. QED BY <3>1, <3>2
    <2>3. curstart' # -1 BY <1>1, <1>7, <1>8 DEF Applying
    <2>4. changes' = sub[Root] BY <1>1, <1>7, <1>9, <2>1 DEF Counting
    <2>5. ownPending' = 0 \/ at' # Root \/ step' = "apply"
      BY <1>7, <1>9 DEF Receives
    <2>6. QED BY <1>7, <2>2, <2>3, <2>4, <2>5 DEF Counting
  <1>22. QED BY <1>7, <1>17, <1>18, <1>19, <1>20, <1>21 DEF Accounts

\* Inner, with the count of the changes, for a node below the root.
LEMMA InnerAccounts ==
    ASSUME TypeOK, TypeOK', NEW S, NEW F, NEW sub, Accounts(S, F, sub),
           NEW a, a = at, at' = a, OthersKept(a), ownPending' = ownPending,
           curstart' = curstart, erred' = erred, step # "driver", step' # "driver",
           a = Root => step' = "apply" /\ pending' = pending,
           HasChild(F, a) => cursor'[a] = cursor[a] /\ InPass(S, a)',
           NEW d \in Nat, Held(S, a)' = Held(S, a) + d,
           ~erred => changes' = changes + d,
           ~erred /\ step' # "apply" => pending'[a] = 0,
           InPass(S, a)' => lcount'[a] <= count'[a],
           status'[a] = "ACTIONBREAK" => lcount'[a] < count'[a],
           (\A n \in Node \ {a} : n \in dirty' => n \in dirty) \/ (d > 0 /\ F = S),
           a # Root /\ InPass(S, a)' /\ a \in dirty' =>
               Held(S, a) + d + Below(F, sub, a) > lcount'[a],
           step' = "return" /\ ret' >= 0 => status'[a] \in {"START", "END"},
           Applying(S)'
    PROVE  \E S2, F2, sub2 : Accounts(S2, F2, sub2)'
  <1>1. PICK sub2 : sub2 = [n \in Node |-> IF n \in S THEN sub[n] + d ELSE sub[n]]
    OBVIOUS
  <1>2. /\ Chain(S)' /\ Frames(S, F)' /\ Passes(S, F)'
        /\ Amounts(S, F, sub2)' /\ Seen(S, F, sub2)'
    BY <1>1, Inner
  <1>3. Counting(S, sub2)'
    <2>1. SUFFICES ASSUME ~erred PROVE Counting(S, sub2)'
      BY DEF Counting
    <2>2. /\ Counting(S, sub) /\ Root \in S /\ Root \in Node /\ a \in S /\ a \in Node
          /\ sub \in [Node -> Nat]
      BY DEF Accounts, Chain, Amounts
    <2>3. sub2[Root] = sub[Root] + d BY <1>1, <2>2
    <2>4. changes' = sub2[Root] BY <2>1, <2>2, <2>3 DEF Counting
    <2>5. \A n \in Node : ~(n \in S /\ (n # a \/ step' = "apply")) => pending'[n] = 0
      BY <2>1, <2>2 DEF Counting, OthersKept
    <2>6. curstart' = -1 => pending'[Root] = 0
      BY <2>1, <2>2 DEF Counting, OthersKept
    <2>7. ownPending' = 0 \/ at' # Root \/ step' = "apply" OBVIOUS
    <2>8. QED BY <2>4, <2>5, <2>6, <2>7 DEF Counting
  <1>4. QED BY <1>2, <1>3 DEF Accounts

\* Only the root has a frame.
LEMMA RootAlone ==
    ASSUME TypeOK', at' = Root, step' # "return",
           \A n \in Node \ {Root} : status'[n] \in {"START", "END"},
           step' = "apply" => status'[Root] \in ApplyStatus,
           step' = "apply" \/ status'[Root] = "MID" => lcount'[Root] <= count'[Root],
           status'[Root] = "ACTIONBREAK" => lcount'[Root] < count'[Root],
           step' = "driver" /\ result' \in {"none", "done"} =>
               status'[Root] \in {"START", "END"},
           ~erred' =>
               /\ \A n \in Node \ {Root} : pending'[n] = 0
               /\ step' # "apply" \/ curstart' = -1 => pending'[Root] = 0
               /\ step' # "apply" => ownPending' = 0
               /\ step' # "driver" \/ result' = "break" =>
                      changes' = Held({Root}, Root)'
    PROVE  \E S, F, sub : Accounts(S, F, sub)'
  <1>1. Root \in Node BY Constants
  <1>2. PICK k : k = Held({Root}, Root)' OBVIOUS
  <1>3. k \in Nat
    <2>1. /\ count'[Root] \in Nat /\ pending'[Root] \in Nat /\ ret' \in Int
          /\ ownPending' \in Nat
      BY <1>1 DEF TypeOK
    <2>2. Own(Root)' \in Nat BY <2>1 DEF Own
    <2>3. QED BY <1>2, <2>1, <2>2 DEF Held
  <1>4. PICK s2 : s2 = [n \in Node |-> k] OBVIOUS
  <1>5. Chain({Root})' /\ Applying({Root})' BY ChainRoot
  <1>6. InPass({Root}, Root)' <=> step' = "apply" \/ status'[Root] = "MID"
    BY DEF InPass
  <1>7. Frames({Root}, {Root})' BY <1>1 DEF Frames
  <1>8. Passes({Root}, {Root})' BY <1>6 DEF Passes
  <1>9. Amounts({Root}, {Root}, s2)'
    <2>1. ~HasChild({Root}, Root) BY DEF HasChild
    <2>2. Below({Root}, s2, Root)' = 0 BY <2>1 DEF Below, HasChild
    <2>3. s2 \in [Node -> Nat] /\ s2[Root] = k BY <1>1, <1>3, <1>4
    <2>4. s2[Root] = Held({Root}, Root)' + Below({Root}, s2, Root)'
      BY <1>2, <1>3, <2>2, <2>3
    <2>5. QED BY <2>3, <2>4 DEF Amounts
  <1>10. Seen({Root}, {Root}, s2)' BY DEF Seen
  <1>11. Counting({Root}, s2)'
    <2>1. s2[Root] = Held({Root}, Root)' BY <1>1, <1>2, <1>4
    <2>2. QED BY <2>1 DEF Counting
  <1>12. Accounts({Root}, {Root}, s2)'
    BY <1>5, <1>7, <1>8, <1>9, <1>10, <1>11 DEF Accounts
  <1>13. QED BY <1>12

\* Breakpoint edits, and the call that resumes what a breakpoint suspended,
\* leave the accounts as they are.
LEMMA AccountsSame ==
    ASSUME NEW S, NEW F, NEW sub, Accounts(S, F, sub),
           UNCHANGED <<status, count, lcount, cursor, pending, ownPending, curstart,
                       at, ret, dirty, erred, changes>>,
           \/ step' = step /\ result' = result
           \/ step = "driver" /\ step' = "perform" /\ result = "break"
    PROVE  Accounts(S, F, sub)'
  <1>1. /\ Chain(S) /\ Applying(S) /\ Frames(S, F) /\ Passes(S, F)
        /\ Amounts(S, F, sub) /\ Seen(S, F, sub) /\ Counting(S, sub)
    BY DEF Accounts
  <1>2. /\ step' = "apply" <=> step = "apply"
        /\ step' = "return" <=> step = "return"
        /\ step' = "driver" => step = "driver" /\ result' = result
        /\ step' # "driver" \/ result' = "break" => step # "driver" \/ result = "break"
    OBVIOUS
  <1>3. ASSUME NEW n PROVE (InPass(S, n)' <=> InPass(S, n)) /\ Held(S, n)' = Held(S, n)
    <2>1. InPass(S, n)' <=> InPass(S, n) BY <1>2 DEF InPass
    <2>2. QED BY <1>2, <2>1 DEF Held, Own
  <1>4. ASSUME NEW n PROVE Below(F, sub, n)' = Below(F, sub, n) BY DEF Below, HasChild
  <1>5. Chain(S)' BY <1>1 DEF Chain, Cur
  <1>6. Applying(S)' BY <1>1, <1>2 DEF Applying
  <1>7. Frames(S, F)' BY <1>1, <1>2, <1>3 DEF Frames, Cur
  <1>8. Passes(S, F)' BY <1>1, <1>3 DEF Passes
  <1>9. Amounts(S, F, sub)' BY <1>1, <1>3, <1>4 DEF Amounts
  <1>10. Seen(S, F, sub)' BY <1>1, <1>3 DEF Seen
  <1>11. Counting(S, sub)' BY <1>1, <1>2 DEF Counting
  <1>12. QED BY <1>5, <1>6, <1>7, <1>8, <1>9, <1>10, <1>11 DEF Accounts

\* Outside of a completed return nothing can be missed, and the total is
\* compared when the root is done.
LEMMA Quiet ==
    ASSUME step' # "return" \/ ~(ret' >= 0) \/ status'[at'] # "START", result' # "done"
    PROVE  Fixpoint' /\ CountExact'
  BY DEF Fixpoint, CountExact

\* The end of an apply below the root, with d changes made in it.
LEMMA FrameReturns ==
    ASSUME TypeOK, TypeOK', Control, NEW S, NEW F, NEW sub, Accounts(S, F, sub),
           at # Root, step = "apply", ~HasChild(F, at), NEW res \in Int, NEW delta \in Nat,
           ApplyReturns(at, res, delta), NEW d \in Nat,
           count[at] + delta + (IF res > 0 THEN res ELSE 0) = Held(S, at) + d,
           pending'[at] = 0, \A n \in Node \ {at} : pending'[n] = pending[n],
           UNCHANGED <<cursor, ownPending, curstart, erred>>, changes' = changes + d,
           dirty' = IF d > 0 THEN Node ELSE dirty, res < 0 => d > 0
    PROVE  (\E S2, F2, sub2 : Accounts(S2, F2, sub2)') /\ Fixpoint' /\ CountExact'
  <1>1. /\ Chain(S) /\ Applying(S) /\ Frames(S, F) /\ Passes(S, F)
        /\ Amounts(S, F, sub) /\ Seen(S, F, sub) /\ Counting(S, sub)
    BY DEF Accounts
  <1>2. PICK a : a = at OBVIOUS
  <1>3. PICK cnt : cnt = count[at] + delta + (IF res > 0 THEN res ELSE 0) OBVIOUS
  <1>4. a \in Node /\ a \in S /\ a \in F /\ F = S
    BY <1>1, <1>2, NoTail DEF Chain, Frames
  <1>5. /\ cnt \in Nat /\ count' = [count EXCEPT ![a] = cnt] /\ lcount' = lcount
        /\ at' = a /\ Goes(a, res, cnt)
    BY <1>2, <1>3, <1>4, ApplyReturnsFacts
  <1>6. InPass(S, a) BY <1>2 DEF InPass
  <1>7. /\ Held(S, a) \in Nat /\ count[a] <= Held(S, a) /\ lcount[a] <= count[a]
        /\ count[a] \in Nat /\ lcount[a] \in Nat /\ cnt = Held(S, a) + d
    BY <1>1, <1>2, <1>3, <1>4, <1>6, HeldType DEF Passes, TypeOK
  <1>8. count'[a] = cnt /\ pending'[a] = 0 /\ Own(a)' = 0
    BY <1>2, <1>4, <1>5 DEF TypeOK, Own
  <1>9. DoneStatus(a, cnt) \in {"START", "END"} BY DoneStatusFacts
  <1>10. step' # "apply" /\ step' # "driver" BY <1>2, <1>5 DEF Goes
  <1>11. InPass(S, a)' <=> status'[a] = "MID" BY <1>5, <1>10 DEF InPass
  <1>12. status'[a] = "MID" => res < 0
    BY <1>4, <1>5, <1>9 DEF Goes, TypeOK
  <1>13. status'[a] = "ACTIONBREAK" => lcount[a] < cnt
    BY <1>4, <1>5, <1>9 DEF Goes, TypeOK
  <1>14. step' = "return" /\ ret' >= 0 =>
            status'[a] \in {"START", "END"} /\ ret' = cnt
            /\ ~("repeat" \in Flags[a] /\ lcount[a] < cnt)
    <2>1. ~(-1 >= 0) OBVIOUS
    <2>2. QED BY <1>4, <1>5, <1>9, <2>1 DEF Goes, TypeOK
  <1>15. ~(step' = "return" /\ ret' >= 0) =>
            status'[a] \in {"MID", "ACTIONBREAK", "REPEAT"}
    <2>1. cnt >= 0 BY <1>5
    <2>2. QED BY <1>2, <1>4, <1>5, <2>1 DEF Goes, TypeOK
  <1>16. Held(S, a)' = cnt
    BY <1>5, <1>8, <1>11, <1>14, <1>15 DEF Held
  <1>17. OthersKept(a)
    BY <1>2, <1>5 DEF OthersKept, Goes, TypeOK
  <1>18. Applying(S)'
    BY <1>1, <1>2, <1>5, <1>10, <1>17 DEF Applying, OthersKept, Chain
  <1>19. Below(F, sub, a) = 0 BY <1>2 DEF Below
  <1>20. (\A n \in Node \ {a} : n \in dirty' => n \in dirty) \/ (d > 0 /\ F = S)
    BY <1>4
  <1>21. InPass(S, a)' /\ a \in dirty' => Held(S, a) + d + Below(F, sub, a) > lcount'[a]
    BY <1>5, <1>7, <1>11, <1>12, <1>19
  <1>22. InPass(S, a)' => lcount'[a] <= count'[a] BY <1>5, <1>7, <1>8
  <1>23. ~HasChild(F, a) /\ a # Root /\ Held(S, a)' = Held(S, a) + d
    BY <1>2, <1>7, <1>16
  <1>24. \E S2, F2, sub2 : Accounts(S2, F2, sub2)'
    BY <1>2, <1>5, <1>8, <1>10, <1>13, <1>14, <1>17, <1>18, <1>20, <1>21, <1>22, <1>23,
       InnerAccounts
  <1>25. step' = "return" /\ "repeat" \in Flags[a] /\ ret' >= 0 => a \notin dirty'
    <2>1. SUFFICES ASSUME step' = "return", "repeat" \in Flags[a], ret' >= 0, a \in dirty'
                   PROVE  FALSE
      OBVIOUS
    <2>2. ~(lcount[a] < cnt) BY <1>14, <2>1
    <2>3. d = 0 BY <1>7, <2>2
    <2>4. a \in dirty BY <2>1, <2>3
    <2>5. sub[a] > lcount[a] BY <1>1, <1>4, <1>6, <1>23, <2>4 DEF Seen
    <2>6. sub[a] = Held(S, a) + 0 BY <1>1, <1>4, <1>19 DEF Amounts
    <2>7. QED BY <1>7, <2>2, <2>3, <2>5, <2>6
  <1>26. Fixpoint' BY <1>5, <1>25 DEF Fixpoint
  <1>27. result' = "none" BY <1>2, <1>5, <1>23 DEF Goes, Control
  <1>28. QED BY <1>24, <1>26, <1>27 DEF CountExact

\* What each step has to show.
Balanced ==
    /\ Fixpoint /\ CountExact
    /\ result = "error" => erred
    /\ result # "error" => \E S, F, sub : Accounts(S, F, sub)

\* Only rule pools, groups and the root ever get a pending count.
LEMMA CoreLeavesStep ==
    ASSUME TypeOK, Control, ChainInv, CoreLeaves, Next
    PROVE  CoreLeaves'
  <1>1. at \in Node /\ Root \in Node /\ Parent[at] \in Node BY Constants DEF TypeOK
  <1>2. Root \notin Leaf BY FlagAssumption DEF Leaf, IsLeaf
  <1>3. ASSUME NEW n \in Node, n \notin Leaf \ Pool,
               \A m \in Node \ {n} : pending'[m] = pending[m]
        PROVE  CoreLeaves'
    BY <1>3 DEF CoreLeaves, Leaf
  <1>4. CASE pending' = pending BY <1>4 DEF CoreLeaves
  <1>5. CASE Perform
    BY <1>4, <1>5 DEF Perform, PerformStartBreak, PerformEnd, PerformApply,
                      PerformAfterActionBreak
  <1>6. CASE LeafStep
    <2>1. PICK h \in 0..2 : LeafApply(h) \/ PoolPark(h) \/ LeafError(h) BY <1>6 DEF LeafStep
    <2>2. CASE at \in Pool
      <3>1. \A m \in Node \ {at} : pending'[m] = pending[m]
        BY <2>1, <2>2 DEF LeafApply, PoolPark, LeafError, TypeOK
      <3>2. QED BY <1>1, <1>3, <2>2, <3>1
    <2>3. CASE at \notin Pool
      BY <1>4, <2>1, <2>3 DEF LeafApply, PoolPark, LeafError
    <2>4. QED BY <2>2, <2>3
  <1>7. CASE GroupStep
    <2>1. CASE GroupDescend BY <1>4, <2>1 DEF GroupDescend
    <2>2. CASE GroupDone
      <3>1. at \notin Leaf BY <2>2 DEF GroupDone, Leaf
      <3>2. \A m \in Node \ {at} : pending'[m] = pending[m]
        BY <2>2 DEF GroupDone, TypeOK
      <3>3. QED BY <1>1, <1>3, <3>1, <3>2
    <2>3. CASE ChildReturns \/ ChildSuspends
      <3>1. step = "return" /\ at # Root BY <2>3 DEF ChildReturns, ChildSuspends, Control
      <3>2. Cur(at) BY <1>1, <3>1 DEF ChainInv, Chain
      <3>3. Parent[at] \notin Leaf BY <3>2 DEF Cur, Leaf, IsLeaf
      <3>4. \A m \in Node \ {Parent[at]} : pending'[m] = pending[m]
        BY <2>3 DEF ChildReturns, ChildSuspends, GroupBreaks, TypeOK
      <3>5. QED BY <1>1, <1>3, <3>3, <3>4
    <2>4. QED BY <1>7, <2>1, <2>2, <2>3 DEF GroupStep
  <1>8. CASE RestartStep
    <2>1. \A m \in Node \ {Root} : pending'[m] = pending[m]
      BY <1>8
      DEF RestartStep, RestartCompleted, RestartNotPending, RestartRefused, RestartExceeded,
          RestartNoCallback, RestartReturns, RestartAgain, RestartFlowError, RestartClears,
          TypeOK
    <2>2. QED BY <1>1, <1>2, <1>3, <2>1
  <1>9. CASE Driver
    BY <1>4, <1>9 DEF Driver, ResetForFunction, CallPerform, Debugger, ClearBreakPoints,
                      SetBreakPoint
  <1>10. QED BY <1>5, <1>6, <1>7, <1>8, <1>9 DEF Next, Engine

\* perform starts, repeats or resumes an apply.
LEMMA ApplyBalanced ==
    ASSUME TypeOK, TypeOK', Control, NEW S, NEW F, NEW sub, Accounts(S, F, sub),
           PerformApply
    PROVE  Balanced'
  <1>1. /\ Chain(S) /\ Applying(S) /\ Frames(S, F) /\ Passes(S, F)
        /\ Amounts(S, F, sub) /\ Seen(S, F, sub) /\ Counting(S, sub)
    BY DEF Accounts
  <1>2. PICK a : a = at OBVIOUS
  <1>3. /\ a \in Node /\ a \in S /\ a \in F /\ count[a] \in Nat /\ pending[a] \in Nat
        /\ Own(a) \in Nat /\ lcount[a] \in Nat
    BY <1>1, <1>2 DEF Chain, Frames, TypeOK, Own
  <1>4. /\ step = "perform" /\ step' = "apply" /\ at' = a /\ result' = "none"
        /\ result = "none"
        /\ UNCHANGED <<status, pending, ownPending, curstart, erred, changes>>
        /\ status[a] \in ApplyStatus
    BY <1>2 DEF PerformApply, Control, restart, ApplyStatus
  <1>5. OthersKept(a)
    <2>1. \A n \in Node \ {a} : count'[n] = count[n] /\ cursor'[n] = cursor[n]
      BY <1>2 DEF PerformApply, TypeOK
    <2>2. \A n \in Node \ {a} : lcount'[n] = lcount[n]
      BY <1>2 DEF PerformApply, TypeOK
    <2>3. QED BY <1>4, <2>1, <2>2 DEF OthersKept
  <1>6. InPass(S, a)' BY <1>4 DEF InPass
  <1>7. Held(S, a)' = count'[a] + pending[a] + Own(a)
    BY <1>4, <1>6 DEF Held, Own
  <1>8. Applying(S)' BY <1>1, <1>2, <1>4 DEF Applying
  <1>9. Fixpoint' /\ CountExact' BY <1>4, Quiet
  <1>10. CASE status[a] = "MID"
    <2>1. /\ count'[a] = count[a] /\ lcount'[a] = lcount[a] /\ cursor'[a] = cursor[a]
          /\ dirty' = dirty
      BY <1>2, <1>3, <1>10 DEF PerformApply, TypeOK
    <2>2. InPass(S, a) BY <1>10 DEF InPass
    <2>3. Held(S, a) = count[a] + pending[a] + Own(a) BY <2>2 DEF Held
    <2>4. Held(S, a)' = Held(S, a) + 0 BY <1>3, <1>7, <2>1, <2>3
    <2>5. lcount'[a] <= count'[a] BY <1>1, <1>3, <2>1, <2>2 DEF Passes
    <2>6. a # Root /\ a \in dirty' => Held(S, a) + 0 + Below(F, sub, a) > lcount'[a]
      <3>1. Below(F, sub, a) \in Nat BY <1>1, <1>3, BelowType
      <3>2. sub[a] = Held(S, a) + Below(F, sub, a) BY <1>1, <1>3 DEF Amounts
      <3>3. a # Root /\ a \in dirty' => sub[a] > lcount[a] BY <1>1, <1>3, <2>1, <2>2 DEF Seen
      <3>4. Held(S, a) \in Nat BY <1>3, <2>3
      <3>5. QED BY <1>3, <2>1, <3>1, <3>2, <3>3, <3>4
    <2>7. status'[a] # "ACTIONBREAK" BY <1>4, <1>10
    <2>8. changes' = changes + 0 BY <1>4 DEF TypeOK
    <2>9. step # "driver" /\ step' # "driver" /\ step' # "return" /\ 0 \in Nat BY <1>4
    <2>10. \E S2, F2, sub2 : Accounts(S2, F2, sub2)'
      BY <1>2, <1>4, <1>5, <1>6, <1>8, <2>1, <2>4, <2>5, <2>6, <2>7, <2>8, <2>9,
         InnerAccounts
    <2>11. QED BY <1>4, <1>9, <2>10 DEF Balanced
  <1>11. CASE status[a] # "MID"
    <2>1. /\ count'[a] = (IF status[a] = "START" THEN 0 ELSE count[a])
          /\ lcount'[a] = count'[a] /\ dirty' = dirty \ {a}
      BY <1>2, <1>3, <1>11 DEF PerformApply, TypeOK
    <2>2. ~InPass(S, a) BY <1>2, <1>4, <1>11 DEF InPass
    <2>3. ~HasChild(F, a) BY <1>1, <1>3, <2>2, ChildFrame
    <2>4. Held(S, a) = count'[a]
      BY <1>2, <1>4, <1>11, <2>1, <2>2 DEF Held, ApplyStatus
    <2>5. PICK d \in Nat : d = pending[a] + Own(a) BY <1>3
    <2>6. Held(S, a)' = Held(S, a) + d BY <1>3, <1>7, <2>1, <2>4, <2>5
    <2>7. ~erred => d = 0
      <3>1. ~erred => pending[a] = 0 /\ (a = Root => ownPending = 0)
        BY <1>1, <1>2, <1>3, <1>4 DEF Counting
      <3>2. QED BY <2>5, <3>1 DEF Own
    <2>8. ~erred => changes' = changes + d BY <1>4, <2>7 DEF TypeOK
    <2>9. status'[a] # "ACTIONBREAK" BY <1>4 DEF ApplyStatus
    <2>10. lcount'[a] <= count'[a] BY <1>3, <2>1
    <2>11. /\ step # "driver" /\ step' # "driver" /\ step' # "return" /\ a \notin dirty'
           /\ \A n \in Node \ {a} : n \in dirty' => n \in dirty
      BY <1>4, <2>1
    <2>12. \E S2, F2, sub2 : Accounts(S2, F2, sub2)'
      BY <1>2, <1>4, <1>5, <1>6, <1>8, <2>3, <2>6, <2>8, <2>9, <2>10, <2>11,
         InnerAccounts
    <2>13. QED BY <1>4, <1>9, <2>12 DEF Balanced
  <1>12. QED BY <1>10, <1>11

\* perform of a node below the root ends without an apply.
LEMMA PerformBalanced ==
    ASSUME TypeOK, TypeOK', Control, NEW S, NEW F, NEW sub, Accounts(S, F, sub),
           at # Root, PerformStartBreak \/ PerformEnd \/ PerformAfterActionBreak
    PROVE  Balanced'
  <1>1. /\ Chain(S) /\ Applying(S) /\ Frames(S, F) /\ Passes(S, F)
        /\ Amounts(S, F, sub) /\ Seen(S, F, sub) /\ Counting(S, sub)
    BY DEF Accounts
  <1>2. PICK a : a = at OBVIOUS
  <1>3. /\ a \in Node /\ a \in S /\ a \in F /\ count[a] \in Nat /\ lcount[a] \in Nat
    BY <1>1, <1>2 DEF Chain, Frames, TypeOK
  <1>4. /\ step = "perform" /\ status[a] # "MID" /\ result = "none"
        /\ UNCHANGED <<pending, ownPending, curstart, erred, changes, lcount, dirty, cursor>>
    BY <1>2
    DEF PerformStartBreak, PerformEnd, PerformAfterActionBreak, Control, restart, ghosts,
        actionState
  <1>5. Ends(at) /\ Control' BY PerformEnds
  <1>6. /\ at' = a /\ step' # "apply" /\ step' # "driver" /\ result' = "none"
    BY <1>2, <1>5 DEF Ends, Control
  <1>7. ~InPass(S, a) BY <1>2, <1>4 DEF InPass
  <1>8. ~HasChild(F, a) BY <1>1, <1>3, <1>7, ChildFrame
  <1>9. \A n \in Node \ {a} : count'[n] = count[n]
    BY <1>2 DEF PerformStartBreak, PerformEnd, PerformAfterActionBreak, actionState, TypeOK
  <1>10. OthersKept(a) BY <1>2, <1>4, <1>5, <1>9 DEF OthersKept, Ends
  <1>11. Applying(S)' BY <1>1, <1>4, <1>5, ApplyingEnds
  <1>12. /\ Held(S, a)' = Held(S, a) /\ status'[a] # "MID"
         /\ status'[a] = "ACTIONBREAK" => FALSE
         /\ step' = "return" /\ ret' >= 0 => status'[a] \in {"START", "END"}
         /\ step' = "return" /\ "repeat" \in Flags[a] /\ ret' >= 0 => status'[a] # "START" \/ a \notin dirty
    <2>1. CASE PerformStartBreak
      <3>1. /\ status[a] = "START" /\ status'[a] = "BREAKSTARTHIT" /\ count'[a] = 0
            /\ ret' = -1
        BY <1>2, <1>3, <2>1 DEF PerformStartBreak, Return, TypeOK
      <3>2. ~InPass(S, a)' BY <1>6, <3>1 DEF InPass
      <3>3. ~(ret' >= 0) BY <3>1
      <3>4. Held(S, a)' = 0 BY <3>1, <3>2, <3>3 DEF Held
      <3>5. Held(S, a) = 0 BY <1>4, <1>7, <3>1 DEF Held
      <3>6. QED BY <3>1, <3>3, <3>4, <3>5
    <2>2. CASE PerformEnd
      <3>1. /\ status[a] = "END" /\ status'[a] = "END" /\ ret' = 0 /\ step' = "return"
        BY <1>2, <1>3, <2>2 DEF PerformEnd, Return, actionState
      <3>2. ~InPass(S, a)' BY <1>6, <3>1 DEF InPass
      <3>3. Held(S, a)' = 0 BY <1>6, <3>1, <3>2 DEF Held
      <3>4. Held(S, a) = 0 BY <1>4, <1>7, <3>1 DEF Held
      <3>5. QED BY <3>1, <3>3, <3>4
    <2>3. CASE PerformAfterActionBreak
      <3>1. status[a] = "ACTIONBREAK" /\ RepeatOrReturn(a, count[a]) /\ count' = count
        BY <1>2, <2>3 DEF PerformAfterActionBreak
      <3>2. Held(S, a) = count[a] BY <1>4, <1>7, <3>1 DEF Held
      <3>3. DoneStatus(a, count[a]) \in {"START", "END"} BY DoneStatusFacts
      <3>4. lcount[a] < count[a] BY <1>1, <1>3, <3>1 DEF Passes
      <3>5. \/ step' = "perform" /\ status'[a] = "REPEAT"
            \/ /\ step' = "return" /\ status'[a] \in {"START", "END"} /\ ret' = count[a]
               /\ "repeat" \notin Flags[a]
        BY <1>2, <1>3, <3>1, <3>3, <3>4, RepeatOrReturnFacts DEF TypeOK
      <3>6. ~InPass(S, a)' BY <1>6, <3>5 DEF InPass
      <3>7. count[a] >= 0 BY <1>3
      <3>8. Held(S, a)' = count[a] BY <1>6, <3>1, <3>5, <3>6, <3>7 DEF Held
      <3>9. QED BY <3>2, <3>5, <3>8
    <2>4. QED BY <2>1, <2>2, <2>3
  <1>13. Held(S, a)' = Held(S, a) + 0 /\ ~InPass(S, a)'
    BY <1>3, <1>6, <1>12, HeldType DEF InPass
  <1>14. ~erred => pending'[a] = 0 BY <1>1, <1>2, <1>3, <1>4 DEF Counting
  <1>15. changes' = changes + 0 BY <1>4 DEF TypeOK
  <1>16. \E S2, F2, sub2 : Accounts(S2, F2, sub2)'
    <2>1. /\ step # "driver" /\ a # Root /\ 0 \in Nat
          /\ \A n \in Node \ {a} : n \in dirty' => n \in dirty
      BY <1>2, <1>4
    <2>2. QED
      BY <1>2, <1>4, <1>6, <1>8, <1>10, <1>11, <1>12, <1>13, <1>14, <1>15, <2>1,
         InnerAccounts
  <1>17. Fixpoint' BY <1>4, <1>6, <1>12 DEF Fixpoint
  <1>18. QED BY <1>6, <1>16, <1>17 DEF Balanced, CountExact

\* The end of an apply below the root: leaves, pools and groups.
LEMMA LeafBalanced ==
    ASSUME TypeOK, TypeOK', Control, CoreLeaves, NEW S, NEW F, NEW sub,
           Accounts(S, F, sub), NEW h \in 0..2, LeafApply(h) \/ PoolPark(h)
    PROVE  Balanced'
  <1>1. LeafRuns(h) /\ at \in Node BY DEF LeafApply, PoolPark, TypeOK
  <1>2. step = "apply" /\ IsLeaf(at) BY <1>1 DEF LeafRuns
  <1>3. at # Root BY <1>2, FlagAssumption DEF IsLeaf
  <1>4. ~HasChild(F, at)
    <2>1. Len(Children[at]) = 0 BY <1>2 DEF IsLeaf
    <2>2. Frames(S, F) BY DEF Accounts
    <2>3. QED BY <1>1, <2>1, <2>2, ChildFrame
  <1>5. /\ h \in Nat /\ h \in Int /\ pending[at] \in Nat /\ count[at] \in Nat
        /\ 0 \in Nat /\ 0 \in Int /\ -1 \in Int /\ pending[at] + h \in Nat
    BY <1>1 DEF TypeOK
  <1>6. Held(S, at) = count[at] + pending[at]
    <2>1. InPass(S, at) BY <1>2 DEF InPass
    <2>2. Own(at) = 0 BY <1>3 DEF Own
    <2>3. QED BY <1>5, <2>1, <2>2 DEF Held
  <1>7. \E res \in Int, delta \in Nat :
            /\ ApplyReturns(at, res, delta) /\ (res < 0 => h > 0)
            /\ count[at] + delta + (IF res > 0 THEN res ELSE 0) = Held(S, at) + h
    <2>1. CASE LeafApply(h) /\ at \in Pool
      <3>1. ApplyReturns(at, 0, pending[at] + h) BY <2>1 DEF LeafApply
      <3>2. count[at] + (pending[at] + h) + (IF 0 > 0 THEN 0 ELSE 0) = Held(S, at) + h
        BY <1>5, <1>6
      <3>3. QED BY <1>5, <3>1, <3>2
    <2>2. CASE LeafApply(h) /\ at \notin Pool
      <3>1. ApplyReturns(at, h, 0) BY <2>2 DEF LeafApply
      <3>2. pending[at] = 0 BY <1>1, <1>2, <2>2 DEF CoreLeaves, Leaf
      <3>3. count[at] + 0 + (IF h > 0 THEN h ELSE 0) = Held(S, at) + h
        BY <1>5, <1>6, <3>2
      <3>4. ~(h < 0) BY <1>5
      <3>5. QED BY <1>5, <3>1, <3>3, <3>4
    <2>3. CASE PoolPark(h)
      <3>1. ApplyReturns(at, -1, pending[at] + h) /\ h > 0 BY <2>3 DEF PoolPark
      <3>2. count[at] + (pending[at] + h) + (IF -1 > 0 THEN -1 ELSE 0) = Held(S, at) + h
        BY <1>5, <1>6
      <3>3. QED BY <1>5, <3>1, <3>2
    <2>4. QED BY <2>1, <2>2, <2>3
  <1>8. PICK res \in Int, delta \in Nat :
            /\ ApplyReturns(at, res, delta) /\ (res < 0 => h > 0)
            /\ count[at] + delta + (IF res > 0 THEN res ELSE 0) = Held(S, at) + h
    BY <1>7
  <1>9. pending'[at] = 0 /\ \A n \in Node \ {at} : pending'[n] = pending[n]
    <2>1. CASE at \in Pool BY <1>1, <2>1 DEF LeafApply, PoolPark, TypeOK
    <2>2. CASE at \notin Pool
      <3>1. pending[at] = 0 BY <1>1, <1>2, <2>2 DEF CoreLeaves, Leaf
      <3>2. pending' = pending BY <2>2 DEF LeafApply, PoolPark
      <3>3. QED BY <3>1, <3>2
    <2>3. QED BY <2>1, <2>2
  <1>10. /\ UNCHANGED <<cursor, ownPending, curstart, erred>> /\ changes' = changes + h
         /\ dirty' = IF h > 0 THEN Node ELSE dirty
    BY <1>1 DEF LeafApply, PoolPark, LeafRuns, restart
  <1>11. (\E S2, F2, sub2 : Accounts(S2, F2, sub2)') /\ Fixpoint' /\ CountExact'
    BY <1>2, <1>3, <1>4, <1>5, <1>8, <1>9, <1>10, FrameReturns
  <1>12. result' # "error"
    BY <1>3, LeafEnds DEF Ends, Control
  <1>13. QED BY <1>11, <1>12 DEF Balanced

LEMMA GroupDoneBalanced ==
    ASSUME TypeOK, TypeOK', Control, NEW S, NEW F, NEW sub, Accounts(S, F, sub), GroupDone
    PROVE  Balanced'
  <1>1. at \in Node /\ step = "apply" /\ at # Root BY DEF GroupDone, TypeOK
  <1>2. ~HasChild(F, at)
    <2>1. Len(Children[at]) \in Nat /\ cursor[at] \in Nat BY <1>1, TreeAssumption DEF TypeOK
    <2>2. ~(cursor[at] \in 1..Len(Children[at])) BY <2>1 DEF GroupDone
    <2>3. Frames(S, F) BY DEF Accounts
    <2>4. QED BY <1>1, <2>2, <2>3, ChildFrame
  <1>3. pending[at] \in Nat /\ count[at] \in Nat /\ 0 \in Int /\ 0 \in Nat /\ changes \in Nat
    BY <1>1 DEF TypeOK
  <1>4. Held(S, at) = count[at] + pending[at]
    <2>1. InPass(S, at) BY <1>1 DEF InPass
    <2>2. Own(at) = 0 BY <1>1 DEF Own
    <2>3. QED BY <1>3, <2>1, <2>2 DEF Held
  <1>5. /\ count[at] + pending[at] + (IF 0 > 0 THEN 0 ELSE 0) = Held(S, at) + 0
        /\ changes' = changes + 0 /\ ~(0 < 0)
        /\ dirty' = IF 0 > 0 THEN Node ELSE dirty
        /\ UNCHANGED <<cursor, ownPending, curstart, erred>>
        /\ pending'[at] = 0 /\ \A n \in Node \ {at} : pending'[n] = pending[n]
    BY <1>1, <1>3, <1>4 DEF GroupDone, ghosts, restart, TypeOK
  <1>6. ApplyReturns(at, 0, pending[at]) BY DEF GroupDone
  <1>7. (\E S2, F2, sub2 : Accounts(S2, F2, sub2)') /\ Fixpoint' /\ CountExact'
    BY <1>1, <1>2, <1>3, <1>5, <1>6, FrameReturns
  <1>8. result' # "error" BY <1>1, GroupDoneEnds DEF Ends, Control
  <1>9. QED BY <1>7, <1>8 DEF Balanced

\* Nothing below the root: what the accounts say then.
LEMMA RootFacts ==
    ASSUME TypeOK, NEW S, NEW F, NEW sub, Accounts(S, F, sub), at = Root, ~HasChild(F, Root)
    PROVE  /\ \A n \in Node \ {Root} : status[n] \in {"START", "END"}
           /\ ~erred => \A n \in Node \ {Root} : pending[n] = 0
           /\ ~erred /\ step # "apply" => pending[Root] = 0 /\ ownPending = 0
           /\ ~erred /\ curstart = -1 => pending[Root] = 0
           /\ ~erred /\ (step # "driver" \/ result = "break") => changes = Held(S, Root)
           /\ InPass(S, Root) => lcount[Root] <= count[Root]
           /\ status[Root] = "ACTIONBREAK" => lcount[Root] < count[Root]
           /\ Held(S, Root) \in Nat
  <1>1. /\ Chain(S) /\ Frames(S, F) /\ Passes(S, F) /\ Amounts(S, F, sub) /\ Counting(S, sub)
    BY DEF Accounts
  <1>2. S = {Root} /\ F = {Root} BY <1>1, NoTail, RootOnly
  <1>3. Root \in Node BY Constants
  <1>4. \A n \in Node \ {Root} : status[n] \in {"START", "END"} BY <1>1, <1>2 DEF Frames
  <1>5. /\ ~erred => \A n \in Node \ {Root} : pending[n] = 0
        /\ ~erred /\ step # "apply" => pending[Root] = 0 /\ ownPending = 0
        /\ ~erred /\ curstart = -1 => pending[Root] = 0
    BY <1>1, <1>2, <1>3 DEF Counting
  <1>6. /\ InPass(S, Root) => lcount[Root] <= count[Root]
        /\ status[Root] = "ACTIONBREAK" => lcount[Root] < count[Root]
    BY <1>1, <1>2 DEF Passes
  <1>7. Held(S, Root) \in Nat BY <1>3, HeldType
  <1>8. Below(F, sub, Root) = 0 BY DEF Below
  <1>9. sub[Root] = Held(S, Root) BY <1>1, <1>2, <1>7, <1>8 DEF Amounts
  <1>10. ~erred /\ (step # "driver" \/ result = "break") => changes = Held(S, Root)
    BY <1>1, <1>9 DEF Counting
  <1>11. QED BY <1>4, <1>5, <1>6, <1>7, <1>10

\* perform of the root ends without an apply.
LEMMA RootPerformBalanced ==
    ASSUME TypeOK, TypeOK', Control, NEW S, NEW F, NEW sub, Accounts(S, F, sub),
           at = Root, PerformStartBreak \/ PerformEnd \/ PerformAfterActionBreak
    PROVE  Balanced'
  <1>1. Frames(S, F) /\ Chain(S) BY DEF Accounts
  <1>2. Root \in Node BY Constants
  <1>3. /\ step = "perform" /\ status[Root] # "MID" /\ result = "none"
        /\ UNCHANGED <<pending, ownPending, curstart, erred, changes, lcount>>
    BY DEF PerformStartBreak, PerformEnd, PerformAfterActionBreak, Control, restart, ghosts,
           actionState
  <1>4. ~InPass(S, Root) BY <1>3 DEF InPass
  <1>5. ~HasChild(F, Root) BY <1>1, <1>2, <1>4, ChildFrame
  <1>6. Ends(Root) /\ Control' BY PerformEnds
  <1>7. /\ at' = Root /\ step' # "apply" /\ step' # "return"
        /\ \A n \in Node \ {Root} : status'[n] \in {"START", "END"}
        /\ ~erred' => /\ \A n \in Node \ {Root} : pending'[n] = 0
                      /\ pending'[Root] = 0 /\ ownPending' = 0
    BY <1>3, <1>5, <1>6, RootFacts DEF Ends, Control
  <1>8. ~erred => changes = Held(S, Root) BY <1>3, <1>5, RootFacts
  <1>9. /\ status'[Root] \notin {"MID", "ACTIONBREAK"}
        /\ step' = "driver" /\ result' \in {"none", "done"} => status'[Root] \in {"START", "END"}
        /\ result' = "done" => ret' = Held(S, Root)
        /\ step' # "driver" \/ result' = "break" => Held({Root}, Root)' = Held(S, Root)
        /\ result' # "error"
    <2>1. CASE PerformStartBreak
      <3>1. /\ status[Root] = "START" /\ status'[Root] = "BREAKSTARTHIT" /\ count'[Root] = 0
            /\ result' = "break"
        BY <1>2, <2>1 DEF PerformStartBreak, Return, TypeOK
      <3>2. ~InPass({Root}, Root)' BY <1>7, <3>1 DEF InPass
      <3>3. Held({Root}, Root)' = 0 BY <1>7, <3>1, <3>2 DEF Held
      <3>4. Held(S, Root) = 0 BY <1>3, <1>4, <3>1 DEF Held
      <3>5. QED BY <3>1, <3>3, <3>4
    <2>2. CASE PerformEnd
      <3>1. /\ status[Root] = "END" /\ status' = status /\ ret' = 0 /\ step' = "driver"
            /\ result' = "done"
        BY <2>2 DEF PerformEnd, Return, actionState
      <3>2. Held(S, Root) = 0 BY <1>3, <1>4, <3>1 DEF Held
      <3>3. QED BY <3>1, <3>2
    <2>3. CASE PerformAfterActionBreak
      <3>1. /\ status[Root] = "ACTIONBREAK" /\ RepeatOrReturn(Root, count[Root])
            /\ count' = count /\ count[Root] \in Nat
        BY <1>2, <2>3 DEF PerformAfterActionBreak, TypeOK
      <3>2. Held(S, Root) = count[Root] BY <1>3, <1>4, <3>1 DEF Held
      <3>3. DoneStatus(Root, count[Root]) \in {"START", "END"} BY DoneStatusFacts
      <3>4. \/ step' = "perform" /\ status'[Root] = "REPEAT" /\ result' = result
            \/ /\ step' = "driver" /\ status'[Root] \in {"START", "END"}
               /\ ret' = count[Root] /\ result' = "done"
        BY <1>2, <3>1, <3>3, RepeatOrReturnFacts DEF TypeOK
      <3>5. ~InPass({Root}, Root)' BY <1>7, <3>4 DEF InPass
      <3>6. step' = "perform" => Held({Root}, Root)' = count[Root]
        BY <3>1, <3>4, <3>5 DEF Held
      <3>7. QED BY <1>3, <3>2, <3>4, <3>6
    <2>4. QED BY <2>1, <2>2, <2>3
  <1>10. \E S2, F2, sub2 : Accounts(S2, F2, sub2)'
    <2>1. ~erred' => (step' # "driver" \/ result' = "break" =>
                         changes' = Held({Root}, Root)')
      BY <1>3, <1>8, <1>9
    <2>2. QED BY <1>7, <1>9, <2>1, RootAlone
  <1>11. Fixpoint' BY <1>7 DEF Fixpoint
  <1>12. CountExact' BY <1>3, <1>8, <1>9 DEF CountExact
  <1>13. QED BY <1>9, <1>10, <1>11, <1>12 DEF Balanced

\* The root's apply returns with all that is on its way up.
LEMMA RootReturnsBalanced ==
    ASSUME TypeOK, TypeOK', Control, NEW S, NEW F, NEW sub, Accounts(S, F, sub),
           at = Root, step = "apply", ~HasChild(F, Root), NEW delta \in Nat,
           ApplyReturns(Root, 0, delta), ~erred => count[Root] + delta = Held(S, Root),
           \A n \in Node \ {Root} : pending'[n] = pending[n], ~erred => pending'[Root] = 0,
           ownPending' = 0, UNCHANGED <<erred, changes>>
    PROVE  Balanced'
  <1>1. Root \in Node /\ 0 \in Int BY Constants
  <1>2. PICK cnt : cnt = count[Root] + delta + (IF 0 > 0 THEN 0 ELSE 0) OBVIOUS
  <1>3. /\ cnt \in Nat /\ count' = [count EXCEPT ![Root] = cnt] /\ lcount' = lcount
        /\ at' = Root /\ Goes(Root, 0, cnt)
    BY <1>1, <1>2, ApplyReturnsFacts
  <1>4. cnt = count[Root] + delta /\ count'[Root] = cnt BY <1>1, <1>2, <1>3 DEF TypeOK
  <1>5. result = "none" /\ Ends(Root) /\ Control'
    BY <1>1, ApplyReturnsEnds DEF Control
  <1>6. DoneStatus(Root, cnt) \in {"START", "END"} BY DoneStatusFacts
  <1>7. \/ step' = "driver" /\ status'[Root] = "ACTIONBREAK" /\ result' = "break"
           /\ lcount[Root] < cnt
        \/ step' = "perform" /\ status'[Root] = "REPEAT" /\ result' = "none"
        \/ /\ step' = "driver" /\ status'[Root] \in {"START", "END"} /\ result' = "done"
           /\ ret' = cnt
    <2>1. ~(0 < 0) OBVIOUS
    <2>2. QED BY <1>1, <1>3, <1>5, <1>6, <2>1 DEF Goes, TypeOK
  <1>8. ~erred => changes' = cnt BY <1>4, RootFacts
  <1>9. step' # "driver" \/ result' = "break" => Held({Root}, Root)' = cnt
    <2>1. ~InPass({Root}, Root)' BY <1>3, <1>7 DEF InPass
    <2>2. step' # "return" BY <1>7
    <2>3. QED BY <1>4, <1>7, <2>1, <2>2 DEF Held
  <1>10. \A n \in Node \ {Root} : status'[n] \in {"START", "END"}
    BY <1>5, RootFacts DEF Ends
  <1>11. ~erred' => /\ \A n \in Node \ {Root} : pending'[n] = 0
                    /\ pending'[Root] = 0 /\ ownPending' = 0
                    /\ step' # "driver" \/ result' = "break" =>
                          changes' = Held({Root}, Root)'
    BY <1>8, <1>9, RootFacts
  <1>12. /\ step' # "apply" /\ step' # "return" /\ status'[Root] # "MID"
         /\ status'[Root] = "ACTIONBREAK" => lcount'[Root] < count'[Root]
         /\ step' = "driver" /\ result' \in {"none", "done"} =>
               status'[Root] \in {"START", "END"}
    BY <1>3, <1>4, <1>7
  <1>13. \E S2, F2, sub2 : Accounts(S2, F2, sub2)'
    BY <1>3, <1>10, <1>11, <1>12, RootAlone
  <1>14. Fixpoint' BY <1>12 DEF Fixpoint
  <1>15. CountExact' /\ result' # "error" BY <1>7, <1>8 DEF CountExact
  <1>16. QED BY <1>13, <1>14, <1>15 DEF Balanced

LEMMA RestartBalanced ==
    ASSUME TypeOK, TypeOK', Control, NEW S, NEW F, NEW sub, Accounts(S, F, sub), RestartStep
    PROVE  Balanced'
  <1>1. Frames(S, F) /\ Chain(S) BY DEF Accounts
  <1>2. Root \in Node /\ count[Root] \in Nat /\ pending[Root] \in Nat /\ ownPending \in Nat
        /\ ownPending + pending[Root] \in Nat
    BY Constants DEF TypeOK
  <1>3. at = Root /\ step = "apply"
    BY DEF RestartStep, RestartCompleted, RestartNotPending, RestartRefused,
           RestartExceeded, RestartNoCallback, RestartAgain, RestartFlowError,
           RestartClears, RestartDue
  <1>4. InPass(S, Root) BY <1>3 DEF InPass
  <1>5. Held(S, Root) = count[Root] + pending[Root] + ownPending
    BY <1>4 DEF Held, Own
  <1>6. ~HasChild(F, Root)
    <2>1. CASE curstart = -1
      BY <1>1, <2>1 DEF Frames, HasChild
    <2>2. CASE curstart # -1
      <3>1. cursor[Root] > Len(Children[Root])
        BY <2>2
        DEF RestartStep, RestartCompleted, RestartNotPending, RestartRefused,
            RestartExceeded, RestartNoCallback, RestartAgain, RestartFlowError,
            RestartClears, RestartDue
      <3>2. Len(Children[Root]) \in Nat /\ cursor[Root] \in Nat
        BY <1>2, TreeAssumption DEF TypeOK
      <3>3. ~(cursor[Root] \in 1..Len(Children[Root])) BY <3>1, <3>2
      <3>4. QED BY <1>1, <1>2, <3>3, ChildFrame
    <2>3. QED BY <2>1, <2>2
  <1>7. CASE RestartCompleted
    <2>1. /\ ApplyReturns(Root, 0, ownPending) /\ ownPending' = 0 /\ pending' = pending
          /\ UNCHANGED <<erred, changes>> /\ curstart = -1
      BY <1>7 DEF RestartCompleted, ghosts
    <2>2. ~erred => pending[Root] = 0 BY <1>3, <1>6, <2>1, RootFacts
    <2>3. ~erred => count[Root] + ownPending = Held(S, Root) BY <1>2, <1>5, <2>2
    <2>4. QED BY <1>2, <1>3, <1>6, <2>1, <2>2, <2>3, RootReturnsBalanced
  <1>8. ASSUME RestartReturns PROVE Balanced'
    <2>1. /\ ApplyReturns(Root, 0, ownPending + pending[Root]) /\ ownPending' = 0
          /\ pending'[Root] = 0 /\ \A n \in Node \ {Root} : pending'[n] = pending[n]
          /\ UNCHANGED <<erred, changes>>
      BY <1>2, <1>8 DEF RestartReturns, ghosts, TypeOK
    <2>2. count[Root] + (ownPending + pending[Root]) = Held(S, Root) BY <1>2, <1>5
    <2>3. QED BY <1>2, <1>3, <1>6, <2>1, <2>2, RootReturnsBalanced
  <1>9. CASE RestartAgain
    <2>1. /\ status' = [n \in Node |-> "START"] /\ at' = Root /\ step' = "apply"
          /\ result' = "none" /\ UNCHANGED <<count, lcount, erred, changes>>
          /\ ownPending' = ownPending + pending[Root]
          /\ pending' = [pending EXCEPT ![Root] = 0]
      BY <1>3, <1>9 DEF RestartAgain, RestartClears, control, Control
    <2>2. /\ \A n \in Node : status'[n] = "START"
          /\ pending'[Root] = 0 /\ \A n \in Node \ {Root} : pending'[n] = pending[n]
      BY <1>2, <2>1 DEF TypeOK
    <2>3. InPass({Root}, Root)' BY <2>1 DEF InPass
    <2>4. Held({Root}, Root)' = Held(S, Root)
      <3>1. Held({Root}, Root)' = count[Root] + 0 + (ownPending + pending[Root])
        BY <2>1, <2>2, <2>3 DEF Held, Own
      <3>2. QED BY <1>2, <1>5, <3>1
    <2>5. ~erred' => /\ \A n \in Node \ {Root} : pending'[n] = 0
                     /\ pending'[Root] = 0 /\ changes' = Held({Root}, Root)'
      BY <1>3, <1>6, <2>1, <2>2, <2>4, RootFacts
    <2>6. lcount'[Root] <= count'[Root] BY <1>3, <1>4, <1>6, <2>1, RootFacts
    <2>7. \E S2, F2, sub2 : Accounts(S2, F2, sub2)'
      <3>1. /\ step' # "return" /\ step' # "driver" /\ status'[Root] \in ApplyStatus
            /\ status'[Root] # "ACTIONBREAK"
            /\ \A n \in Node \ {Root} : status'[n] \in {"START", "END"}
        BY <1>2, <2>1, <2>2 DEF ApplyStatus
      <3>2. QED BY <2>1, <2>5, <2>6, <3>1, RootAlone
    <2>8. QED BY <2>1, <2>7, Quiet DEF Balanced
  <1>10. CASE RestartFlowError
    <2>1. step' = "driver" /\ result' = "error" /\ erred' = TRUE
      BY <1>10 DEF RestartFlowError, Fail
    <2>2. QED BY <2>1, Quiet DEF Balanced
  <1>11. QED
    BY <1>7, <1>8, <1>9, <1>10
    DEF RestartStep, RestartNotPending, RestartRefused, RestartExceeded, RestartNoCallback

LEMMA DriverBalanced ==
    ASSUME TypeOK, TypeOK', Control, Balanced, Driver
    PROVE  Balanced'
  <1>1. at = Root /\ step = "driver" /\ Root \in Node
    BY Constants
    DEF Control, Driver, ResetForFunction, CallPerform, Debugger, ClearBreakPoints,
        SetBreakPoint
  <1>2. ASSUME NEW S, NEW F, NEW sub, Accounts(S, F, sub), status[Root] # "MID"
        PROVE  ~HasChild(F, Root) /\ ~InPass(S, Root)
    <2>1. ~InPass(S, Root) BY <1>1, <1>2 DEF InPass
    <2>2. Frames(S, F) BY <1>2 DEF Accounts
    <2>3. QED BY <1>1, <2>1, <2>2, ChildFrame
  <1>3. CASE ResetForFunction
    <2>1. /\ \A n \in Node : status'[n] = "START"
          /\ at' = Root /\ step' = "driver" /\ result' = "none"
          /\ ownPending' = 0 /\ UNCHANGED <<pending, erred>>
      BY <1>1, <1>3 DEF ResetForFunction
    <2>2. ~erred => \A n \in Node : pending[n] = 0
      <3>1. SUFFICES ASSUME ~erred PROVE \A n \in Node : pending[n] = 0 OBVIOUS
      <3>2. PICK S, F, sub : Accounts(S, F, sub) BY <3>1 DEF Balanced
      <3>3. Chain(S) /\ Counting(S, sub) BY <3>2 DEF Accounts
      <3>4. QED BY <1>1, <3>1, <3>3, RootOnly DEF Counting
    <2>3. /\ step' # "return" /\ step' # "apply" /\ status'[Root] = "START"
          /\ \A n \in Node \ {Root} : status'[n] \in {"START", "END"}
          /\ result' # "break" /\ result' # "error"
          /\ ~erred' => /\ \A n \in Node \ {Root} : pending'[n] = 0
                        /\ pending'[Root] = 0 /\ ownPending' = 0
      BY <1>1, <2>1, <2>2
    <2>4. \E S2, F2, sub2 : Accounts(S2, F2, sub2)'
      BY <2>1, <2>3, RootAlone
    <2>5. QED BY <2>1, <2>3, <2>4, Quiet DEF Balanced
  <1>4. CASE CallPerform
    <2>1. /\ UNCHANGED <<status, count, lcount, cursor, pending, ownPending, curstart,
                         ret, dirty, erred>>
          /\ at' = Root /\ step' = "perform" /\ result' = "none" /\ result # "error"
          /\ changes' = IF result = "break" THEN changes ELSE 0
      BY <1>4 DEF CallPerform, actionState, restart
    <2>2. PICK S, F, sub : Accounts(S, F, sub) BY <2>1 DEF Balanced
    <2>3. CASE result = "break"
      <3>1. Accounts(S, F, sub)' BY <1>1, <2>1, <2>2, <2>3, AccountsSame
      <3>2. QED BY <2>1, <3>1, Quiet DEF Balanced
    <2>4. CASE result # "break"
      <3>1. status[Root] \in {"START", "END"}
        BY <1>1, <2>1, <2>2, <2>4 DEF Accounts, Frames, TypeOK
      <3>2. ~HasChild(F, Root) /\ ~InPass(S, Root) BY <1>2, <2>2, <3>1
      <3>3. /\ \A n \in Node \ {Root} : status'[n] \in {"START", "END"}
            /\ ~erred' => \A n \in Node : pending'[n] = 0
            /\ ~erred' => ownPending' = 0
        BY <1>1, <2>1, <2>2, <3>2, RootFacts
      <3>4. ~InPass({Root}, Root)' BY <2>1, <3>1 DEF InPass
      <3>5. Held({Root}, Root)' = 0 BY <2>1, <3>1, <3>4 DEF Held
      <3>6. changes' = 0 BY <2>1, <2>4
      <3>7. /\ step' # "return" /\ step' # "apply" /\ step' # "driver"
            /\ status'[Root] # "MID" /\ status'[Root] # "ACTIONBREAK"
        BY <2>1, <3>1
      <3>8. \E S2, F2, sub2 : Accounts(S2, F2, sub2)'
        BY <1>1, <2>1, <3>3, <3>5, <3>6, <3>7, RootAlone
      <3>9. QED BY <2>1, <3>8, Quiet DEF Balanced
    <2>5. QED BY <2>3, <2>4
  <1>5. CASE Debugger
    <2>1. UNCHANGED <<status, count, lcount, cursor, pending, ownPending, curstart,
                      at, step, ret, result, dirty, erred, changes>>
      BY <1>5 DEF Debugger, ClearBreakPoints, SetBreakPoint, control, restart, ghosts
    <2>2. Fixpoint' /\ CountExact' BY <2>1 DEF Balanced, Fixpoint, CountExact
    <2>3. result # "error" => \E S, F, sub : Accounts(S, F, sub)'
      <3>1. SUFFICES ASSUME result # "error" PROVE \E S, F, sub : Accounts(S, F, sub)'
        OBVIOUS
      <3>2. PICK S, F, sub : Accounts(S, F, sub) BY <3>1 DEF Balanced
      <3>3. Accounts(S, F, sub)' BY <2>1, <3>2, AccountsSame
      <3>4. QED BY <3>3
    <2>4. QED BY <2>1, <2>2, <2>3 DEF Balanced
  <1>6. QED BY <1>3, <1>4, <1>5 DEF Driver

LEMMA CountStep ==
    ASSUME TreeInv, TreeInv', CoreLeaves, Balanced, Next
    PROVE  Balanced'
  <1>1. TypeOK /\ TypeOK' /\ Control BY DEF TreeInv
  <1>2. CASE Driver BY <1>1, <1>2, DriverBalanced
  <1>3. CASE Engine
    <2>1. step # "driver"
      BY <1>3
      DEF Engine, Perform, PerformStartBreak, PerformEnd, PerformApply,
          PerformAfterActionBreak, LeafStep, LeafApply, PoolPark, LeafError, LeafRuns,
          GroupStep, GroupDescend, GroupDone, ChildReturns, ChildSuspends, RestartStep,
          RestartCompleted, RestartNotPending, RestartRefused, RestartExceeded,
          RestartNoCallback, RestartAgain, RestartFlowError, RestartClears, RestartDue
    <2>2. result = "none" BY <1>1, <2>1 DEF Control
    <2>3. PICK S, F, sub : Accounts(S, F, sub) BY <2>2 DEF Balanced
    <2>4. CASE Perform
      BY <1>1, <2>3, <2>4, ApplyBalanced, PerformBalanced, RootPerformBalanced DEF Perform
    <2>5. CASE LeafStep
      <3>1. PICK h \in 0..2 : LeafApply(h) \/ PoolPark(h) \/ LeafError(h)
        BY <2>5 DEF LeafStep
      <3>2. CASE LeafError(h)
        <4>1. step' = "driver" /\ result' = "error" /\ erred' = TRUE
          BY <3>2 DEF LeafError, Fail
        <4>2. QED BY <4>1, Quiet DEF Balanced
      <3>3. QED BY <1>1, <2>3, <3>1, <3>2, LeafBalanced
    <2>6. CASE GroupDescend
      <3>1. \E S2, F2, sub2 : Accounts(S2, F2, sub2)' BY <1>1, <2>3, <2>6, DownAccounts
      <3>2. step' = "perform" /\ result' = "none" BY <2>2, <2>6 DEF GroupDescend
      <3>3. QED BY <3>1, <3>2, Quiet DEF Balanced
    <2>7. CASE ChildReturns \/ ChildSuspends
      <3>1. \E S2, F2, sub2 : Accounts(S2, F2, sub2)' BY <1>1, <2>3, <2>7, UpAccounts
      <3>2. PICK got : got = (IF ret >= 0 THEN ret ELSE 0) OBVIOUS
      <3>3. Receives(Parent[at], got) BY <1>1, <2>7, <3>2, ChildReceives
      <3>4. step' # "return" \/ ~(ret' >= 0) BY <3>3 DEF Receives
      <3>5. result' # "done" /\ result' # "error"
        BY <3>3 DEF Receives, TreeInv, Control
      <3>6. QED BY <3>1, <3>4, <3>5, Quiet DEF Balanced
    <2>8. CASE GroupStep
      BY <1>1, <2>3, <2>6, <2>7, <2>8, GroupDoneBalanced DEF GroupStep
    <2>9. CASE RestartStep BY <1>1, <2>3, <2>9, RestartBalanced
    <2>10. QED BY <1>3, <2>4, <2>5, <2>8, <2>9 DEF Engine
  <1>4. QED BY <1>2, <1>3 DEF Next

LEMMA CountInvariant == Spec => []CountInv
  <1>1. Init => CountInv
    <2> SUFFICES ASSUME Init PROVE CountInv OBVIOUS
    <2>1. Root \in Node BY Constants
    <2>2. CoreLeaves BY DEF Init, CoreLeaves, Leaf
    <2>3. Fixpoint /\ CountExact /\ result # "error" BY DEF Init, Fixpoint, CountExact
    <2>4. \E S, F, sub : Accounts(S, F, sub)
      <3>1. PICK s2 : s2 = [n \in Node |-> 0] OBVIOUS
      <3>2. Chain({Root}) /\ Applying({Root})
        BY Constants DEF Init, Chain, Applying, ApplyStatus
      <3>3. /\ at = Root /\ step = "driver" /\ result = "none" /\ curstart = 0
            /\ \A n \in Node : status[n] = "START" /\ pending[n] = 0
            /\ ownPending = 0
        BY DEF Init
      <3>4. ~InPass({Root}, Root) BY <2>1, <3>3 DEF InPass
      <3>5. Frames({Root}, {Root}) BY <2>1, <3>3 DEF Frames
      <3>6. Passes({Root}, {Root}) BY <2>1, <3>3, <3>4 DEF Passes
      <3>7. Amounts({Root}, {Root}, s2)
        <4>1. Held({Root}, Root) = 0 BY <2>1, <3>3, <3>4 DEF Held
        <4>2. Below({Root}, s2, Root) = 0 BY DEF Below, HasChild
        <4>3. QED BY <2>1, <3>1, <4>1, <4>2 DEF Amounts
      <3>8. Seen({Root}, {Root}, s2) BY DEF Seen
      <3>9. Counting({Root}, s2) BY <2>1, <3>3 DEF Counting
      <3>10. QED BY <3>2, <3>5, <3>6, <3>7, <3>8, <3>9 DEF Accounts
    <2>5. QED BY <2>2, <2>3, <2>4 DEF CountInv
  <1>2. TreeInv /\ TreeInv' /\ CountInv /\ [Next]_vars => CountInv'
    <2> SUFFICES ASSUME TreeInv, TreeInv', CountInv, [Next]_vars PROVE CountInv' OBVIOUS
    <2>1. CASE Next
      <3>1. CoreLeaves /\ Balanced BY DEF CountInv, Balanced
      <3>2. CoreLeaves' BY <2>1, <3>1, CoreLeavesStep DEF TreeInv
      <3>3. Balanced' BY <2>1, <3>1, CountStep
      <3>4. QED BY <3>2, <3>3 DEF CountInv, Balanced
    <2>2. CASE UNCHANGED vars
      <3>1. UNCHANGED <<status, count, lcount, cursor, pending, ownPending, curstart,
                        at, step, ret, result, dirty, erred, changes>>
        BY <2>2 DEF vars, actionState, restart, control, ghosts
      <3>2. CoreLeaves' /\ Fixpoint' /\ CountExact'
        BY <3>1 DEF CountInv, CoreLeaves, Fixpoint, CountExact
      <3>3. result # "error" => \E S, F, sub : Accounts(S, F, sub)'
        <4>1. SUFFICES ASSUME result # "error" PROVE \E S, F, sub : Accounts(S, F, sub)'
          OBVIOUS
        <4>2. PICK S, F, sub : Accounts(S, F, sub) BY <4>1 DEF CountInv
        <4>3. Accounts(S, F, sub)' BY <3>1, <4>2, AccountsSame
        <4>4. QED BY <4>3
      <3>4. QED BY <3>1, <3>2, <3>3 DEF CountInv
    <2>3. QED BY <2>1, <2>2
  <1>3. QED BY <1>1, <1>2, TreeInvariant, PTL DEF Spec

\* In any tree, a repeating action below the root hands a count to its
\* parent only after a pass in which no leaf changed anything, whatever was
\* suspended in it and whatever an earlier error left in its counters.
THEOREM FixpointReached == Spec => []Fixpoint
  <1>1. CountInv => Fixpoint BY DEF CountInv
  <1>2. QED BY <1>1, CountInvariant, PTL

\* In any tree, no change is lost or counted twice on its way to the root:
\* until an action fails, the count a completed root returns is the number
\* of changes since the driver's call.
THEOREM CountsExact == Spec => []CountExact
  <1>1. CountInv => CountExact BY DEF CountInv
  <1>2. QED BY <1>1, CountInvariant, PTL
=============================================================================
