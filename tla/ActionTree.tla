----------------------------- MODULE ActionTree -----------------------------
(***************************************************************************)
(* The Action tree (src/action.rs): Action::perform over nested            *)
(* ActionGroups under the ActionRestartGroup root.  Every node has its own *)
(* status / count machine; a group applies its children in order and hands *)
(* their counts upwards; breakpoints anywhere unwind the whole call chain  *)
(* to the driver, which may resume it; errors unwind it without cleanup;   *)
(* the root restarts the function while a restart is pending.              *)
(*                                                                         *)
(* The call chain is the path from Root to `at`.  Leaves are external:     *)
(* apply returns a number of changes, an error, and a rule pool may also   *)
(* park (see ActionPool); `fuel` bounds changes, parks and errors.  A leaf *)
(* may raise restart_pending whenever it runs.                             *)
(***************************************************************************)
EXTENDS Integers, Sequences

CONSTANTS
    Node, Root,
    Children,     \* [Node -> Seq(Node)], <<>> for a leaf
    Parent,       \* [Node -> Node], Parent[Root] = Root
    Flags,        \* [Node -> SUBSET {"repeat", "once", "oneact"}]
    Pool,         \* the leaves that are rule pools
    MaxRestarts,  \* maxrestarts of the root
    Callback,     \* the choices of the driver to install a restart_flow callback
    MaxFuel,      \* bound on changes, parks and errors
    DebugNodes,   \* nodes whose breakpoints the driver edits
    DebugBreaks   \* the breakpoint bits it sets

FlagBits == {"repeat", "once", "oneact"}
BreakBits == {"start", "tmpstart", "action", "tmpaction"}

ASSUME TreeAssumption ==
    /\ Root \in Node
    /\ Children \in [Node -> Seq(Node)]
    /\ Parent \in [Node -> Node]
    /\ \A n \in Node : \A i \in 1..Len(Children[n]) :
           /\ Parent[Children[n][i]] = n /\ Children[n][i] # Root
           /\ \A j \in 1..Len(Children[n]) : Children[n][i] = Children[n][j] => i = j
    /\ \A n \in Node \ {Root} :
           \E i \in 1..Len(Children[Parent[n]]) : Children[Parent[n]][i] = n
\* Every node hangs under the root.
ASSUME RootedAssumption ==
    \A X \in SUBSET (Node \ {Root}) : (\A n \in X : Parent[n] \in X) => X = {}
ASSUME FlagAssumption ==
    /\ Flags \in [Node -> SUBSET FlagBits]
    /\ Pool \subseteq {n \in Node \ {Root} : Children[n] = <<>>}
    /\ Children[Root] # <<>>
    /\ Callback \in SUBSET BOOLEAN /\ Callback # {}
    /\ MaxRestarts \in Nat /\ MaxFuel \in Nat
\* No action of the pipeline that runs once per function also repeats.
ASSUME TurnAssumption ==
    \A n \in Node : Children[n] = <<>> /\ "repeat" \in Flags[n] =>
        Flags[n] \cap {"once", "oneact"} = {}

VARIABLES
    status, count, lcount, breaks,  \* ActionState of every node
    cursor,                         \* ActionGroup.state: the next child
    pending,                        \* pending_count of groups and pools
    ownPending, curstart,           \* the restart group's own fields
    callback,                       \* a restart_flow callback is installed
    restartPending, jumptable, warned, \* Funcdata flags, header warning
    at, step, ret,                  \* control: node, where in it, result
    result,                         \* what the driver's last call got
    fuel,
    \* history: changes since the driver's call, groups changed in their
    \* current pass, completions of each child in its parent's pass,
    \* completed turns of once / oneact leaves, any error so far
    changes, dirty, ran, turns, erred

actionState == <<status, count, lcount, breaks>>
restart == <<ownPending, curstart>>
funcdata == <<restartPending, jumptable, warned>>
control == <<at, step, ret, result>>
ghosts == <<changes, dirty, ran, turns, erred>>
vars == <<actionState, cursor, pending, restart, callback, funcdata, control,
          fuel, ghosts>>

IsLeaf(n) == Children[n] = <<>>
Leaf == {n \in Node : IsLeaf(n)}
ChildSet(n) == {Children[n][i] : i \in 1..Len(Children[n])}
StartBits == {"start", "tmpstart"}
ActionBits == {"action", "tmpaction"}

Init ==
    /\ status = [n \in Node |-> "START"]
    /\ count = [n \in Node |-> 0] /\ lcount = [n \in Node |-> 0]
    /\ breaks = [n \in Node |-> {}]
    /\ cursor = [n \in Node |-> 1]
    /\ pending = [n \in Node |-> 0]
    /\ ownPending = 0 /\ curstart = 0 /\ callback \in Callback
    /\ restartPending \in BOOLEAN /\ jumptable \in BOOLEAN /\ warned = FALSE
    /\ at = Root /\ step = "driver" /\ ret = 0 /\ result = "none"
    /\ fuel = MaxFuel
    /\ changes = 0 /\ dirty = {} /\ ran = [n \in Node |-> 0]
    /\ turns = [n \in Node |-> 0] /\ erred = FALSE
-----------------------------------------------------------------------------
(***************************************************************************)
(* Action::perform at node n.                                              *)
(***************************************************************************)

\* perform of n returns r: to the driver from the root, to the parent's
\* child loop otherwise.
Return(n, r) ==
    /\ at' = n /\ ret' = r
    /\ step' = IF n = Root THEN "driver" ELSE "return"
    /\ result' = IF n # Root THEN result ELSE IF r < 0 THEN "break" ELSE "done"

\* Mutant of DoneStatus: rule_oneactperfunc is not looked at.
DoneStatusOnceOnly(n, cnt) ==
    IF "once" \in Flags[n] /\ cnt >= 0 THEN "END" ELSE "START"

\* The status a completed perform leaves behind.
DoneStatus(n, cnt) ==
    IF "once" \in Flags[n] \/ ("oneact" \in Flags[n] /\ cnt > 0)
    THEN "END" ELSE "START"

\* End of one iteration of perform's loop, with cnt changes so far.
RepeatOrReturn(n, cnt) ==
    \/ /\ "repeat" \in Flags[n] /\ lcount[n] < cnt
       /\ status' = [status EXCEPT ![n] = "REPEAT"]
       /\ at' = n /\ step' = "perform" /\ UNCHANGED <<ret, result>>
    \/ /\ ~("repeat" \in Flags[n] /\ lcount[n] < cnt)
       /\ status' = [status EXCEPT ![n] = DoneStatus(n, cnt)]
       /\ Return(n, cnt)

\* apply of n returned res, take_count_delta returned delta: account for
\* both, then park, break, repeat or return.
ApplyReturns(n, res, delta) ==
    LET cnt == count[n] + delta + (IF res > 0 THEN res ELSE 0)
        breaking == lcount[n] < cnt /\ breaks[n] \cap ActionBits # {}
    IN  /\ count' = [count EXCEPT ![n] = cnt]
        /\ UNCHANGED lcount
        /\ \/ /\ res < 0
              /\ status' = [status EXCEPT ![n] = "MID"]
              /\ Return(n, -1)
           \/ /\ res >= 0 /\ breaking
              /\ status' = [status EXCEPT ![n] = "ACTIONBREAK"]
              /\ Return(n, -1)
           \/ /\ res >= 0 /\ ~breaking
              /\ RepeatOrReturn(n, cnt)
        /\ breaks' = IF res >= 0 /\ breaking
                     THEN [breaks EXCEPT ![n] = @ \ {"tmpaction"}]
                     ELSE breaks

\* STATUS_START with a start breakpoint.
PerformStartBreak ==
    /\ step = "perform" /\ status[at] = "START"
    /\ breaks[at] \cap StartBits # {}
    /\ count' = [count EXCEPT ![at] = 0]
    /\ breaks' = [breaks EXCEPT ![at] = @ \ {"tmpstart"}]
    /\ status' = [status EXCEPT ![at] = "BREAKSTARTHIT"]
    /\ Return(at, -1)
    /\ UNCHANGED <<lcount, cursor, pending, restart, funcdata, fuel, ghosts>>

\* STATUS_END: nothing is done again.
PerformEnd ==
    /\ step = "perform" /\ status[at] = "END"
    /\ Return(at, 0)
    /\ UNCHANGED <<actionState, cursor, pending, restart, funcdata, fuel, ghosts>>

\* Mutant of PerformApply: resuming rewinds the child cursor.
ApplyRewinds ==
    /\ step = "perform"
    /\ status[at] \in {"START", "BREAKSTARTHIT", "REPEAT", "MID"}
    /\ status[at] = "START" => breaks[at] \cap StartBits = {}
    /\ count' = [count EXCEPT ![at] = IF status[at] = "START" THEN 0 ELSE @]
    /\ lcount' = [lcount EXCEPT ![at] = IF status[at] = "MID" THEN @ ELSE count'[at]]
    /\ cursor' = [cursor EXCEPT ![at] = 1]
    /\ step' = "apply"
    /\ IF status[at] = "MID"
       THEN UNCHANGED <<dirty, ran>>
       ELSE /\ dirty' = dirty \ {at}
            /\ ran' = [n \in Node |-> IF n \in ChildSet(at) THEN 0 ELSE ran[n]]
    /\ UNCHANGED <<status, breaks, pending, restart, funcdata, at, ret, result,
                   fuel, changes, turns, erred>>

\* Mutant of PerformApply: resuming forgets the changes made before.
ApplyForgets ==
    /\ step = "perform"
    /\ status[at] \in {"START", "BREAKSTARTHIT", "REPEAT", "MID"}
    /\ status[at] = "START" => breaks[at] \cap StartBits = {}
    /\ count' = [count EXCEPT ![at] = IF status[at] = "START" THEN 0 ELSE @]
    /\ lcount' = [lcount EXCEPT ![at] = count'[at]]
    /\ cursor' = [cursor EXCEPT ![at] = IF status[at] = "MID" THEN @ ELSE 1]
    /\ step' = "apply"
    /\ IF status[at] = "MID"
       THEN UNCHANGED <<dirty, ran>>
       ELSE /\ dirty' = dirty \ {at}
            /\ ran' = [n \in Node |-> IF n \in ChildSet(at) THEN 0 ELSE ran[n]]
    /\ UNCHANGED <<status, breaks, pending, restart, funcdata, at, ret, result,
                   fuel, changes, turns, erred>>

\* Start, repeat, or resume: set lcount, let prepare_apply rewind the child
\* cursor unless resuming, and apply.
PerformApply ==
    /\ step = "perform"
    /\ status[at] \in {"START", "BREAKSTARTHIT", "REPEAT", "MID"}
    /\ status[at] = "START" => breaks[at] \cap StartBits = {}
    /\ count' = [count EXCEPT ![at] = IF status[at] = "START" THEN 0 ELSE @]
    /\ lcount' = [lcount EXCEPT ![at] = IF status[at] = "MID" THEN @ ELSE count'[at]]
    /\ cursor' = [cursor EXCEPT ![at] = IF status[at] = "MID" THEN @ ELSE 1]
    /\ step' = "apply"
    /\ IF status[at] = "MID"
       THEN UNCHANGED <<dirty, ran>>
       ELSE /\ dirty' = dirty \ {at}
            /\ ran' = [n \in Node |-> IF n \in ChildSet(at) THEN 0 ELSE ran[n]]
    /\ UNCHANGED <<status, breaks, pending, restart, funcdata, at, ret, result,
                   fuel, changes, turns, erred>>

\* STATUS_ACTIONBREAK: resume without applying again.
PerformAfterActionBreak ==
    /\ step = "perform" /\ status[at] = "ACTIONBREAK"
    /\ RepeatOrReturn(at, count[at])
    /\ UNCHANGED <<count, lcount, breaks, cursor, pending, restart, funcdata,
                   fuel, ghosts>>
-----------------------------------------------------------------------------
(***************************************************************************)
(* Leaves: core actions and rule pools.                                    *)
(***************************************************************************)

\* A leaf that makes h changes: history, and the flag it may raise.
LeafRuns(h) ==
    /\ step = "apply" /\ IsLeaf(at)
    /\ h <= fuel /\ fuel' = fuel - h
    /\ changes' = changes + h
    /\ dirty' = IF h > 0 THEN Node ELSE dirty
    /\ restartPending' \in {restartPending, TRUE}

\* apply completes.  A core action returns its changes, a pool leaves them
\* in pending_count and returns 0.
LeafApply(h) ==
    /\ LeafRuns(h)
    /\ turns' = IF "once" \in Flags[at] \/ ("oneact" \in Flags[at] /\ h > 0)
                THEN [turns EXCEPT ![at] = @ + 1] ELSE turns
    /\ IF at \in Pool
       THEN /\ ApplyReturns(at, 0, pending[at] + h)
            /\ pending' = [pending EXCEPT ![at] = 0]
       ELSE /\ ApplyReturns(at, h, 0)
            /\ UNCHANGED pending
    /\ UNCHANGED <<cursor, restart, jumptable, warned, ran, erred>>

\* A rule breakpoint parks the pool in the middle of a pass.
PoolPark(h) ==
    /\ LeafRuns(h) /\ h > 0 /\ at \in Pool
    /\ ApplyReturns(at, -1, pending[at] + h)
    /\ pending' = [pending EXCEPT ![at] = 0]
    /\ UNCHANGED <<cursor, restart, jumptable, warned, ran, turns, erred>>

\* `?` leaves every frame of the call chain: no count is taken, no status
\* or cursor is touched.
Fail ==
    /\ step' = "driver" /\ result' = "error" /\ at' = Root
    /\ erred' = TRUE
    /\ UNCHANGED <<actionState, cursor, ret>>

\* A leaf fails; a pool keeps the hits it had before the failing rule.
LeafError(h) ==
    /\ LeafRuns(h) /\ h > 0
    /\ Fail
    /\ pending' = IF at \in Pool THEN [pending EXCEPT ![at] = @ + h - 1] ELSE pending
    /\ UNCHANGED <<restart, jumptable, warned, ran, turns>>
-----------------------------------------------------------------------------
(***************************************************************************)
(* ActionGroup::apply_children.                                            *)
(***************************************************************************)

\* The next child is performed.
GroupDescend ==
    /\ step = "apply" /\ cursor[at] <= Len(Children[at])
    /\ at = Root => curstart # -1
    /\ at' = Children[at][cursor[at]] /\ step' = "perform"
    /\ UNCHANGED <<actionState, cursor, pending, restart, funcdata, ret, result,
                   fuel, ghosts>>

\* All children done.
GroupDone ==
    /\ step = "apply" /\ at # Root /\ ~IsLeaf(at)
    /\ cursor[at] > Len(Children[at])
    /\ ApplyReturns(at, 0, pending[at])
    /\ pending' = [pending EXCEPT ![at] = 0]
    /\ UNCHANGED <<cursor, restart, funcdata, fuel, ghosts>>

\* Mutant of GroupBreaks: the group's count is read but not taken.
GroupBreaksKeeps(p, pend) ==
    /\ ApplyReturns(p, -1, IF p = Root THEN ownPending + pend ELSE pend)
    /\ pending' = [pending EXCEPT ![p] = pend]
    /\ ownPending' = IF p = Root THEN 0 ELSE ownPending

\* apply of group p returns -1; the root first folds its embedded group's
\* count into its own.
GroupBreaks(p, pend) ==
    /\ ApplyReturns(p, -1, IF p = Root THEN ownPending + pend ELSE pend)
    /\ pending' = [pending EXCEPT ![p] = 0]
    /\ ownPending' = IF p = Root THEN 0 ELSE ownPending

\* A child's perform returned a count: add it; the group's own action
\* breakpoint is honoured after a child that changed something.
ChildReturns ==
    /\ step = "return" /\ ret >= 0
    /\ LET p == Parent[at]
           breaking == ret > 0 /\ breaks[p] \cap ActionBits # {}
       IN  /\ cursor' = [cursor EXCEPT ![p] = @ + 1]
           /\ ran' = [ran EXCEPT ![at] = @ + 1]
           /\ \/ /\ ~breaking
                 /\ pending' = [pending EXCEPT ![p] = @ + ret]
                 /\ at' = p /\ step' = "apply"
                 /\ UNCHANGED <<actionState, ret, result, ownPending>>
              \/ /\ breaking
                 /\ count' = [count EXCEPT ![p] = @ + pending[p] + ret +
                                 (IF p = Root THEN ownPending ELSE 0)]
                 /\ breaks' = [breaks EXCEPT ![p] = @ \ {"tmpaction"}]
                 /\ status' = [status EXCEPT ![p] = "MID"]
                 /\ pending' = [pending EXCEPT ![p] = 0]
                 /\ ownPending' = IF p = Root THEN 0 ELSE ownPending
                 /\ Return(p, -1)
                 /\ UNCHANGED lcount
    /\ UNCHANGED <<curstart, funcdata, fuel, changes, dirty, turns, erred>>

\* A child is suspended: so is the group, its cursor still on the child.
ChildSuspends ==
    /\ step = "return" /\ ret < 0
    /\ GroupBreaks(Parent[at], pending[Parent[at]])
    /\ UNCHANGED <<cursor, curstart, funcdata, fuel, ghosts>>
-----------------------------------------------------------------------------
(***************************************************************************)
(* ActionRestartGroup::apply_restart, once its children are done.          *)
(***************************************************************************)

RestartDue ==
    /\ step = "apply" /\ at = Root
    /\ curstart # -1 /\ cursor[Root] > Len(Children[Root])

\* apply returns 0 with everything the children changed.
RestartReturns ==
    /\ ApplyReturns(Root, 0, ownPending + pending[Root])
    /\ ownPending' = 0
    /\ pending' = [pending EXCEPT ![Root] = 0]
    /\ UNCHANGED <<cursor, restartPending, jumptable, fuel, ghosts>>

\* curstart = -1: already completed.
RestartCompleted ==
    /\ step = "apply" /\ at = Root /\ curstart = -1
    /\ ApplyReturns(Root, 0, ownPending)
    /\ ownPending' = 0
    /\ UNCHANGED <<cursor, pending, curstart, funcdata, fuel, ghosts>>

RestartNotPending ==
    /\ RestartDue /\ ~restartPending
    /\ curstart' = -1
    /\ RestartReturns
    /\ UNCHANGED warned

\* No restart during jump table recovery.
RestartRefused ==
    /\ RestartDue /\ restartPending /\ jumptable
    /\ RestartReturns
    /\ UNCHANGED <<curstart, warned>>

\* Mutant of RestartExceeded: the warning is missing.
RestartExceededSilently ==
    /\ RestartDue /\ restartPending /\ ~jumptable
    /\ curstart + 1 > MaxRestarts
    /\ curstart' = -1
    /\ RestartReturns
    /\ UNCHANGED warned

RestartExceeded ==
    /\ RestartDue /\ restartPending /\ ~jumptable
    /\ curstart + 1 > MaxRestarts
    /\ warned' = TRUE
    /\ curstart' = -1
    /\ RestartReturns

RestartNoCallback ==
    /\ RestartDue /\ restartPending /\ ~jumptable
    /\ curstart + 1 <= MaxRestarts /\ ~callback
    /\ curstart' = curstart + 1
    /\ RestartReturns
    /\ UNCHANGED warned

\* Mutant of RestartClears: one restart too many.
RestartOnceMore ==
    /\ RestartDue /\ restartPending /\ ~jumptable
    /\ curstart <= MaxRestarts /\ callback
    /\ curstart' = curstart + 1
    /\ ownPending' = ownPending + pending[Root]
    /\ pending' = [pending EXCEPT ![Root] = 0]
    /\ warned' = FALSE
    /\ UNCHANGED jumptable

\* Mutant of RestartClears: the restarts are not counted.
RestartUncounted ==
    /\ RestartDue /\ restartPending /\ ~jumptable
    /\ curstart + 1 <= MaxRestarts /\ callback
    /\ ownPending' = ownPending + pending[Root]
    /\ pending' = [pending EXCEPT ![Root] = 0]
    /\ warned' = FALSE
    /\ UNCHANGED <<curstart, jumptable>>

\* fd.clear and the wipe of the warning comments, common to a restart and to
\* one whose flow callback fails.
RestartClears ==
    /\ RestartDue /\ restartPending /\ ~jumptable
    /\ curstart + 1 <= MaxRestarts /\ callback
    /\ curstart' = curstart + 1
    /\ ownPending' = ownPending + pending[Root]
    /\ pending' = [pending EXCEPT ![Root] = 0]
    /\ warned' = FALSE
    /\ UNCHANGED jumptable

\* The flow is regenerated (which may ask for a restart again), the children
\* are reset, and the child loop starts over.
RestartAgain ==
    /\ RestartClears
    /\ restartPending' \in BOOLEAN
    /\ status' = [n \in Node |-> "START"]
    /\ cursor' = [cursor EXCEPT ![Root] = 1]
    /\ turns' = [n \in Node |-> 0]
    /\ ran' = [n \in Node |-> IF n \in ChildSet(Root) THEN 0 ELSE ran[n]]
    /\ UNCHANGED <<count, lcount, breaks, control, fuel, changes, dirty, erred>>

RestartFlowError ==
    /\ RestartClears
    /\ fuel > 0 /\ fuel' = fuel - 1
    /\ restartPending' \in BOOLEAN
    /\ Fail
    /\ UNCHANGED <<changes, dirty, ran, turns>>
-----------------------------------------------------------------------------
(***************************************************************************)
(* The driver.                                                             *)
(***************************************************************************)

\* The reset half of ActionDatabase::perform_action (and of the drivers that
\* call the root directly), for a function about to be analysed: also when
\* the previous one failed or was left suspended.
ResetForFunction ==
    /\ step = "driver" /\ result # "none"
    /\ status' = [n \in Node |-> "START"]
    /\ ownPending' = 0 /\ curstart' = 0
    /\ restartPending' \in BOOLEAN /\ jumptable' \in BOOLEAN /\ warned' = FALSE
    /\ result' = "none"
    /\ turns' = [n \in Node |-> 0]
    /\ UNCHANGED <<count, lcount, breaks, cursor, pending, at, step, ret, fuel,
                   changes, dirty, ran, erred>>

\* The driver calls perform on the root: first after a reset, to resume what
\* a breakpoint suspended, or again after completion; never after an error.
CallPerform ==
    /\ step = "driver" /\ result # "error"
    /\ at' = Root /\ step' = "perform" /\ result' = "none"
    /\ changes' = IF result = "break" THEN changes ELSE 0
    /\ UNCHANGED <<actionState, cursor, pending, restart, funcdata, ret, fuel,
                   dirty, ran, turns, erred>>

SetBreakPoint(n, b) ==
    /\ step = "driver" /\ n \in DebugNodes /\ b \in DebugBreaks
    /\ breaks' = [breaks EXCEPT ![n] = @ \cup {b}]
    /\ UNCHANGED <<status, count, lcount, cursor, pending, restart, funcdata,
                   control, fuel, ghosts>>

ClearBreakPoints ==
    /\ step = "driver"
    /\ breaks' = [n \in Node |-> {}]
    /\ UNCHANGED <<status, count, lcount, cursor, pending, restart, funcdata,
                   control, fuel, ghosts>>

Perform == PerformStartBreak \/ PerformEnd \/ PerformApply \/ PerformAfterActionBreak

LeafStep == \E h \in 0..2 : LeafApply(h) \/ PoolPark(h) \/ LeafError(h)

GroupStep == GroupDescend \/ GroupDone \/ ChildReturns \/ ChildSuspends

RestartStep == RestartCompleted \/ RestartNotPending \/ RestartRefused
               \/ RestartExceeded \/ RestartNoCallback \/ RestartAgain
               \/ RestartFlowError

Engine == (Perform \/ LeafStep \/ GroupStep \/ RestartStep) /\ UNCHANGED callback

Debugger == ClearBreakPoints
            \/ \E n \in Node, b \in BreakBits : SetBreakPoint(n, b)

Driver == (ResetForFunction \/ CallPerform \/ Debugger) /\ UNCHANGED callback

Next == Engine \/ Driver

Spec == Init /\ [][Next]_vars

\* The engine runs on the driver's thread; a driver that is told of a break
\* keeps resuming.
FairSpec ==
    Spec /\ WF_vars(Engine) /\ WF_vars(CallPerform /\ UNCHANGED callback)
-----------------------------------------------------------------------------
(***************************************************************************)
(* Properties.                                                             *)
(***************************************************************************)

\* Type invariant of the tree.
TypeOK ==
    /\ status \in [Node -> {"START", "BREAKSTARTHIT", "REPEAT", "MID", "END",
                            "ACTIONBREAK"}]
    /\ count \in [Node -> Nat] /\ lcount \in [Node -> Nat]
    /\ breaks \in [Node -> SUBSET BreakBits]
    /\ cursor \in [Node -> Nat \ {0}] /\ pending \in [Node -> Nat]
    /\ ownPending \in Nat /\ curstart \in -1..MaxRestarts
    /\ callback \in BOOLEAN
    /\ restartPending \in BOOLEAN /\ jumptable \in BOOLEAN /\ warned \in BOOLEAN
    /\ at \in Node /\ step \in {"driver", "perform", "apply", "return"}
    /\ ret \in Int /\ result \in {"none", "break", "done", "error"}
    /\ fuel \in Nat /\ changes \in Nat /\ dirty \subseteq Node
    /\ ran \in [Node -> Nat] /\ turns \in [Node -> Nat] /\ erred \in BOOLEAN

\* A group applies every child exactly once per pass, in order, however
\* often a breakpoint anywhere below suspended it and whatever an earlier
\* error or restart left in the cursors: when its apply is done, each child
\* completed once.
EachChildOnce ==
    step = "apply" /\ ~IsLeaf(at) /\ (at = Root => curstart # -1) =>
        \A i \in 1..Len(Children[at]) :
            ran[Children[at][i]] = (IF i < cursor[at] THEN 1 ELSE 0)

\* A repeating group returns a count only after a pass in which no leaf
\* below it changed anything: no change is lost on its way up, be it made
\* before or after a suspension.
Fixpoint ==
    \A n \in Node :
        step = "return" /\ at = n /\ "repeat" \in Flags[n] /\ ret >= 0
        /\ status[n] = "START" => n \notin dirty

\* A leaf marked rule_onceperfunc completes at most once, and one marked
\* rule_oneactperfunc changes something at most once, until the tree is
\* reset for a function or for a restart.
OncePerFunction == \A n \in Leaf : turns[n] <= 1

\* A completed root leaves a restart pending only during jump table
\* recovery, without a flow callback, or with the header warning in place;
\* and that warning is never left on a function with nothing pending.
RestartHonoured ==
    result = "done" =>
        /\ restartPending => warned \/ jumptable \/ ~callback
        /\ warned => restartPending

\* As long as no leaf failed, the count the root returns is the number of
\* changes made by the leaves since the driver's call, over all passes,
\* suspensions and restarts.
CountExact == result = "done" /\ ~erred => ret = changes

\* Every perform of the root completes or fails or is abandoned: suspension,
\* repetition and restarts come to an end although leaves may ask for a
\* restart every time they run.
Completes ==
    (step # "driver" \/ result = "break") ~> (step = "driver" /\ result # "break")
=============================================================================
