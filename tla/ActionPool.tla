----------------------------- MODULE ActionPool -----------------------------
(***************************************************************************)
(* The rule pool of the decompiler pipeline (src/action.rs, ActionPool)    *)
(* run by Action::perform: passes over the PcodeOpTree in SeqNum order,    *)
(* dispatching every live op to the rules registered for its opcode, while *)
(* those rules edit the very tree the pass walks.  A pass may be suspended *)
(* by a rule breakpoint and resumed, aborted by an error, and is repeated  *)
(* (RULE_REPEATAPPLY) until it changes nothing.                            *)
(*                                                                         *)
(* An op is identified with its SeqNum key (unique and immutable).  Rules  *)
(* are external: `redex` holds the pairs <<rule, op>> on which a rule      *)
(* would report a change; a hit consumes its pair and may edit the tree    *)
(* and create other pairs, `fuel` bounding how often it does.              *)
(***************************************************************************)
EXTENDS Integers, Sequences

CONSTANTS
    Op,          \* SeqNum keys, ordered as integers
    OpCode,      \* opcodes
    Rule,        \* the pool's rules
    PerOp,       \* per_op: opcode -> the rules registered for it, in order
    None,        \* Option::None for op_state
    MaxFuel,     \* bound on the edits made by rules
    DebugRules,  \* rules whose breakpoint / disable bits the driver touches
    DebugBreaks  \* breakpoint bits the driver sets on the pool itself

ASSUME OpAssumption    == Op \subseteq Nat /\ None \notin Op
ASSUME PerOpAssumption == PerOp \in [OpCode -> Seq(Rule)]
ASSUME OpCodeAssumption == OpCode # {}
ASSUME FuelAssumption  == MaxFuel \in Nat

AnyCode == CHOOSE c \in OpCode : TRUE
BreakBits == {"start", "tmpstart", "action", "tmpaction"}

VARIABLES
    \* Funcdata.obank, as far as the pool looks at it
    optree, dead, opcode, version,
    born,         \* every key ever issued: uniqid never reissues one
    \* ActionPool and its RuleStates
    opState, ruleIndex, pendingCount, disabled, ruleBreak, ruleTmpBreak,
    \* the pool's ActionState
    status, count, lcount, actBreak,
    \* control and locals of process_op
    pc, code, memoVer, memoNext,
    \* the rules' outstanding work
    redex, fuel,
    \* what the last perform returned, and history of the current pass
    result, visited, behind, untold, hits, erred

obank == <<optree, dead, opcode, version, born>>
debug == <<disabled, ruleBreak, ruleTmpBreak, actBreak>>
cursor == <<opState, ruleIndex>>
counts == <<status, count, lcount, pendingCount>>
locals == <<code, memoVer, memoNext>>
work   == <<redex, fuel>>
ghosts == <<visited, behind, untold, hits, erred>>
vars == <<obank, cursor, counts, debug, pc, locals, work, result, ghosts>>

(***************************************************************************)
(* PcodeOpTree navigation.                                                 *)
(***************************************************************************)

\* first_op: the least key of the tree, or None.
IsFirstOp(j) ==
    \/ j = None /\ optree = {}
    \/ j \in optree /\ \A k \in optree : j <= k

\* next_op_after: the least key above cur, or None; cur itself may be gone.
IsNextOpAfter(cur, j) ==
    \/ j = None /\ \A k \in optree : k <= cur
    \/ j \in optree /\ j > cur /\ \A k \in optree : k > cur => j <= k

Bucket == PerOp[code]

Init ==
    /\ optree \in SUBSET Op
    /\ dead \in SUBSET optree
    /\ opcode \in [Op -> OpCode]
    /\ \A k \in Op \ optree : opcode[k] = AnyCode
    /\ version = 0
    /\ born = optree
    /\ opState = None /\ ruleIndex = 0 /\ pendingCount = 0
    /\ disabled = {} /\ ruleBreak = {} /\ ruleTmpBreak = {}
    /\ status = "START" /\ count = 0 /\ lcount = 0 /\ actBreak = {}
    /\ pc = "driver" /\ code = AnyCode /\ memoVer = -1 /\ memoNext = None
    /\ redex \in SUBSET (Rule \X optree)
    /\ fuel = MaxFuel
    /\ result = "none"
    /\ visited = {} /\ behind = {} /\ untold = {} /\ hits = 0 /\ erred = FALSE

-----------------------------------------------------------------------------
(***************************************************************************)
(* Action::perform: entry by status, and the pass that apply_from_status   *)
(* runs.                                                                   *)
(***************************************************************************)

\* apply_from_status outside STATUS_MID: the cursor returns to the first op.
StartPass ==
    /\ \E j \in optree \cup {None} : IsFirstOp(j) /\ opState' = j
    /\ ruleIndex' = 0
    /\ visited' = {} /\ behind' = {} /\ untold' = {}
    /\ pc' = "pass"

\* Mutant of PerformStartBreak: the status is left in STATUS_START.
StartBreakKeepsStart ==
    /\ pc = "driver" /\ status = "START"
    /\ actBreak \cap {"start", "tmpstart"} # {}
    /\ actBreak' = actBreak \ {"tmpstart"}
    /\ count' = 0 /\ result' = "break" /\ hits' = 0
    /\ UNCHANGED <<obank, cursor, status, pendingCount, lcount, disabled,
                   ruleBreak, ruleTmpBreak, pc, locals, work, visited, behind,
                   untold, erred>>

\* STATUS_START with a start breakpoint: park before anything runs.
PerformStartBreak ==
    /\ pc = "driver" /\ status = "START"
    /\ actBreak \cap {"start", "tmpstart"} # {}
    /\ actBreak' = actBreak \ {"tmpstart"}
    /\ status' = "BREAKSTARTHIT" /\ count' = 0
    /\ result' = "break"
    /\ hits' = 0
    /\ UNCHANGED <<obank, cursor, pendingCount, lcount, disabled, ruleBreak,
                   ruleTmpBreak, pc, locals, work, visited, behind, untold,
                   erred>>

\* STATUS_START: count and lcount restart from zero.
PerformStart ==
    /\ pc = "driver" /\ status = "START"
    /\ actBreak \cap {"start", "tmpstart"} = {}
    /\ count' = 0 /\ lcount' = 0
    /\ StartPass
    /\ hits' = 0
    /\ result' = "none"
    /\ UNCHANGED <<obank, status, pendingCount, debug, locals, work, erred>>

\* Resume of a start break.
PerformAfterStartBreak ==
    /\ pc = "driver" /\ status = "BREAKSTARTHIT"
    /\ lcount' = count
    /\ StartPass
    /\ result' = "none"
    /\ UNCHANGED <<obank, status, count, pendingCount, debug, locals, work,
                   hits, erred>>

PerformMid ==
    /\ pc = "driver" /\ status = "MID"
    /\ pc' = "pass"
    /\ result' = "none"
    /\ UNCHANGED <<obank, cursor, counts, debug, locals, work, ghosts>>

\* Mutant of RepeatOrReturn: a pass with a single hit is not repeated.
RepeatAfterTwo(cnt, lcnt) ==
    \/ /\ lcnt + 1 < cnt
       /\ status' = "REPEAT" /\ lcount' = cnt /\ StartPass /\ result' = "none"
    \/ /\ lcnt + 1 >= cnt
       /\ status' = "START" /\ pc' = "driver" /\ result' = "done"
       /\ UNCHANGED <<cursor, lcount, visited, behind, untold>>

\* What perform does once a pass has been accounted for: repeat while the
\* pass changed something, otherwise return the count.
RepeatOrReturn(cnt, lcnt) ==
    \/ /\ lcnt < cnt
       /\ status' = "REPEAT"
       /\ lcount' = cnt
       /\ StartPass
       /\ result' = "none"
    \/ /\ lcnt >= cnt
       /\ status' = "START"
       /\ pc' = "driver"
       /\ result' = "done"
       /\ UNCHANGED <<cursor, lcount, visited, behind, untold>>

\* Resume of an action break: nothing is applied again.
PerformAfterActionBreak ==
    /\ pc = "driver" /\ status = "ACTIONBREAK"
    /\ RepeatOrReturn(count, lcount)
    /\ UNCHANGED <<obank, count, pendingCount, debug, locals, work, hits, erred>>

\* The pass ran off the end of the tree: apply returned 0.
EndPass ==
    /\ pc = "pass" /\ opState = None
    /\ count' = count + pendingCount
    /\ pendingCount' = 0
    /\ IF lcount < count' /\ actBreak \cap {"action", "tmpaction"} # {}
       THEN /\ actBreak' = actBreak \ {"tmpaction"}
            /\ status' = "ACTIONBREAK"
            /\ pc' = "driver"
            /\ result' = "break"
            /\ UNCHANGED <<cursor, lcount, visited, behind, untold>>
       ELSE /\ RepeatOrReturn(count', lcount)
            /\ UNCHANGED actBreak
    /\ UNCHANGED <<obank, disabled, ruleBreak, ruleTmpBreak, locals, work,
                   hits, erred>>

-----------------------------------------------------------------------------
(***************************************************************************)
(* ActionPool::process_op.                                                 *)
(***************************************************************************)

\* Mutant of ProcessDeadOp: the op is destroyed, its dead mark is not.
DeadMarkSurvives ==
    /\ pc = "pass" /\ opState \in dead
    /\ \E j \in optree \cup {None} : IsNextOpAfter(opState, j) /\ opState' = j
    /\ ruleIndex' = 0 /\ optree' = optree \ {opState} /\ version' = version + 1
    /\ visited' = visited \cup {opState}
    /\ redex' = {p \in redex : p[2] # opState}
    /\ UNCHANGED <<dead, opcode, born, counts, debug, pc, locals, fuel, result,
                   behind, untold, hits, erred>>

\* Mutant of ProcessDeadOp: the op is destroyed under the cursor.
DestroyWithoutAdvance ==
    /\ pc = "pass" /\ opState \in dead
    /\ ruleIndex' = 0 /\ optree' = optree \ {opState} /\ dead' = dead \ {opState}
    /\ version' = version + 1 /\ visited' = visited \cup {opState}
    /\ redex' = {p \in redex : p[2] # opState}
    /\ UNCHANGED <<opState, opcode, born, counts, debug, pc, locals, fuel, result,
                   behind, untold, hits, erred>>

\* A dead op met by the cursor: advance first, then obank.destroy.
ProcessDeadOp ==
    /\ pc = "pass" /\ opState \in dead
    /\ \E j \in optree \cup {None} : IsNextOpAfter(opState, j) /\ opState' = j
    /\ ruleIndex' = 0
    /\ optree' = optree \ {opState}
    /\ dead' = dead \ {opState}
    /\ version' = version + 1
    /\ visited' = visited \cup {opState}
    /\ redex' = {p \in redex : p[2] # opState}
    /\ UNCHANGED <<opcode, born, counts, debug, pc, locals, fuel, result,
                   behind, untold, hits, erred>>

\* A live op: read its opcode, memoise its successor with the tree version
\* unless no rule is registered for the opcode.
ProcessOp ==
    /\ pc = "pass" /\ opState # None /\ opState \notin dead
    /\ code' = opcode[opState]
    /\ IF PerOp[code'] = <<>>
       THEN memoVer' = -1 /\ memoNext' = None
       ELSE /\ memoVer' = version
            /\ \E j \in optree \cup {None} :
                   IsNextOpAfter(opState, j) /\ memoNext' = j
    /\ pc' = "rules"
    /\ visited' = visited \cup {opState}
    /\ UNCHANGED <<obank, cursor, counts, debug, work, result, behind, untold,
                   hits, erred>>

\* The rule the dispatch loop looks at next, when there is one.
RuleDue(r) ==
    /\ pc = "rules" /\ ruleIndex < Len(Bucket)
    /\ r = Bucket[ruleIndex + 1]

SkipDisabledRule(r) ==
    /\ RuleDue(r) /\ r \in disabled
    /\ ruleIndex' = ruleIndex + 1
    /\ UNCHANGED <<obank, opState, counts, debug, pc, locals, work, result,
                   ghosts>>

\* apply_op returned 0 and left the opcode alone.
RuleMiss(r) ==
    /\ RuleDue(r) /\ r \notin disabled /\ <<r, opState>> \notin redex
    /\ ruleIndex' = ruleIndex + 1
    /\ UNCHANGED <<obank, opState, counts, debug, pc, locals, work, result,
                   ghosts>>

\* The edits a rule makes through Funcdata: op_destroy marks an op dead and
\* leaves it in the tree, op_set_opcode, new_op + op_insert add an op.
EditNothing == UNCHANGED <<obank, behind>>

EditDestroyOp(k) ==
    /\ k \in optree \ dead
    /\ dead' = dead \cup {k}
    /\ UNCHANGED <<optree, opcode, version, born, behind>>

EditSetOpcode(k, c) ==
    /\ k \in optree \ dead /\ opcode[k] # c
    /\ opcode' = [opcode EXCEPT ![k] = c]
    /\ UNCHANGED <<optree, dead, version, born, behind>>

\* Mutant of EditInsertOp: the tree version is not bumped.
InsertKeepsVersion(k, c) ==
    /\ k \in Op \ born
    /\ optree' = optree \cup {k}
    /\ opcode' = [opcode EXCEPT ![k] = c]
    /\ born' = born \cup {k}
    /\ behind' = IF k < opState THEN behind \cup {k} ELSE behind
    /\ UNCHANGED <<dead, version>>

EditInsertOp(k, c) ==
    /\ k \in Op \ born
    /\ optree' = optree \cup {k}
    /\ opcode' = [opcode EXCEPT ![k] = c]
    /\ version' = version + 1
    /\ born' = born \cup {k}
    /\ behind' = IF k < opState THEN behind \cup {k} ELSE behind
    /\ UNCHANGED dead

Edit == \/ EditNothing
        \/ \E k \in Op : EditDestroyOp(k)
        \/ \E k \in Op, c \in OpCode : EditSetOpcode(k, c)
        \/ \E k \in Op, c \in OpCode : EditInsertOp(k, c)

\* The rewrite of a hit: its own pair is consumed; one edit and at most one
\* new pair, as long as there is fuel.
Rewrite(r) ==
    \/ /\ redex' = redex \ {<<r, opState>>}
       /\ EditNothing
       /\ UNCHANGED fuel
    \/ /\ fuel > 0 /\ fuel' = fuel - 1
       /\ Edit
       /\ \E new \in {{}} \cup {{p} : p \in Rule \X optree'} :
              redex' = (redex \ {<<r, opState>>}) \cup new

\* What a rule that reports nothing has done to ops the cursor does not come
\* back to in this pass: killed, created or retyped them, or enabled a rule on
\* them.  A retype of the current op is seen by the audit.
Unreported ==
    {k \in optree' : /\ k < opState \/ k = opState
                    /\ \/ k \in dead' \ dead
                       \/ k \notin optree
                       \/ k # opState /\ opcode'[k] # opcode[k]
                       \/ \E r \in Rule : <<r, k>> \in redex' \ redex}

\* apply_op returned 0 although the rule edited something.
Lie(r) ==
    /\ RuleDue(r) /\ r \notin disabled /\ <<r, opState>> \notin redex
    /\ fuel > 0 /\ fuel' = fuel - 1
    /\ Edit
    /\ \E new \in {{}} \cup {{p} : p \in Rule \X optree'} : redex' = redex \cup new
    /\ ~UNCHANGED <<obank, redex>>
    /\ untold' = untold \cup Unreported
    /\ UNCHANGED <<opState, counts, debug, pc, memoVer, memoNext, result,
                   visited, hits, erred>>

\* Mutant of RuleLies: the miss path does not re-read the opcode.
RuleLiesUnaudited(r) ==
    /\ Lie(r)
    /\ ruleIndex' = ruleIndex + 1
    /\ UNCHANGED code

\* The audit of the miss path: it re-reads the opcode, and only that; when it
\* has changed the op's rule list restarts.  Whatever else the rule did - the
\* op may be dead now - the next rule of the bucket gets the op.
RuleLies(r) ==
    /\ Lie(r)
    /\ code' = opcode'[opState]
    /\ ruleIndex' = IF code' # code THEN 0 ELSE ruleIndex + 1

\* After a hit that does not break: leave the op when it died, restart the
\* rule list when its opcode changed.
AfterHit ==
    \/ /\ opState \in dead'
       /\ pc' = "tail" /\ ruleIndex' = ruleIndex + 1 /\ UNCHANGED code
    \/ /\ opState \notin dead' /\ opcode'[opState] # code
       /\ code' = opcode'[opState] /\ ruleIndex' = 0 /\ UNCHANGED pc
    \/ /\ opState \notin dead' /\ opcode'[opState] = code
       /\ ruleIndex' = ruleIndex + 1 /\ UNCHANGED <<pc, code>>

\* apply_op returned a positive result.
RuleHit(r) ==
    /\ RuleDue(r) /\ r \notin disabled /\ <<r, opState>> \in redex
    /\ r \notin ruleBreak \cup ruleTmpBreak
    /\ Rewrite(r)
    /\ pendingCount' = pendingCount + 1
    /\ hits' = hits + 1
    /\ AfterHit
    /\ UNCHANGED <<opState, status, count, lcount, debug, memoVer, memoNext,
                   result, visited, untold, erred>>

\* Mutant of RuleHitBreak: the pending count is read but not taken.
BreakKeepsPending(r) ==
    /\ RuleDue(r) /\ r \notin disabled /\ <<r, opState>> \in redex
    /\ r \in ruleBreak \cup ruleTmpBreak
    /\ ruleTmpBreak' = ruleTmpBreak \ {r}
    /\ Rewrite(r)
    /\ ruleIndex' = ruleIndex + 1
    /\ pendingCount' = pendingCount + 1
    /\ count' = count + pendingCount'
    /\ status' = "MID" /\ hits' = hits + 1 /\ pc' = "driver" /\ result' = "break"
    /\ UNCHANGED <<opState, lcount, disabled, ruleBreak, actBreak, locals,
                   visited, untold, erred>>

\* ... with a rule breakpoint: process_op returns -1 before it looks at the
\* op again; perform takes the pending count and parks in STATUS_MID.
RuleHitBreak(r) ==
    /\ RuleDue(r) /\ r \notin disabled /\ <<r, opState>> \in redex
    /\ r \in ruleBreak \cup ruleTmpBreak
    /\ ruleTmpBreak' = ruleTmpBreak \ {r}
    /\ Rewrite(r)
    /\ ruleIndex' = ruleIndex + 1
    /\ count' = count + pendingCount + 1
    /\ pendingCount' = 0
    /\ status' = "MID"
    /\ hits' = hits + 1
    /\ pc' = "driver"
    /\ result' = "break"
    /\ UNCHANGED <<opState, lcount, disabled, ruleBreak, actBreak, locals,
                   visited, untold, erred>>

\* apply_op returned Err, possibly after an edit: every frame is left by `?`,
\* nothing is restored.
RuleError(r) ==
    /\ RuleDue(r) /\ r \notin disabled
    /\ fuel > 0 /\ fuel' = fuel - 1
    /\ Edit
    /\ ruleIndex' = ruleIndex + 1
    /\ pc' = "driver"
    /\ result' = "error"
    /\ erred' = TRUE
    /\ UNCHANGED <<opState, counts, debug, locals, redex, visited, untold,
                   hits>>

\* Mutant of AdvanceOpState: the memoised successor is trusted whatever
\* happened to the tree.
AdvanceByMemo ==
    /\ \/ pc = "tail"
       \/ pc = "rules" /\ ruleIndex >= Len(Bucket)
    /\ IF memoVer # -1
       THEN opState' = memoNext
       ELSE \E j \in optree \cup {None} :
                IsNextOpAfter(opState, j) /\ opState' = j
    /\ ruleIndex' = 0 /\ pc' = "pass"
    /\ UNCHANGED <<obank, counts, debug, locals, work, result, ghosts>>

\* The end of process_op: the memoised successor while the tree version is
\* unchanged, a fresh search otherwise.
AdvanceOpState ==
    /\ \/ pc = "tail"
       \/ pc = "rules" /\ ruleIndex >= Len(Bucket)
    /\ IF memoVer = version
       THEN opState' = memoNext
       ELSE \E j \in optree \cup {None} :
                IsNextOpAfter(opState, j) /\ opState' = j
    /\ ruleIndex' = 0
    /\ pc' = "pass"
    /\ UNCHANGED <<obank, counts, debug, locals, work, result, ghosts>>

-----------------------------------------------------------------------------
(***************************************************************************)
(* The driver: resets the pool, and edits breakpoints and                  *)
(* the disable bits while it holds control.                                *)
(***************************************************************************)

\* Action::reset_for_function on the pool, after an error or to abandon a
\* suspended pass: status only.
ResetForFunction ==
    /\ pc = "driver" /\ result \in {"error", "break"}
    /\ status' = "START"
    /\ result' = "none"
    /\ UNCHANGED <<obank, cursor, count, lcount, pendingCount, debug, pc,
                   locals, work, ghosts>>

\* After an error no caller re-enters perform before a reset.
Resumable == result # "error"

SetRuleBreak(r) ==
    /\ pc = "driver" /\ r \in DebugRules
    /\ \/ ruleBreak' = ruleBreak \cup {r} /\ UNCHANGED ruleTmpBreak
       \/ ruleTmpBreak' = ruleTmpBreak \cup {r} /\ UNCHANGED ruleBreak
    /\ UNCHANGED <<obank, cursor, counts, disabled, actBreak, pc, locals, work,
                   result, ghosts>>

SetActionBreak(b) ==
    /\ pc = "driver" /\ b \in DebugBreaks
    /\ actBreak' = actBreak \cup {b}
    /\ UNCHANGED <<obank, cursor, counts, disabled, ruleBreak, ruleTmpBreak, pc,
                   locals, work, result, ghosts>>

ClearBreakPoints ==
    /\ pc = "driver"
    /\ actBreak' = {} /\ ruleBreak' = {} /\ ruleTmpBreak' = {}
    /\ UNCHANGED <<obank, cursor, counts, disabled, pc, locals, work, result,
                   ghosts>>

\* disable_rule / enable_rule; a result obtained under the old set of rules
\* is no longer the result of the pool.
SetDisabled(r) ==
    /\ pc = "driver" /\ r \in DebugRules
    /\ \/ disabled' = disabled \cup {r}
       \/ disabled' = disabled \ {r}
    /\ result' = IF result = "done" THEN "none" ELSE result
    /\ UNCHANGED <<obank, cursor, counts, ruleBreak, ruleTmpBreak, actBreak, pc,
                   locals, work, ghosts>>

Perform ==
    /\ Resumable
    /\ \/ PerformStartBreak \/ PerformStart \/ PerformAfterStartBreak
       \/ PerformMid \/ PerformAfterActionBreak

Dispatch(r) == SkipDisabledRule(r) \/ RuleMiss(r) \/ RuleLies(r) \/ RuleHit(r)
               \/ RuleHitBreak(r) \/ RuleError(r)

Engine == EndPass \/ ProcessDeadOp \/ ProcessOp \/ AdvanceOpState
          \/ \E r \in Rule : Dispatch(r)

Driver == ResetForFunction \/ ClearBreakPoints
          \/ \E r \in Rule : SetRuleBreak(r) \/ SetDisabled(r)
          \/ \E b \in BreakBits : SetActionBreak(b)

Next == Perform \/ Engine \/ Driver

Spec == Init /\ [][Next]_vars

\* The engine runs on its caller's thread and never waits; the driver keeps
\* resuming what it suspended.
FairSpec == Spec /\ WF_vars(Engine) /\ WF_vars(Perform)
-----------------------------------------------------------------------------
(***************************************************************************)
(* Properties.                                                             *)
(***************************************************************************)

\* Type invariant of the pool and of the driver state around it.
TypeOK ==
    /\ optree \subseteq born /\ born \subseteq Op /\ dead \subseteq optree
    /\ opcode \in [Op -> OpCode]
    /\ version \in Nat
    /\ opState \in Op \cup {None} /\ ruleIndex \in Nat /\ pendingCount \in Nat
    /\ disabled \subseteq Rule /\ ruleBreak \subseteq Rule
    /\ ruleTmpBreak \subseteq Rule
    /\ status \in {"START", "BREAKSTARTHIT", "REPEAT", "MID", "ACTIONBREAK"}
    /\ count \in Nat /\ lcount \in Nat /\ actBreak \subseteq BreakBits
    /\ pc \in {"driver", "pass", "rules", "tail"}
    /\ code \in OpCode
    /\ memoVer \in Nat \cup {-1} /\ memoNext \in Op \cup {None}
    /\ redex \subseteq Rule \X Op /\ fuel \in Nat
    /\ result \in {"none", "break", "error", "done"}
    /\ visited \subseteq Op /\ behind \subseteq Op /\ untold \subseteq Op
    /\ hits \in Nat
    /\ erred \in BOOLEAN

\* Every rule of the op's current opcode that is enabled would miss.
Quiet(k) ==
    \A i \in 1..Len(PerOp[opcode[k]]) :
        LET r == PerOp[opcode[k]][i] IN r \in disabled \/ <<r, k>> \notin redex

\* What the caller of perform relies on: once it returns a count, no enabled
\* rule has work left on any op and no dead op is left in the tree, however
\* often the pass was suspended, resumed or aborted before - except for ops
\* that a rule changed at or behind the cursor, in the last pass, without
\* reporting it: no pass comes back for those.
Quiescent ==
    result = "done" => dead \subseteq untold /\ \A k \in optree \ untold : Quiet(k)

\* process_op hands an op to a rule only while the op is in the tree and the
\* rule is registered for the opcode the op has now: the local copy of the
\* opcode is never stale across the edits of the rules before it, reported or
\* not.  The op is alive, unless a rule of this pass killed it and reported
\* nothing: the miss path does not look at is_dead.
NoStaleDispatch ==
    pc = "rules" => /\ opState \in optree /\ code = opcode[opState]
                    /\ opState \in dead => opState \in untold

\* The cursor between two process_op calls, and the cursor parked by a rule
\* breakpoint, stand on an op of the tree: process_op's expect() holds.
CursorInTree ==
    (pc # "driver" \/ (status = "MID" /\ result # "error"))
        => opState \in optree \cup {None}

\* No op is skipped: every op of the tree below the cursor was visited in
\* this pass, or was inserted behind the cursor by a rule.
NoOpSkipped ==
    pc \in {"pass", "rules", "tail"} =>
        \A k \in optree : (opState = None \/ k < opState) => k \in visited \cup behind

\* The tail of process_op moves the cursor to the strict successor in the
\* tree as it is then, whether or not it trusted the memoised one.
AdvanceIsStrictSuccessor ==
    [][(pc \in {"rules", "tail"} /\ pc' = "pass")
        => IsNextOpAfter(opState, opState')]_vars

\* Without an error, the count returned is the number of rule hits since
\* STATUS_START: suspending and resuming neither loses nor repeats a hit.
CountExact == result = "done" /\ ~erred => count = hits

\* Every perform completes, or fails, or is abandoned by its driver: passes
\* that are suspended, resumed and repeated do not go on for ever.
Completes ==
    (pc # "driver" \/ result = "break") ~> (pc = "driver" /\ result # "break")
=============================================================================
