-------------------------- MODULE ActionPool_proofs --------------------------
(***************************************************************************)
(* Proofs about ActionPool, for every set of keys, opcodes and rules.      *)
(***************************************************************************)
EXTENDS ActionPool, TLAPS

\* The pass has a cursor: it is running, or parked by a rule breakpoint.
InPass == pc # "driver" \/ (status = "MID" /\ result # "error")

Below(k) == opState = None \/ k < opState

\* No hit has been counted since the current pass began.
Clean == count + pendingCount <= lcount

CursorInv ==
    /\ pc # "driver" => result = "none"
    /\ pc \in {"rules", "tail"} => opState \in optree /\ opState \in visited
    /\ InPass => opState \in optree \cup {None}
    /\ memoVer <= version
    /\ pc \in {"rules", "tail"} /\ memoVer = version
            => IsNextOpAfter(opState, memoNext)

SkipInv == InPass => \A k \in optree : Below(k) => k \in visited \cup behind

CountInv ==
    /\ pc # "driver" => status # "ACTIONBREAK" /\ lcount <= count + pendingCount
    /\ pc = "tail" => ~Clean
    /\ pc = "pass" /\ Clean => ruleIndex = 0
    /\ pc = "driver" /\ status = "MID" /\ result # "error" => lcount < count
    /\ pc = "driver" /\ status = "ACTIONBREAK" => lcount < count

\* In a pass that has reported no change yet, everything below the cursor is
\* alive and quiet unless it was changed unreported, and so are the rules of
\* the current op already tried.
SweepInv ==
    /\ pc # "driver" /\ Clean =>
          \A k \in optree \ untold : Below(k) => k \notin dead /\ Quiet(k)
    /\ pc = "rules" /\ Clean /\ opState \notin untold =>
          \A i \in 1..Len(Bucket) :
             i <= ruleIndex => Bucket[i] \in disabled
                               \/ <<Bucket[i], opState>> \notin redex

HitInv == ~erred => /\ count + pendingCount = hits
                    /\ pc = "driver" => pendingCount = 0

IInv == /\ TypeOK
        /\ NoStaleDispatch
        /\ CursorInv
        /\ SkipInv
        /\ CountInv
        /\ SweepInv
        /\ Quiescent
        /\ HitInv

-----------------------------------------------------------------------------
(***************************************************************************)
(* What the edits of a rule preserve.                                      *)
(***************************************************************************)

\* The op under the cursor stays in the tree, ops are only added, the tree
\* version tells whether any was, and what is added below the cursor is
\* recorded as inserted behind it.
EditFacts ==
    /\ optree \subseteq optree' /\ optree' \subseteq born' /\ born' \subseteq Op
    /\ dead' \subseteq optree'
    /\ opcode' \in [Op -> OpCode]
    /\ version' \in Nat /\ version <= version'
    /\ version' = version => optree' = optree
    /\ behind \subseteq behind' /\ behind' \subseteq Op
    /\ \A k \in optree' : k \in optree \/ k \in behind' \/ ~(k < opState)

\* Every edit a rule makes has the facts above.
LEMMA EditLemma == TypeOK /\ opState \in Op /\ Edit => EditFacts
<1> SUFFICES ASSUME TypeOK, opState \in Op, Edit PROVE EditFacts
    OBVIOUS
<1> USE OpAssumption DEF TypeOK, EditFacts, obank
<1>1. CASE EditNothing
    BY <1>1 DEF EditNothing
<1>2. ASSUME NEW k \in Op, EditDestroyOp(k) PROVE EditFacts
    BY <1>2 DEF EditDestroyOp
<1>3. ASSUME NEW k \in Op, NEW c \in OpCode, EditSetOpcode(k, c) PROVE EditFacts
    BY <1>3 DEF EditSetOpcode
<1>4. ASSUME NEW k \in Op, NEW c \in OpCode, EditInsertOp(k, c) PROVE EditFacts
    BY <1>4 DEF EditInsertOp
<1> QED
    BY <1>1, <1>2, <1>3, <1>4 DEF Edit

\* ... and so has the rewrite of a hit, which also keeps redex well typed.
LEMMA RewriteLemma ==
    ASSUME NEW r \in Rule, TypeOK, opState \in Op, Rewrite(r)
    PROVE  EditFacts /\ redex' \subseteq Rule \X Op /\ fuel' \in Nat
<1>1. CASE /\ redex' = redex \ {<<r, opState>>}
           /\ EditNothing
           /\ UNCHANGED fuel
  <2>1. EditFacts
    BY <1>1, EditLemma DEF Edit
  <2> QED
    BY <1>1, <2>1 DEF TypeOK
<1>2. CASE /\ fuel > 0 /\ fuel' = fuel - 1
           /\ Edit
           /\ \E new \in {{}} \cup {{p} : p \in Rule \X optree'} :
                  redex' = (redex \ {<<r, opState>>}) \cup new
  <2>1. EditFacts
    BY <1>2, EditLemma
  <2>2. optree' \subseteq Op
    BY <2>1 DEF EditFacts
  <2>3. redex' \subseteq Rule \X Op
    BY <1>2, <2>2 DEF TypeOK
  <2>4. fuel' \in Nat
    BY <1>2 DEF TypeOK
  <2> QED
    BY <2>1, <2>3, <2>4
<1> QED
    BY <1>1, <1>2 DEF Rewrite

\* An edit that is not reported has them too; what it does to an op at or
\* behind the cursor is remembered, but for a retype of the current op.
LEMMA LieLemma ==
    ASSUME NEW r \in Rule, TypeOK, opState \in Op, Lie(r)
    PROVE  /\ EditFacts /\ redex' \subseteq Rule \X Op /\ fuel' \in Nat
           /\ untold \subseteq untold' /\ untold' \subseteq Op
           /\ \A k \in optree' : (k < opState \/ k = opState) /\ k \notin untold' =>
                 /\ k \in optree /\ (k \in dead' => k \in dead)
                 /\ k # opState => opcode'[k] = opcode[k]
                 /\ \A x \in Rule : <<x, k>> \in redex' => <<x, k>> \in redex
<1>1. EditFacts
    BY EditLemma DEF Lie
<1>2. optree' \subseteq Op
    BY <1>1 DEF EditFacts
<1>3. redex' \subseteq Rule \X Op
    BY <1>2 DEF Lie, TypeOK
<1>4. fuel' \in Nat
    BY DEF Lie, TypeOK
<1>5. untold' = untold \cup Unreported
    BY DEF Lie
<1>6. untold \subseteq untold' /\ untold' \subseteq Op
    BY <1>2, <1>5 DEF Unreported, TypeOK
<1>7. ASSUME NEW k \in optree', k < opState \/ k = opState, k \notin untold'
      PROVE  /\ k \in optree /\ (k \in dead' => k \in dead)
             /\ k # opState => opcode'[k] = opcode[k]
             /\ \A x \in Rule : <<x, k>> \in redex' => <<x, k>> \in redex
    BY <1>5, <1>7 DEF Unreported
<1> QED
    BY <1>1, <1>3, <1>4, <1>6, <1>7

-----------------------------------------------------------------------------
(***************************************************************************)
(* Type correctness.                                                       *)
(***************************************************************************)

\* StartPass puts the cursor on the first op of the tree, or nowhere.
LEMMA StartPassLemma ==
    TypeOK /\ StartPass =>
           /\ opState' \in optree \cup {None}
           /\ \A k \in optree : opState' # None /\ ~(k < opState')
           /\ ruleIndex' = 0 /\ visited' = {} /\ behind' = {} /\ untold' = {}
           /\ pc' = "pass"
    BY OpAssumption DEF TypeOK, StartPass, IsFirstOp

\* Every step keeps the types.
LEMMA TypeStep == TypeOK /\ NoStaleDispatch /\ [Next]_vars => TypeOK'
<1> SUFFICES ASSUME TypeOK, NoStaleDispatch, [Next]_vars PROVE TypeOK'
    OBVIOUS
<1> USE OpAssumption, PerOpAssumption
    DEF vars, obank, debug, cursor, counts, locals, work, ghosts
<1>1. CASE PerformStartBreak
    BY <1>1 DEF PerformStartBreak, TypeOK
<1>0. ASSUME StartPass
      PROVE  opState' \in Op \cup {None} /\ ruleIndex' \in Nat
             /\ visited' \subseteq Op /\ behind' \subseteq Op /\ untold' \subseteq Op /\ pc' = "pass"
  <2>1. optree \subseteq Op
    BY DEF TypeOK
  <2>2. /\ opState' \in optree \cup {None}
        /\ ruleIndex' = 0 /\ visited' = {} /\ behind' = {} /\ untold' = {}
           /\ pc' = "pass"
    BY <1>0, StartPassLemma
  <2> QED
    BY <2>1, <2>2
<1>2. CASE PerformStart
    BY <1>0, <1>2 DEF PerformStart, TypeOK
<1>3. CASE PerformAfterStartBreak
    BY <1>0, <1>3 DEF PerformAfterStartBreak, TypeOK
<1>4. CASE PerformMid
    BY <1>4 DEF PerformMid, TypeOK
<1>5. ASSUME NEW cnt \in Nat, RepeatOrReturn(cnt, lcount)
      PROVE  /\ opState' \in Op \cup {None} /\ ruleIndex' \in Nat
             /\ lcount' \in Nat /\ status' \in {"START", "REPEAT"}
             /\ pc' \in {"pass", "driver"} /\ result' \in {"none", "done"}
             /\ visited' \subseteq Op /\ behind' \subseteq Op /\ untold' \subseteq Op
  <2>1. CASE lcount < cnt /\ StartPass /\ status' = "REPEAT" /\ lcount' = cnt
             /\ result' = "none"
    BY <2>1, <1>0, <1>5
  <2>2. CASE status' = "START" /\ pc' = "driver" /\ result' = "done"
             /\ UNCHANGED <<cursor, lcount, visited, behind, untold>>
    BY <2>2 DEF TypeOK
  <2> QED
    BY <1>5, <2>1, <2>2 DEF RepeatOrReturn
<1>6. CASE PerformAfterActionBreak
  <2>1. RepeatOrReturn(count, lcount) /\ count \in Nat
    BY <1>6 DEF PerformAfterActionBreak, TypeOK
  <2> QED
    BY <1>6, <1>5, <2>1 DEF PerformAfterActionBreak, TypeOK
<1>7. CASE EndPass
  <2>1. count' \in Nat /\ pendingCount' \in Nat
    BY <1>7 DEF EndPass, TypeOK
  <2>2. CASE lcount < count' /\ actBreak \cap {"action", "tmpaction"} # {}
    BY <1>7, <2>1, <2>2 DEF EndPass, TypeOK
  <2>3. CASE ~(lcount < count' /\ actBreak \cap {"action", "tmpaction"} # {})
    <3>1. RepeatOrReturn(count', lcount) /\ UNCHANGED actBreak
      BY <1>7, <2>3 DEF EndPass
    <3> QED
      BY <1>7, <1>5, <2>1, <3>1 DEF EndPass, TypeOK
  <2> QED
    BY <2>2, <2>3
<1>8. CASE ProcessDeadOp
    BY <1>8 DEF ProcessDeadOp, TypeOK
<1>9. CASE ProcessOp
    BY <1>9 DEF ProcessOp, TypeOK
<1>10. CASE AdvanceOpState
    BY <1>10 DEF AdvanceOpState, TypeOK
<1>11. CASE ResetForFunction
    BY <1>11 DEF ResetForFunction, TypeOK
<1>12. CASE ClearBreakPoints
    BY <1>12 DEF ClearBreakPoints, TypeOK
<1>13. ASSUME NEW r \in Rule, SkipDisabledRule(r) PROVE TypeOK'
    BY <1>13 DEF SkipDisabledRule, TypeOK
<1>14. ASSUME NEW r \in Rule, RuleMiss(r) PROVE TypeOK'
    BY <1>14 DEF RuleMiss, TypeOK
<1>16. ASSUME NEW r \in Rule, RuleDue(r) PROVE opState \in Op
    BY <1>16 DEF RuleDue, NoStaleDispatch, TypeOK
<1>15. ASSUME NEW r \in Rule, RuleLies(r) PROVE TypeOK'
  <2>1. /\ EditFacts /\ redex' \subseteq Rule \X Op /\ fuel' \in Nat
        /\ untold' \subseteq Op
    BY <1>15, <1>16, LieLemma DEF RuleLies, Lie
  <2>2. code' \in OpCode /\ ruleIndex' \in Nat
    BY <1>15, <1>16, <2>1 DEF RuleLies, Lie, EditFacts, TypeOK
  <2>3. UNCHANGED <<opState, counts, debug, pc, memoVer, memoNext, result,
                    visited, hits, erred>>
    BY <1>15 DEF RuleLies, Lie
  <2> QED
    BY <2>1, <2>2, <2>3 DEF EditFacts, TypeOK
<1>17. ASSUME NEW r \in Rule, RuleHit(r) PROVE TypeOK'
  <2>1. EditFacts /\ redex' \subseteq Rule \X Op /\ fuel' \in Nat
    BY <1>16, <1>17, RewriteLemma DEF RuleHit
  <2>2. code' \in OpCode /\ ruleIndex' \in Nat /\ pc' \in {"rules", "tail"}
    BY <1>16, <1>17, <2>1, SMTT(60) DEF RuleHit, AfterHit, RuleDue, EditFacts, TypeOK
  <2>3. pendingCount' \in Nat /\ hits' \in Nat
    BY <1>17 DEF RuleHit, TypeOK
  <2>4. UNCHANGED <<opState, status, count, lcount, debug, memoVer, memoNext,
                    result, visited, untold, erred>>
    BY <1>17 DEF RuleHit
  <2> QED
    BY <2>1, <2>2, <2>3, <2>4 DEF EditFacts, TypeOK
<1>18. ASSUME NEW r \in Rule, RuleHitBreak(r) PROVE TypeOK'
  <2>1. EditFacts /\ redex' \subseteq Rule \X Op /\ fuel' \in Nat
    BY <1>16, <1>18, RewriteLemma DEF RuleHitBreak
  <2> QED
    BY <1>18, <2>1, SMTT(60) DEF RuleHitBreak, EditFacts, TypeOK
<1>19. ASSUME NEW r \in Rule, RuleError(r) PROVE TypeOK'
  <2>1. EditFacts
    BY <1>16, <1>19, EditLemma DEF RuleError
  <2>2. fuel' \in Nat
    BY <1>19 DEF RuleError, TypeOK
  <2> QED
    BY <1>19, <2>1, <2>2 DEF RuleError, EditFacts, TypeOK
<1>20. ASSUME NEW r \in Rule, SetRuleBreak(r) PROVE TypeOK'
    BY <1>20 DEF SetRuleBreak, TypeOK
<1>21. ASSUME NEW r \in Rule, SetDisabled(r) PROVE TypeOK'
    BY <1>21 DEF SetDisabled, TypeOK
<1>22. ASSUME NEW b \in BreakBits, SetActionBreak(b) PROVE TypeOK'
    BY <1>22 DEF SetActionBreak, TypeOK
<1>23. CASE UNCHANGED vars
    BY <1>23 DEF TypeOK
<1> QED
    BY <1>1, <1>2, <1>3, <1>4, <1>6, <1>7, <1>8, <1>9, <1>10, <1>11, <1>12,
       <1>13, <1>14, <1>15, <1>17, <1>18, <1>19, <1>20, <1>21, <1>22, <1>23
    DEF Next, Perform, Engine, Driver, Dispatch

-----------------------------------------------------------------------------
(***************************************************************************)
(* The cursor.                                                             *)
(***************************************************************************)

\* The tail of process_op: memoised or searched, the new cursor is the
\* strict successor of the op just processed.
LEMMA AdvanceLemma ==
    TypeOK /\ CursorInv /\ AdvanceOpState =>
        /\ opState \in optree /\ opState \in visited
        /\ IsNextOpAfter(opState, opState')
    BY DEF TypeOK, CursorInv, AdvanceOpState

\* What a rule leaves of the memoised successor.
LEMMA MemoLemma ==
    TypeOK /\ CursorInv /\ EditFacts /\ pc \in {"rules", "tail"}
    /\ UNCHANGED <<opState, memoVer, memoNext>> =>
        /\ memoVer' <= version'
        /\ memoVer' = version' => IsNextOpAfter(opState, memoNext)'
<1> SUFFICES ASSUME TypeOK, CursorInv, EditFacts, pc \in {"rules", "tail"},
                    UNCHANGED <<opState, memoVer, memoNext>>
             PROVE  /\ memoVer' <= version'
                    /\ memoVer' = version' => IsNextOpAfter(opState, memoNext)'
    OBVIOUS
<1>1. memoVer' <= version' /\ (memoVer' = version' => version' = version)
    BY DEF TypeOK, CursorInv, EditFacts
<1>2. ASSUME memoVer' = version' PROVE IsNextOpAfter(opState, memoNext)'
  <2>1. optree' = optree /\ memoVer = version
    BY <1>1, <1>2 DEF EditFacts
  <2>2. IsNextOpAfter(opState, memoNext)
    BY <2>1 DEF CursorInv
  <2> QED
    BY <2>1, <2>2 DEF IsNextOpAfter
<1> QED
    BY <1>1, <1>2

\* Every step keeps the cursor in the tree and the dispatch fresh.
LEMMA CursorStep ==
    TypeOK /\ NoStaleDispatch /\ CursorInv /\ [Next]_vars
        => NoStaleDispatch' /\ CursorInv'
<1> SUFFICES ASSUME TypeOK, NoStaleDispatch, CursorInv, [Next]_vars
             PROVE  NoStaleDispatch' /\ CursorInv'
    OBVIOUS
<1>t. TypeOK'
    BY TypeStep
<1> USE OpAssumption
    DEF vars, obank, debug, cursor, counts, locals, work, ghosts
<1>0. ASSUME StartPass, UNCHANGED <<obank, locals>>, result' = "none"
      PROVE  NoStaleDispatch' /\ CursorInv'
  <2>1. opState' \in optree \cup {None} /\ pc' = "pass"
    BY <1>0, StartPassLemma
  <2> QED
    BY <1>0, <2>1 DEF NoStaleDispatch, CursorInv, InPass
<1>1. CASE PerformStartBreak
    BY <1>1 DEF PerformStartBreak, NoStaleDispatch, CursorInv, InPass
<1>2. CASE PerformStart
    BY <1>0, <1>2 DEF PerformStart
<1>3. CASE PerformAfterStartBreak
    BY <1>0, <1>3 DEF PerformAfterStartBreak
<1>4. CASE Resumable /\ PerformMid
    BY <1>4 DEF PerformMid, Resumable, NoStaleDispatch, CursorInv, InPass
<1>5. ASSUME NEW cnt, RepeatOrReturn(cnt, lcount), UNCHANGED <<obank, locals>>
      PROVE  NoStaleDispatch' /\ CursorInv'
  <2>1. CASE StartPass /\ result' = "none"
    BY <1>0, <1>5, <2>1
  <2>2. CASE status' = "START" /\ pc' = "driver"
    BY <1>5, <2>2 DEF NoStaleDispatch, CursorInv, InPass
  <2> QED
    BY <1>5, <2>1, <2>2 DEF RepeatOrReturn
<1>6. CASE PerformAfterActionBreak
    BY <1>5, <1>6 DEF PerformAfterActionBreak
<1>7. CASE EndPass
  <2>1. CASE RepeatOrReturn(count', lcount)
    BY <1>5, <1>7, <2>1 DEF EndPass
  <2>2. CASE status' = "ACTIONBREAK" /\ pc' = "driver"
    BY <1>7, <2>2 DEF EndPass, NoStaleDispatch, CursorInv, InPass
  <2> QED
    BY <1>7, <2>1, <2>2 DEF EndPass
<1>8. CASE ProcessDeadOp
  <2>1. /\ IsNextOpAfter(opState, opState') /\ opState \in optree
        /\ optree' = optree \ {opState} /\ version' = version + 1
        /\ UNCHANGED <<pc, memoVer, memoNext, result>> /\ pc = "pass"
    BY <1>8 DEF ProcessDeadOp, TypeOK
  <2>2. opState' \in optree' \cup {None}
    BY <2>1 DEF IsNextOpAfter, TypeOK
  <2>3. memoVer' <= version'
    BY <2>1 DEF CursorInv, TypeOK
  <2> QED
    BY <2>1, <2>2, <2>3 DEF NoStaleDispatch, CursorInv
<1>9. CASE ProcessOp
  <2>1. /\ pc = "pass" /\ pc' = "rules" /\ opState \in optree \ dead
        /\ code' = opcode[opState] /\ opState \in visited'
        /\ UNCHANGED <<optree, dead, opcode, version, opState, result>>
    BY <1>9 DEF ProcessOp, CursorInv, InPass
  <2>2. memoVer' <= version' /\ (memoVer' = version' => IsNextOpAfter(opState, memoNext)')
    BY <1>9 DEF ProcessOp, IsNextOpAfter, TypeOK
  <2> QED
    BY <2>1, <2>2 DEF NoStaleDispatch, CursorInv
<1>10. CASE AdvanceOpState
  <2>1. opState' \in optree \cup {None}
    BY <1>10, AdvanceLemma DEF IsNextOpAfter
  <2>2. pc \in {"rules", "tail"} /\ pc' = "pass" /\ UNCHANGED <<obank, locals, result>>
    BY <1>10 DEF AdvanceOpState
  <2> QED
    BY <2>1, <2>2 DEF NoStaleDispatch, CursorInv
<1>11. CASE ResetForFunction
    BY <1>11 DEF ResetForFunction, NoStaleDispatch, CursorInv, InPass
<1>12. CASE ClearBreakPoints
    BY <1>12 DEF ClearBreakPoints, NoStaleDispatch, CursorInv, InPass
<1>13. ASSUME NEW r \in Rule, SkipDisabledRule(r)
       PROVE  NoStaleDispatch' /\ CursorInv'
    BY <1>13 DEF SkipDisabledRule, RuleDue, NoStaleDispatch, CursorInv,
                 IsNextOpAfter
<1>14. ASSUME NEW r \in Rule, RuleMiss(r) PROVE NoStaleDispatch' /\ CursorInv'
    BY <1>14 DEF RuleMiss, RuleDue, NoStaleDispatch, CursorInv, IsNextOpAfter
<1>16. ASSUME NEW r \in Rule, RuleDue(r)
       PROVE  /\ opState \in Op /\ opState \in optree
              /\ opState \in visited /\ pc = "rules" /\ result = "none"
    BY <1>16 DEF RuleDue, NoStaleDispatch, CursorInv, TypeOK
<1>15. ASSUME NEW r \in Rule, RuleLies(r) PROVE NoStaleDispatch' /\ CursorInv'
  <2>1. /\ EditFacts /\ RuleDue(r) /\ untold \subseteq untold'
        /\ opState \notin untold' => (opState \in dead' => opState \in dead)
    BY <1>15, <1>16, LieLemma DEF RuleLies, Lie, EditFacts
  <2>2. /\ code' = opcode'[opState]
        /\ UNCHANGED <<pc, opState, memoVer, memoNext, visited, result>>
    BY <1>15 DEF RuleLies, Lie, counts
  <2>3. memoVer' <= version' /\ (memoVer' = version' => IsNextOpAfter(opState, memoNext)')
    BY <1>16, <2>1, <2>2, MemoLemma
  <2>4. opState' \in optree'
    BY <1>16, <2>1, <2>2 DEF EditFacts
  <2>5. NoStaleDispatch'
    BY <1>16, <2>1, <2>2, <2>4 DEF NoStaleDispatch
  <2> QED
    BY <1>16, <2>1, <2>2, <2>3, <2>4, <2>5 DEF CursorInv
<1>17. ASSUME NEW r \in Rule, RuleHit(r) PROVE NoStaleDispatch' /\ CursorInv'
  <2>1. EditFacts /\ RuleDue(r)
    BY <1>16, <1>17, RewriteLemma DEF RuleHit
  <2>2. AfterHit /\ UNCHANGED <<opState, memoVer, memoNext, visited, result>>
    BY <1>17 DEF RuleHit
  <2>3. memoVer' <= version' /\ (memoVer' = version' => IsNextOpAfter(opState, memoNext)')
    BY <1>16, <2>1, <2>2, MemoLemma
  <2>4. pc' \in {"rules", "tail"} /\ opState' \in optree' /\ opState' \in visited'
    BY <1>16, <2>1, <2>2 DEF AfterHit, EditFacts
  <2>5. NoStaleDispatch'
    BY <1>16, <2>1, <2>2, <2>4 DEF AfterHit, NoStaleDispatch
  <2> QED
    BY <1>16, <2>1, <2>2, <2>3, <2>4, <2>5 DEF CursorInv
<1>18. ASSUME NEW r \in Rule, RuleHitBreak(r) PROVE NoStaleDispatch' /\ CursorInv'
  <2>1. EditFacts /\ RuleDue(r)
    BY <1>16, <1>18, RewriteLemma DEF RuleHitBreak
  <2>2. pc' = "driver" /\ UNCHANGED <<opState, memoVer, memoNext>>
    BY <1>18 DEF RuleHitBreak
  <2>3. memoVer' <= version' /\ opState' \in optree'
    BY <1>16, <2>1, <2>2, MemoLemma DEF EditFacts
  <2> QED
    BY <2>2, <2>3 DEF NoStaleDispatch, CursorInv
<1>19. ASSUME NEW r \in Rule, RuleError(r) PROVE NoStaleDispatch' /\ CursorInv'
  <2>1. EditFacts /\ RuleDue(r)
    BY <1>16, <1>19, EditLemma DEF RuleError
  <2>2. pc' = "driver" /\ result' = "error" /\ UNCHANGED <<opState, memoVer, memoNext>>
    BY <1>19 DEF RuleError
  <2>3. memoVer' <= version'
    BY <1>16, <2>1, <2>2, MemoLemma
  <2> QED
    BY <2>2, <2>3 DEF NoStaleDispatch, CursorInv, InPass
<1>20. ASSUME NEW r \in Rule, SetRuleBreak(r) PROVE NoStaleDispatch' /\ CursorInv'
    BY <1>20 DEF SetRuleBreak, NoStaleDispatch, CursorInv, InPass
<1>21. ASSUME NEW r \in Rule, SetDisabled(r) PROVE NoStaleDispatch' /\ CursorInv'
    BY <1>21 DEF SetDisabled, NoStaleDispatch, CursorInv, InPass
<1>22. ASSUME NEW b \in BreakBits, SetActionBreak(b)
       PROVE  NoStaleDispatch' /\ CursorInv'
    BY <1>22 DEF SetActionBreak, NoStaleDispatch, CursorInv, InPass
<1>23. CASE UNCHANGED vars
    BY <1>23 DEF NoStaleDispatch, CursorInv, InPass, IsNextOpAfter
<1> QED
    BY <1>1, <1>2, <1>3, <1>4, <1>6, <1>7, <1>8, <1>9, <1>10, <1>11, <1>12,
       <1>13, <1>14, <1>15, <1>17, <1>18, <1>19, <1>20, <1>21, <1>22, <1>23
    DEF Next, Perform, Engine, Driver, Dispatch

\* Nothing of the tree lies between an op and its strict successor.
LEMMA SuccessorLemma ==
    ASSUME TypeOK, opState \in optree, IsNextOpAfter(opState, opState'),
           NEW k \in optree, opState' = None \/ k < opState'
    PROVE  k <= opState
<1>1. k \in Nat /\ opState \in Nat
    BY OpAssumption DEF TypeOK
<1>2. CASE opState' = None
    BY <1>2, OpAssumption DEF IsNextOpAfter, TypeOK
<1>3. CASE opState' \in optree /\ k < opState'
  <2>1. opState' \in Nat /\ (k > opState => opState' <= k)
    BY <1>3, OpAssumption DEF IsNextOpAfter, TypeOK
  <2> QED
    BY <1>1, <1>3, <2>1
<1> QED
    BY <1>2, <1>3 DEF IsNextOpAfter

\* Every step keeps SkipInv: nothing below the cursor is left unvisited
\* unless a rule put it there.
LEMMA SkipStep ==
    TypeOK /\ NoStaleDispatch /\ CursorInv /\ SkipInv /\ [Next]_vars => SkipInv'
<1> SUFFICES ASSUME TypeOK, NoStaleDispatch, CursorInv, SkipInv, [Next]_vars
             PROVE  SkipInv'
    OBVIOUS
<1> USE OpAssumption
    DEF vars, obank, debug, cursor, counts, locals, work, ghosts
<1>0. ASSUME StartPass, UNCHANGED obank PROVE SkipInv'
  <2>1. \A k \in optree : opState' # None /\ ~(k < opState')
    BY <1>0, StartPassLemma
  <2> QED
    BY <1>0, <2>1 DEF SkipInv, Below
<1>k. \A k \in optree : k \in Nat /\ k # None
    BY DEF TypeOK
<1>1. CASE PerformStartBreak
    BY <1>1 DEF PerformStartBreak, SkipInv, InPass
<1>2. CASE PerformStart
    BY <1>0, <1>2 DEF PerformStart
<1>3. CASE PerformAfterStartBreak
    BY <1>0, <1>3 DEF PerformAfterStartBreak
<1>4. CASE Resumable /\ PerformMid
    BY <1>4 DEF PerformMid, Resumable, SkipInv, InPass, Below
<1>5. ASSUME NEW cnt, RepeatOrReturn(cnt, lcount), UNCHANGED obank
      PROVE  SkipInv'
    BY <1>0, <1>5 DEF RepeatOrReturn, SkipInv, InPass
<1>6. CASE PerformAfterActionBreak
    BY <1>5, <1>6 DEF PerformAfterActionBreak
<1>7. CASE EndPass
  <2>1. CASE RepeatOrReturn(count', lcount)
    BY <1>5, <1>7, <2>1 DEF EndPass
  <2>2. CASE status' = "ACTIONBREAK" /\ pc' = "driver"
    BY <2>2 DEF SkipInv, InPass
  <2> QED
    BY <1>7, <2>1, <2>2 DEF EndPass
<1>8. CASE ProcessDeadOp
  <2>1. /\ IsNextOpAfter(opState, opState') /\ opState \in optree
        /\ optree' = optree \ {opState} /\ visited \subseteq visited'
        /\ behind' = behind /\ pc = "pass"
    BY <1>8 DEF ProcessDeadOp, TypeOK
  <2>2. ASSUME NEW k \in optree', Below(k)' PROVE Below(k) /\ k \in optree
    <3>1. k \in optree /\ k \in Nat /\ opState \in Nat /\ k # opState
      BY <1>k, <2>1
    <3>2. opState' = None \/ k < opState'
      BY <2>2 DEF Below
    <3>3. k <= opState
      BY <2>1, <3>1, <3>2, SuccessorLemma
    <3> QED
      BY <3>1, <3>3 DEF Below
  <2> QED
    BY <2>1, <2>2 DEF SkipInv, InPass
<1>9. CASE ProcessOp
    BY <1>9 DEF ProcessOp, SkipInv, InPass, Below
<1>10. CASE AdvanceOpState
  <2>1. /\ IsNextOpAfter(opState, opState') /\ opState \in visited
        /\ opState \in optree
    BY <1>10, AdvanceLemma
  <2>2. pc # "driver" /\ UNCHANGED <<optree, visited, behind>>
    BY <1>10 DEF AdvanceOpState
  <2>3. ASSUME NEW k \in optree, Below(k)' PROVE Below(k) \/ k = opState
    <3>1. opState' = None \/ k < opState'
      BY <2>3 DEF Below
    <3>2. k \in Nat /\ opState \in Nat /\ k <= opState
      BY <1>k, <2>1, <3>1, SuccessorLemma
    <3> QED
      BY <3>2 DEF Below
  <2> QED
    BY <2>1, <2>2, <2>3 DEF SkipInv, InPass
<1>11. CASE ResetForFunction
    BY <1>11 DEF ResetForFunction, SkipInv, InPass
<1>12. CASE ClearBreakPoints
    BY <1>12 DEF ClearBreakPoints, SkipInv, InPass, Below
<1>13. ASSUME NEW r \in Rule, SkipDisabledRule(r) PROVE SkipInv'
    BY <1>13 DEF SkipDisabledRule, RuleDue, SkipInv, InPass, Below
<1>14. ASSUME NEW r \in Rule, RuleMiss(r) PROVE SkipInv'
    BY <1>14 DEF RuleMiss, RuleDue, SkipInv, InPass, Below
<1>16. ASSUME NEW r \in Rule, RuleDue(r)
       PROVE  opState \in Op /\ opState # None /\ pc = "rules"
    BY <1>16 DEF RuleDue, NoStaleDispatch, TypeOK
<1>17. ASSUME EditFacts, opState # None, pc = "rules", opState' = opState, visited' = visited
       PROVE  SkipInv'
    BY <1>17 DEF EditFacts, SkipInv, InPass, Below
<1>15. ASSUME NEW r \in Rule, RuleLies(r) PROVE SkipInv'
    BY <1>15, <1>16, <1>17, LieLemma DEF RuleLies, Lie
<1>18. ASSUME NEW r \in Rule, RuleHit(r) PROVE SkipInv'
    BY <1>16, <1>17, <1>18, RewriteLemma DEF RuleHit
<1>19. ASSUME NEW r \in Rule, RuleHitBreak(r) PROVE SkipInv'
    BY <1>16, <1>17, <1>19, RewriteLemma DEF RuleHitBreak
<1>20. ASSUME NEW r \in Rule, RuleError(r) PROVE SkipInv'
    BY <1>16, <1>17, <1>20, EditLemma DEF RuleError
<1>21. ASSUME NEW r \in Rule, SetRuleBreak(r) PROVE SkipInv'
    BY <1>21 DEF SetRuleBreak, SkipInv, InPass, Below
<1>22. ASSUME NEW r \in Rule, SetDisabled(r) PROVE SkipInv'
    BY <1>22 DEF SetDisabled, SkipInv, InPass, Below
<1>23. ASSUME NEW b \in BreakBits, SetActionBreak(b) PROVE SkipInv'
    BY <1>23 DEF SetActionBreak, SkipInv, InPass, Below
<1>24. CASE UNCHANGED vars
    BY <1>24 DEF SkipInv, InPass, Below
<1> QED
    BY <1>1, <1>2, <1>3, <1>4, <1>6, <1>7, <1>8, <1>9, <1>10, <1>11, <1>12,
       <1>13, <1>14, <1>15, <1>18, <1>19, <1>20, <1>21, <1>22, <1>23, <1>24
    DEF Next, Perform, Engine, Driver, Dispatch
-----------------------------------------------------------------------------
(***************************************************************************)
(* The counts.                                                             *)
(***************************************************************************)

\* Every step keeps the relation of count, lcount and the pending hits.
LEMMA CountStep ==
    TypeOK /\ CursorInv /\ CountInv /\ HitInv /\ [Next]_vars
        => CountInv' /\ HitInv'
<1> SUFFICES ASSUME TypeOK, CursorInv, CountInv, HitInv, [Next]_vars
             PROVE  CountInv' /\ HitInv'
    OBVIOUS
<1> USE DEF vars, obank, debug, cursor, counts, locals, work, ghosts
<1>0. count \in Nat /\ lcount \in Nat /\ pendingCount \in Nat /\ hits \in Nat
    BY DEF TypeOK
<1>1. CASE PerformStartBreak
    BY <1>0, <1>1 DEF PerformStartBreak, CountInv, HitInv, Clean
<1>2. CASE PerformStart
    BY <1>0, <1>2 DEF PerformStart, StartPass, CountInv, HitInv, Clean
<1>3. CASE PerformAfterStartBreak
    BY <1>0, <1>3 DEF PerformAfterStartBreak, StartPass, CountInv, HitInv, Clean
<1>4. CASE Resumable /\ PerformMid
    BY <1>0, <1>4 DEF PerformMid, Resumable, CountInv, HitInv, Clean
<1>5. CASE PerformAfterActionBreak
    BY <1>0, <1>5 DEF PerformAfterActionBreak, RepeatOrReturn, StartPass,
                      CountInv, HitInv, Clean
<1>6. CASE EndPass
    BY <1>0, <1>6 DEF EndPass, RepeatOrReturn, StartPass, CountInv, HitInv, Clean
<1>7. CASE ProcessDeadOp
    BY <1>0, <1>7 DEF ProcessDeadOp, CountInv, HitInv, Clean
<1>8. CASE ProcessOp
    BY <1>0, <1>8 DEF ProcessOp, CountInv, HitInv, Clean
<1>9. CASE AdvanceOpState
    BY <1>0, <1>9 DEF AdvanceOpState, CountInv, HitInv, Clean
<1>10. CASE ResetForFunction
    BY <1>0, <1>10 DEF ResetForFunction, CountInv, HitInv, Clean
<1>11. CASE ClearBreakPoints
    BY <1>0, <1>11 DEF ClearBreakPoints, CountInv, HitInv, Clean
<1>12. ASSUME NEW r \in Rule, SkipDisabledRule(r) PROVE CountInv' /\ HitInv'
    BY <1>0, <1>12 DEF SkipDisabledRule, RuleDue, CountInv, HitInv, Clean
<1>13. ASSUME NEW r \in Rule, RuleMiss(r) PROVE CountInv' /\ HitInv'
    BY <1>0, <1>13 DEF RuleMiss, RuleDue, CountInv, HitInv, Clean
<1>14. ASSUME NEW r \in Rule, RuleLies(r) PROVE CountInv' /\ HitInv'
    BY <1>0, <1>14 DEF RuleLies, Lie, RuleDue, CountInv, HitInv, Clean
<1>15. ASSUME NEW r \in Rule, RuleHit(r) PROVE CountInv' /\ HitInv'
  <2>1. /\ pc = "rules" /\ pc' \in {"rules", "tail"}
        /\ pendingCount' = pendingCount + 1 /\ hits' = hits + 1
        /\ UNCHANGED <<status, count, lcount, erred>>
    BY <1>15 DEF RuleHit, RuleDue, AfterHit
  <2> QED
    BY <1>0, <2>1 DEF CountInv, HitInv, Clean
<1>16. ASSUME NEW r \in Rule, RuleHitBreak(r) PROVE CountInv' /\ HitInv'
    BY <1>0, <1>16 DEF RuleHitBreak, RuleDue, CountInv, HitInv, Clean
<1>17. ASSUME NEW r \in Rule, RuleError(r) PROVE CountInv' /\ HitInv'
    BY <1>0, <1>17 DEF RuleError, RuleDue, CountInv, HitInv, Clean
<1>18. ASSUME NEW r \in Rule, SetRuleBreak(r) PROVE CountInv' /\ HitInv'
    BY <1>0, <1>18 DEF SetRuleBreak, CountInv, HitInv, Clean
<1>19. ASSUME NEW r \in Rule, SetDisabled(r) PROVE CountInv' /\ HitInv'
    BY <1>0, <1>19 DEF SetDisabled, CountInv, HitInv, Clean
<1>20. ASSUME NEW b \in BreakBits, SetActionBreak(b) PROVE CountInv' /\ HitInv'
    BY <1>0, <1>20 DEF SetActionBreak, CountInv, HitInv, Clean
<1>21. CASE UNCHANGED vars
    BY <1>0, <1>21 DEF CountInv, HitInv, Clean
<1> QED
    BY <1>1, <1>2, <1>3, <1>4, <1>5, <1>6, <1>7, <1>8, <1>9, <1>10, <1>11,
       <1>12, <1>13, <1>14, <1>15, <1>16, <1>17, <1>18, <1>19, <1>20, <1>21
    DEF Next, Perform, Engine, Driver, Dispatch
-----------------------------------------------------------------------------
(***************************************************************************)
(* Quiescence.                                                             *)
(***************************************************************************)

\* An op keeps being quiet as long as its opcode and the disabled rules stay
\* and it gains no redex.
LEMMA QuietLemma ==
    ASSUME NEW k, Quiet(k), opcode'[k] = opcode[k], redex' \subseteq redex,
           disabled' = disabled
    PROVE  Quiet(k)'
    BY DEF Quiet

\* Every step keeps what is known of the ops below the cursor in a pass that
\* has not changed anything.
LEMMA SweepStep ==
    TypeOK /\ NoStaleDispatch /\ CursorInv /\ CountInv /\ SweepInv
    /\ [Next]_vars => SweepInv'
<1> SUFFICES ASSUME TypeOK, NoStaleDispatch, CursorInv, CountInv, SweepInv,
                    [Next]_vars
             PROVE  SweepInv'
    OBVIOUS
<1>c. count \in Nat /\ lcount \in Nat /\ pendingCount \in Nat
    BY DEF TypeOK
<1>k. \A k \in optree : k \in Nat /\ k # None
    BY OpAssumption DEF TypeOK
<1>d. ASSUME pc' = "driver" PROVE SweepInv'
    BY <1>d DEF SweepInv
<1>0. ASSUME StartPass, UNCHANGED obank PROVE SweepInv'
  <2>1. /\ \A k \in optree : opState' # None /\ ~(k < opState')
        /\ pc' = "pass" /\ optree' = optree
    BY <1>0, StartPassLemma DEF obank
  <2> QED
    BY <2>1 DEF SweepInv, Below
<1>m. ASSUME ~Clean' PROVE SweepInv'
    BY <1>m DEF SweepInv
<1>1. CASE PerformStartBreak
    BY <1>d, <1>1 DEF PerformStartBreak
<1>2. CASE PerformStart
    BY <1>0, <1>2 DEF PerformStart
<1>3. CASE PerformAfterStartBreak
    BY <1>0, <1>3 DEF PerformAfterStartBreak
<1>4. CASE Resumable /\ PerformMid
  <2>1. ~Clean'
    BY <1>c, <1>4 DEF PerformMid, Resumable, CountInv, Clean, counts
  <2> QED
    BY <1>m, <2>1
<1>5. CASE PerformAfterActionBreak
    BY <1>0, <1>d, <1>5 DEF PerformAfterActionBreak, RepeatOrReturn
<1>6. CASE EndPass
    BY <1>0, <1>d, <1>6 DEF EndPass, RepeatOrReturn
<1>7. CASE ProcessDeadOp
  <2>1. /\ IsNextOpAfter(opState, opState') /\ opState \in optree
        /\ optree' = optree \ {opState} /\ dead' \subseteq dead
        /\ opcode' = opcode /\ disabled' = disabled /\ redex' \subseteq redex
        /\ UNCHANGED <<count, lcount, pendingCount, untold>>
        /\ pc = "pass" /\ pc' = "pass"
    BY <1>7 DEF ProcessDeadOp, TypeOK, counts, debug
  <2>2. ASSUME Clean', NEW k \in optree' \ untold', Below(k)' PROVE k \notin dead' /\ Quiet(k)'
    <3>1. k \in optree /\ k # opState /\ Clean
      BY <2>1, <2>2 DEF Clean
    <3>2. opState' = None \/ k < opState'
      BY <2>2 DEF Below
    <3>3. k <= opState
      BY <2>1, <3>1, <3>2, SuccessorLemma
    <3>4. Below(k)
      BY <1>k, <2>1, <3>1, <3>3 DEF Below
    <3>5. k \notin dead /\ Quiet(k)
      BY <2>1, <3>1, <3>4 DEF SweepInv
    <3> QED
      BY <2>1, <3>5, QuietLemma
  <2> QED
    BY <2>1, <2>2 DEF SweepInv
<1>8. CASE ProcessOp
  <2>1. /\ UNCHANGED <<optree, dead, opcode, redex, disabled, opState, ruleIndex,
                       count, lcount, pendingCount, untold>>
        /\ pc = "pass" /\ pc' = "rules"
    BY <1>8 DEF ProcessOp, obank, counts, debug, cursor, work
  <2>2. ASSUME Clean' PROVE Clean /\ ruleIndex' = 0
    BY <2>1, <2>2 DEF Clean, CountInv
  <2>3. ASSUME Clean', NEW k \in optree' \ untold', Below(k)' PROVE k \notin dead' /\ Quiet(k)'
    <3>1. k \notin dead /\ Quiet(k)
      BY <2>1, <2>2, <2>3 DEF SweepInv, Below
    <3> QED
      BY <2>1, <3>1, QuietLemma
  <2> QED
    BY <2>1, <2>2, <2>3 DEF SweepInv
<1>9. CASE AdvanceOpState
  <2>1. opState \in optree /\ IsNextOpAfter(opState, opState')
    BY <1>9, AdvanceLemma
  <2>2. /\ UNCHANGED <<optree, dead, opcode, redex, disabled, count, lcount,
                       pendingCount, untold>>
        /\ pc' = "pass" /\ (pc = "tail" \/ (pc = "rules" /\ ruleIndex >= Len(Bucket)))
    BY <1>9 DEF AdvanceOpState, obank, counts, debug, work, ghosts
  <2>3. ASSUME Clean' PROVE /\ Clean /\ pc = "rules" /\ ruleIndex >= Len(Bucket)
                            /\ code = opcode[opState]
                            /\ opState \in dead => opState \in untold
    BY <2>2, <2>3 DEF Clean, CountInv, NoStaleDispatch
  <2>4. ASSUME Clean', opState \notin untold PROVE Quiet(opState)
    <3>1. \A i \in 1..Len(Bucket) : Bucket[i] \in disabled
                                    \/ <<Bucket[i], opState>> \notin redex
      <4>1. Len(Bucket) \in Nat /\ ruleIndex \in Nat
        BY PerOpAssumption DEF Bucket, TypeOK
      <4> QED
        BY <2>3, <2>4, <4>1 DEF SweepInv
    <3> QED
      BY <2>3, <2>4, <3>1 DEF Quiet, Bucket
  <2>5. ASSUME Clean', NEW k \in optree' \ untold', Below(k)' PROVE k \notin dead' /\ Quiet(k)'
    <3>1. k \in optree
      BY <2>2, <2>5
    <3>2. opState' = None \/ k < opState'
      BY <2>5 DEF Below
    <3>3. k <= opState
      BY <2>1, <3>1, <3>2, SuccessorLemma
    <3>4. Below(k) \/ k = opState
      BY <1>k, <2>1, <3>1, <3>3 DEF Below
    <3>5. k \notin dead /\ Quiet(k)
      BY <2>2, <2>3, <2>4, <2>5, <3>1, <3>4 DEF SweepInv
    <3> QED
      BY <2>2, <3>5, QuietLemma
  <2> QED
    BY <2>2, <2>5 DEF SweepInv
<1>10. CASE ResetForFunction
    BY <1>d, <1>10 DEF ResetForFunction
<1>11. CASE ClearBreakPoints
    BY <1>d, <1>11 DEF ClearBreakPoints
<1>12. ASSUME NEW r \in Rule, SkipDisabledRule(r) \/ RuleMiss(r) PROVE SweepInv'
  <2>1. /\ UNCHANGED <<optree, dead, opcode, redex, disabled, opState, code,
                       count, lcount, pendingCount, pc, untold>>
        /\ pc = "rules" /\ ruleIndex' = ruleIndex + 1
        /\ Bucket[ruleIndex + 1] \in disabled
           \/ <<Bucket[ruleIndex + 1], opState>> \notin redex
    BY <1>12 DEF SkipDisabledRule, RuleMiss, RuleDue, obank, counts, debug,
                 work, locals, ghosts
  <2>2. ASSUME Clean' PROVE Clean
    BY <2>1, <2>2 DEF Clean
  <2>3. ASSUME Clean', NEW k \in optree' \ untold', Below(k)' PROVE k \notin dead' /\ Quiet(k)'
    <3>1. k \notin dead /\ Quiet(k)
      BY <2>1, <2>2, <2>3 DEF SweepInv, Below
    <3> QED
      BY <2>1, <3>1, QuietLemma
  <2>4. ASSUME Clean', opState \notin untold,
               NEW i \in 1..Len(Bucket), i <= ruleIndex + 1
        PROVE  Bucket[i] \in disabled \/ <<Bucket[i], opState>> \notin redex
    <3>1. i <= ruleIndex \/ i = ruleIndex + 1
      BY <2>4 DEF TypeOK
    <3> QED
      BY <2>1, <2>2, <2>4, <3>1 DEF SweepInv
  <2> QED
    BY <2>1, <2>3, <2>4 DEF SweepInv, Bucket
<1>14. ASSUME NEW r \in Rule, RuleLies(r) PROVE SweepInv'
  <2>1. /\ UNCHANGED <<disabled, opState, count, lcount, pendingCount, pc>>
        /\ RuleDue(r) /\ pc = "rules" /\ opState \in optree /\ opState \in Op
        /\ <<r, opState>> \notin redex
        /\ code' = opcode'[opState] /\ code = opcode[opState]
        /\ ruleIndex' = IF code' # code THEN 0 ELSE ruleIndex + 1
    BY <1>14 DEF RuleLies, Lie, RuleDue, counts, debug, NoStaleDispatch, TypeOK
  <2>2. /\ EditFacts /\ redex' \subseteq Rule \X Op /\ untold \subseteq untold'
        /\ \A k \in optree' : (k < opState \/ k = opState) /\ k \notin untold' =>
              /\ k \in optree /\ (k \in dead' => k \in dead)
              /\ k # opState => opcode'[k] = opcode[k]
              /\ \A x \in Rule : <<x, k>> \in redex' => <<x, k>> \in redex
    BY <1>14, <2>1, LieLemma DEF RuleLies
  <2>3. ASSUME Clean' PROVE Clean
    BY <2>1, <2>3 DEF Clean
  <2>4. ASSUME Clean', NEW k \in optree' \ untold', Below(k)'
        PROVE  k \notin dead' /\ Quiet(k)'
    <3>1. k < opState /\ opState # None
      BY <1>k, <2>1, <2>4 DEF Below
    <3>2. /\ k \in optree \ untold /\ (k \in dead' => k \in dead)
          /\ \A x \in Rule : <<x, k>> \in redex' => <<x, k>> \in redex
      BY <2>2, <2>4, <3>1
    <3>3. opcode'[k] = opcode[k] /\ k \in Nat /\ k \in Op
      BY <1>k, <2>1, <2>2, <2>4, <3>1, <3>2 DEF TypeOK
    <3>4. k \notin dead /\ Quiet(k)
      BY <2>1, <2>3, <2>4, <3>1, <3>2 DEF SweepInv, Below
    <3>5. \A i \in 1..Len(PerOp[opcode[k]]) : PerOp[opcode[k]][i] \in Rule
      BY <3>3, PerOpAssumption DEF TypeOK
    <3> QED
      BY <2>1, <3>2, <3>3, <3>4, <3>5 DEF Quiet
  <2>5. ASSUME Clean', opState \notin untold', code' = code,
               NEW i \in 1..Len(Bucket), i <= ruleIndex + 1
        PROVE  Bucket[i] \in disabled \/ <<Bucket[i], opState>> \notin redex'
    <3>1. \A x \in Rule : <<x, opState>> \in redex' => <<x, opState>> \in redex
      BY <2>1, <2>2, <2>5 DEF EditFacts
    <3>2. Bucket[i] \in Rule
      BY PerOpAssumption DEF Bucket, TypeOK
    <3>3. i <= ruleIndex \/ i = ruleIndex + 1
      BY <2>5 DEF TypeOK
    <3>4. CASE i = ruleIndex + 1
      BY <2>1, <3>1, <3>2, <3>4 DEF RuleDue
    <3>5. CASE i <= ruleIndex
      <4>1. opState \notin untold /\ Clean
        BY <2>2, <2>3, <2>5
      <4> QED
        BY <2>1, <3>1, <3>2, <3>5, <4>1 DEF SweepInv
    <3> QED
      BY <3>3, <3>4, <3>5
  <2>6. ASSUME Clean', opState \notin untold'
        PROVE  \A i \in 1..Len(Bucket') : i <= ruleIndex' =>
                  Bucket[i]' \in disabled' \/ <<Bucket[i]', opState'>> \notin redex'
    <3>1. CASE code' = code
      BY <2>1, <2>5, <2>6, <3>1 DEF Bucket
    <3>2. CASE code' # code
      BY <2>1, <3>2
    <3> QED
      BY <3>1, <3>2
  <2> QED
    BY <2>1, <2>4, <2>6 DEF SweepInv
<1>15. ASSUME NEW r \in Rule, RuleHit(r) PROVE SweepInv'
  <2>1. ~Clean'
    BY <1>c, <1>15 DEF RuleHit, RuleDue, CountInv, Clean
  <2> QED
    BY <1>m, <2>1
<1>16. ASSUME NEW r \in Rule, RuleHitBreak(r) PROVE SweepInv'
    BY <1>d, <1>16 DEF RuleHitBreak
<1>17. ASSUME NEW r \in Rule, RuleError(r) PROVE SweepInv'
    BY <1>d, <1>17 DEF RuleError
<1>18. ASSUME NEW r \in Rule, SetRuleBreak(r) PROVE SweepInv'
    BY <1>d, <1>18 DEF SetRuleBreak
<1>19. ASSUME NEW r \in Rule, SetDisabled(r) PROVE SweepInv'
    BY <1>d, <1>19 DEF SetDisabled
<1>20. ASSUME NEW b \in BreakBits, SetActionBreak(b) PROVE SweepInv'
    BY <1>d, <1>20 DEF SetActionBreak
<1>21. CASE UNCHANGED vars
    BY <1>21 DEF vars, obank, debug, cursor, counts, locals, work, SweepInv,
                 Clean, Below, Quiet, Bucket, ghosts
<1> QED
    BY <1>1, <1>2, <1>3, <1>4, <1>5, <1>6, <1>7, <1>8, <1>9, <1>10, <1>11,
       <1>12, <1>14, <1>15, <1>16, <1>17, <1>18, <1>19, <1>20, <1>21
    DEF Next, Perform, Engine, Driver, Dispatch

\* Every step keeps Quiescent: only EndPass of a pass that changed nothing
\* reports completion.
LEMMA QuiescentStep ==
    TypeOK /\ CursorInv /\ CountInv /\ SweepInv /\ Quiescent /\ [Next]_vars
        => Quiescent'
<1> SUFFICES ASSUME TypeOK, CursorInv, CountInv, SweepInv, Quiescent,
                    [Next]_vars
             PROVE  Quiescent'
    OBVIOUS
<1> USE DEF vars, obank, debug, cursor, counts, locals, work, ghosts
<1>c. count \in Nat /\ lcount \in Nat /\ pendingCount \in Nat
    BY DEF TypeOK
<1>n. ASSUME result' # "done" PROVE Quiescent'
    BY <1>n DEF Quiescent
<1>u. ASSUME UNCHANGED <<optree, dead, opcode, redex, disabled, result, untold>>
      PROVE  Quiescent'
    BY <1>u DEF Quiescent, Quiet
<1>p. pc # "driver" => result # "done"
    BY DEF CursorInv
<1>1. CASE PerformStartBreak \/ PerformStart \/ PerformAfterStartBreak \/ PerformMid
    BY <1>1, <1>n DEF PerformStartBreak, PerformStart, PerformAfterStartBreak,
                      PerformMid
<1>2. CASE PerformAfterActionBreak
  <2>1. lcount < count
    BY <1>2 DEF PerformAfterActionBreak, CountInv
  <2>2. result' = "none"
    BY <1>2, <1>c, <2>1 DEF PerformAfterActionBreak, RepeatOrReturn
  <2> QED
    BY <1>n, <2>2
<1>3. CASE EndPass
  <2>1. CASE lcount >= count'
    <3>1. Clean /\ pc # "driver" /\ opState = None
      BY <1>3, <1>c, <2>1 DEF EndPass, Clean
    <3>2. \A k \in optree \ untold : k \notin dead /\ Quiet(k)
      BY <3>1 DEF SweepInv, Below
    <3>3. dead \subseteq untold
      BY <3>2 DEF TypeOK
    <3>4. UNCHANGED untold \/ result' # "done"
      BY <1>3 DEF EndPass, RepeatOrReturn
    <3> QED
      BY <1>3, <3>2, <3>3, <3>4 DEF EndPass, Quiescent, Quiet
  <2>2. CASE lcount < count'
    <3>1. result' # "done"
      BY <1>3, <1>c, <2>2 DEF EndPass, RepeatOrReturn
    <3> QED
      BY <1>n, <3>1
  <2> QED
    BY <1>3, <1>c, <2>1, <2>2 DEF EndPass
<1>4. CASE ProcessDeadOp \/ ProcessOp \/ AdvanceOpState
    BY <1>4, <1>n, <1>p DEF ProcessDeadOp, ProcessOp, AdvanceOpState
<1>5. CASE ResetForFunction
    BY <1>5, <1>n DEF ResetForFunction
<1>6. CASE ClearBreakPoints
    BY <1>6, <1>u DEF ClearBreakPoints
<1>7. ASSUME NEW r \in Rule, Dispatch(r) PROVE Quiescent'
  <2>1. pc = "rules"
    BY <1>7 DEF Dispatch, SkipDisabledRule, RuleMiss, RuleLies, RuleHit,
                RuleHitBreak, RuleError, RuleDue, Lie
  <2>2. result' \in {result, "break", "error"}
    BY <1>7 DEF Dispatch, SkipDisabledRule, RuleMiss, RuleLies, RuleHit,
                RuleHitBreak, RuleError, Lie
  <2> QED
    BY <1>n, <1>p, <2>1, <2>2
<1>8. ASSUME NEW r \in Rule, SetRuleBreak(r) PROVE Quiescent'
    BY <1>8, <1>u DEF SetRuleBreak
<1>9. ASSUME NEW r \in Rule, SetDisabled(r) PROVE Quiescent'
    BY <1>9, <1>n DEF SetDisabled
<1>10. ASSUME NEW b \in BreakBits, SetActionBreak(b) PROVE Quiescent'
    BY <1>10, <1>u DEF SetActionBreak
<1>11. CASE UNCHANGED vars
    BY <1>11, <1>u
<1> QED
    BY <1>1, <1>2, <1>3, <1>4, <1>5, <1>6, <1>7, <1>8, <1>9, <1>10, <1>11
    DEF Next, Perform, Engine, Driver
-----------------------------------------------------------------------------
(***************************************************************************)
(* The inductive invariant and what follows from it.                       *)
(***************************************************************************)

\* The invariant holds initially.
LEMMA InitInv == Init => IInv
<1> SUFFICES ASSUME Init PROVE IInv
    OBVIOUS
<1>1. AnyCode \in OpCode
    BY OpCodeAssumption DEF AnyCode
<1>2. TypeOK
    BY <1>1, FuelAssumption, OpAssumption DEF Init, TypeOK, BreakBits
<1> QED
    BY <1>2 DEF Init, IInv, NoStaleDispatch, CursorInv, SkipInv, CountInv,
                SweepInv, Quiescent, HitInv, InPass

\* The invariant is inductive.
LEMMA InvStep == IInv /\ [Next]_vars => IInv'
    BY TypeStep, CursorStep, SkipStep, CountStep, SweepStep, QuiescentStep
    DEF IInv

\* Every reachable state of process_op and perform satisfies the invariant.
THEOREM Invariance == Spec => []IInv
    BY InitInv, InvStep, PTL DEF Spec

\* The pool and its driver keep their types.
THEOREM TypeCorrect == Spec => []TypeOK
<1>1. IInv => TypeOK
    BY DEF IInv
<1> QED
    BY Invariance, <1>1, PTL

\* A count returned by perform means that no rule has work left on any op
\* and no dead op is in the tree, for every number of ops, opcodes, rules,
\* edits, breakpoints and errors, and whatever the rules left unreported -
\* but for the ops changed unreported at or behind the cursor in the last
\* pass.
THEOREM PoolQuiescent == Spec => []Quiescent
<1>1. IInv => Quiescent
    BY DEF IInv
<1> QED
    BY Invariance, <1>1, PTL

\* No rule is handed an op that is gone or whose opcode has changed since the
\* local copy was read, and none is handed a dead op that it, or a rule before
\* it, did not kill without reporting it.
THEOREM DispatchFresh == Spec => []NoStaleDispatch
<1>1. IInv => NoStaleDispatch
    BY DEF IInv
<1> QED
    BY Invariance, <1>1, PTL

\* The cursor of a running or parked pass stands on an op of the tree.
THEOREM CursorSafe == Spec => []CursorInTree
<1>1. IInv => CursorInTree
    BY DEF IInv, CursorInv, InPass, CursorInTree
<1> QED
    BY Invariance, <1>1, PTL

\* A pass skips no op of the tree.
THEOREM NothingSkipped == Spec => []NoOpSkipped
<1>1. IInv => NoOpSkipped
    BY DEF IInv, SkipInv, InPass, Below, NoOpSkipped
<1> QED
    BY Invariance, <1>1, PTL

\* The count perform returns is the number of hits since STATUS_START.
THEOREM CountCorrect == Spec => []CountExact
<1>1. IInv => CountExact
    BY DEF IInv, HitInv, CountExact, CursorInv, TypeOK
<1> QED
    BY Invariance, <1>1, PTL

\* Trusting the memoised successor while the tree version is unchanged moves
\* the cursor exactly where a fresh search would.
THEOREM MemoSound == Spec => AdvanceIsStrictSuccessor
<1>1. IInv /\ [Next]_vars =>
         [(pc \in {"rules", "tail"} /\ pc' = "pass")
             => IsNextOpAfter(opState, opState')]_vars
  <2> SUFFICES ASSUME IInv, Next, pc \in {"rules", "tail"}, pc' = "pass"
               PROVE  IsNextOpAfter(opState, opState')
    OBVIOUS
  <2>1. AdvanceOpState
    BY DEF Next, Perform, Engine, Driver, Dispatch, PerformStartBreak,
           PerformStart, PerformAfterStartBreak, PerformMid,
           PerformAfterActionBreak, EndPass, ProcessDeadOp, ProcessOp,
           SkipDisabledRule, RuleMiss, RuleLies, Lie, RuleDue, RuleHit, RuleHitBreak,
           RuleError, AfterHit, ResetForFunction, ClearBreakPoints,
           SetRuleBreak, SetDisabled, SetActionBreak
  <2> QED
    BY <2>1, AdvanceLemma DEF IInv
<1> QED
    BY Invariance, <1>1, PTL DEF Spec, AdvanceIsStrictSuccessor
=============================================================================
