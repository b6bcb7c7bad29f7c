-------------------------- MODULE MigrationProofs ---------------------------
(***************************************************************************)
(* MigrationLoop for every retry budget and every number of faults and     *)
(* administrator operations.                                               *)
(***************************************************************************)
EXTENDS MigrationLoop, StorageMigrationProofs

\* Completion is asserted, in any copy of the condition, only after a success.
CompletionGrounded ==
    \A c \in {cond, seen, basis} : Settled(c) => succeeded

LoopInv == MigInv /\ LoopTypeOK /\ CompletionGrounded

\* The caller's own steps that leave the component alone.
LEMMA MigInvUnchanged == MigInv /\ UNCHANGED migVars => MigInv'
BY DEF MigInv, MigOK, CountCarried, SuccessObserved, migVars

\* No verdict turns into a condition outside the type, and only Completed
\* turns into one that reads True.
LEMMA OutcomeFacts ==
    ASSUME LoopInv
    PROVE  /\ Outcome \in Conds
           /\ Settled(Outcome) => succeeded
<1>1. CASE verdict = Skipped
  BY <1>1 DEF Outcome, LoopInv, LoopTypeOK, CompletionGrounded
<1>2. CASE verdict # Skipped
  <2>1. verdict \in Verdicts \ {Skipped}
    BY <1>2 DEF LoopInv, MigInv, MigOK
  <2>2. Outcome \in Conds
    BY <2>1, <1>2 DEF Outcome, Conds
  <2>3. Outcome.status = verdict.status
    BY <1>2 DEF Outcome
  <2>4. verdict.status = "True" => verdict = Completed
    BY <2>1 DEF Verdicts, Verdict, Pending, Running, Failed, GaveUp, Completed
  <2> QED BY <2>2, <2>3, <2>4 DEF Settled, LoopInv, MigInv, SuccessObserved
<1> QED BY <1>1, <1>2

\* The initial state satisfies the invariant: no condition asserts anything.
LEMMA LoopInitInv == LoopInit => LoopInv
<1> SUFFICES ASSUME LoopInit PROVE LoopInv
  OBVIOUS
<1>1. MigInv
  BY MigInitInv DEF LoopInit
<1>2. LoopTypeOK
  BY <1>1 DEF LoopInit, LoopTypeOK, Conds, MigInv
<1>3. CompletionGrounded
  BY DEF LoopInit, CompletionGrounded, Settled, NoCond
<1> QED BY <1>1, <1>2, <1>3 DEF LoopInv

\* Every step of the loop preserves the invariant.
LEMMA LoopNextInv == LoopInv /\ [LoopNext]_loopVars => LoopInv'
<1> SUFFICES ASSUME LoopInv, [LoopNext]_loopVars PROVE LoopInv'
  OBVIOUS
<1> USE DEF LoopInv
<1>t. /\ cond \in Conds /\ seen \in Conds /\ basis \in Conds
      /\ queued \in BOOLEAN
  BY DEF LoopTypeOK
<1>1. CASE Start
  <2>1. MigInv'
    BY <1>1, MigEnterInv DEF Start, Settled
  <2>2. succeeded' = succeeded
    BY <1>1 DEF Start, MigEnter
  <2> QED BY <1>1, <1>t, <2>1, <2>2
          DEF Start, LoopTypeOK, MigInv, CompletionGrounded
<1>2. CASE Step
  <2>1. MigInv'
    BY <1>2, MigStepInv DEF Step
  <2>2. succeeded' = succeeded
    BY <1>2 DEF Step, MigStep, MigDiscover, MigGet, MigDelete, MigCreate
  <2> QED BY <1>2, <1>t, <2>1, <2>2
          DEF Step, LoopTypeOK, MigInv, CompletionGrounded
<1>3. CASE Finish
  <2>1. MigInv'
    BY <1>3, MigLeaveInv DEF Finish, NoFault, MigInv, MigOK
  <2>2. succeeded' = succeeded
    BY <1>3 DEF Finish, MigLeave
  <2>3. cond' = Outcome \/ cond' = cond
    BY <1>3 DEF Finish
  <2>4. queued' \in BOOLEAN
    BY <1>3, <1>t DEF Finish, MigInv, MigOK, Verdicts, Verdict, Skipped,
       Pending, Running, Failed, GaveUp, Completed
  <2> QED BY <1>3, <1>t, <2>1, <2>2, <2>3, <2>4, OutcomeFacts
          DEF Finish, LoopTypeOK, MigInv, CompletionGrounded
<1>4. CASE FinishFails
  <2>1. MigInv'
    BY <1>4, MigLeaveInv, MigrationAssumption
    DEF FinishFails, Fault, MigInv, MigOK
  <2>2. succeeded' = succeeded
    BY <1>4 DEF FinishFails, MigLeave
  <2> QED BY <1>4, <1>t, <2>1, <2>2
          DEF FinishFails, LoopTypeOK, MigInv, CompletionGrounded
<1>5. CASE FailEarly
  <2>1. MigInv'
    BY <1>5, MigrationAssumption
    DEF FailEarly, Fault, MigInv, MigOK, CountCarried, SuccessObserved
  <2> QED BY <1>5, <1>t, <2>1
          DEF FailEarly, LoopTypeOK, MigInv, CompletionGrounded
<1>6. CASE Sync
  BY <1>6, <1>t, MigInvUnchanged
  DEF Sync, LoopTypeOK, MigInv, CompletionGrounded, migVars
<1>7. CASE Trigger
  BY <1>7, <1>t, MigInvUnchanged
  DEF Trigger, LoopTypeOK, MigInv, CompletionGrounded, migVars
<1>8. CASE Crash
  <2>1. MigInv'
    BY <1>8, MigLeaveInv, MigrationAssumption DEF Crash, Fault, MigInv, MigOK
  <2>2. succeeded' = succeeded
    BY <1>8 DEF Crash, MigLeave
  <2> QED BY <1>8, <1>t, <2>1, <2>2
          DEF Crash, LoopTypeOK, MigInv, CompletionGrounded
<1>9. CASE World
  <2>1. MigInv'
    BY <1>9, MigratorInv, ServeInv, AdminInv DEF World
  <2>2. succeeded => succeeded'
    BY <1>9 DEF World, Migrator, Serve, Admin
  <2> QED BY <1>9, <1>t, <2>1, <2>2
          DEF World, LoopTypeOK, MigInv, CompletionGrounded
<1>10. CASE UNCHANGED loopVars
  BY <1>10, <1>t, MigInvUnchanged
  DEF loopVars, LoopTypeOK, MigInv, CompletionGrounded, migVars
<1> QED
  BY <1>1, <1>2, <1>3, <1>4, <1>5, <1>6, <1>7, <1>8, <1>9, <1>10 DEF LoopNext

\* LoopInv is an invariant of the migration under its abstract caller.
THEOREM LoopInvariant == LoopSpec => []LoopInv
BY LoopInitInv, LoopNextInv, PTL DEF LoopSpec

\* Type correctness, with the attempt number within the budget.
THEOREM LoopTypeCorrect == LoopSpec => []LoopTypeOK
<1>1. LoopInv => LoopTypeOK
  BY DEF LoopInv
<1> QED BY <1>1, LoopInvariant, PTL

\* The condition never reads True before a migration has succeeded.
THEOREM NoFalseCompletion == LoopSpec => []CompletionHonest
<1>1. LoopInv => CompletionHonest
  BY DEF LoopInv, CompletionGrounded, CompletionHonest
<1> QED BY <1>1, LoopInvariant, PTL

\* Creations stay within MaxRetries per life of the attempt count.
THEOREM RetriesBounded == LoopSpec => []RetryBudget
<1>1. LoopInv => RetryBudget
  BY MigInvBudget DEF LoopInv
<1> QED BY <1>1, LoopInvariant, PTL

-----------------------------------------------------------------------------
(* What a retry may delete                                                  *)

\* Every step of the loop preserves it: no call but Get leads to the Delete,
\* and between the two only the migrator and an administrator touch the object.
LEMMA RetryNextInv ==
    LoopInv /\ RetryInv /\ [LoopNext]_loopVars => RetryInv'
<1> SUFFICES ASSUME LoopInv, RetryInv, [LoopNext]_loopVars PROVE RetryInv'
  OBVIOUS
<1>m. MigInv
  BY DEF LoopInv
<1>1. CASE Step
  BY <1>1, <1>m, RetryMigStep DEF Step
<1>2. CASE Start \/ Finish \/ FinishFails \/ Crash
  <2>1. mpc' # "delete"
    BY <1>2 DEF Start, MigEnter, Decide, Finish, FinishFails, Crash, MigLeave
  <2> QED BY <2>1 DEF RetryInv, RetryDeletesFailed, RetryTarget
<1>3. CASE FailEarly \/ Sync \/ Trigger \/ UNCHANGED loopVars
  <2>1. mpc' = mpc /\ svm' = svm
    BY <1>3 DEF FailEarly, Sync, Trigger, loopVars, migVars
  <2> QED BY <2>1, RetryElsewhere
<1>4. CASE World
  BY <1>4, <1>m, RetryWorld DEF World
<1> QED BY <1>1, <1>2, <1>3, <1>4 DEF LoopNext

\* Both hold throughout.
LEMMA RetryInvariant == LoopSpec => [](LoopInv /\ RetryInv)
<1>1. LoopInit => LoopInv /\ RetryInv
  BY LoopInitInv
  DEF LoopInit, MigInit, RetryInv, RetryDeletesFailed, RetryTarget
<1>2. (LoopInv /\ RetryInv) /\ [LoopNext]_loopVars => (LoopInv /\ RetryInv)'
  BY LoopNextInv, RetryNextInv
<1> QED BY <1>1, <1>2, PTL DEF LoopSpec

\* A retry deletes a failed migration, or one an administrator applied after
\* the operator's Get.
THEOREM RetriesOnlyFailed == LoopSpec => []RetryDeletesFailed
<1>1. RetryInv => RetryDeletesFailed
  BY DEF RetryInv
<1> QED BY <1>1, RetryInvariant, PTL

\* Only an administrator takes away a failed object whose budget is spent.
LEMMA EvidenceStep ==
    ASSUME LoopInv, RetryInv, [LoopNext]_loopVars,
           svm.phase = "Failed", svm.attempt >= MaxRetries, svm' # svm
    PROVE  adminOps' # adminOps
<1>4. ~Step
  BY SpentObjectKept DEF LoopInv, Step
<1>5. ~(Start \/ Finish \/ FinishFails \/ FailEarly \/ Sync \/ Trigger
        \/ Crash \/ UNCHANGED loopVars)
  BY DEF Start, MigEnter, Finish, FinishFails, FailEarly, Sync, Trigger,
         Crash, MigLeave, loopVars, migVars
<1>6. Admin
  BY <1>4, <1>5 DEF LoopNext, World, Migrator, Serve
<1> QED BY <1>6 DEF Admin, AdminOp, LoopInv, MigInv, MigOK

\* The evidence of an exhausted budget stays until an administrator acts.
THEOREM EvidenceStays == LoopSpec => EvidenceKept
<1>1. LoopInv /\ RetryInv /\ [LoopNext]_loopVars =>
         [svm.phase = "Failed" /\ svm.attempt >= MaxRetries /\ svm' # svm
             => adminOps' # adminOps]_loopVars
  BY EvidenceStep
<1> QED BY <1>1, RetryInvariant, PTL DEF LoopSpec, EvidenceKept
=============================================================================
