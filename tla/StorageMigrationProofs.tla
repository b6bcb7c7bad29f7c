----------------------- MODULE StorageMigrationProofs -----------------------
(***************************************************************************)
(* The inductive invariant of the migration component: every step of the   *)
(* component and of the world around it preserves MigInv, whoever calls    *)
(* it.  MigrationProofs and ReconcilerProofs cite these lemmas.            *)
(***************************************************************************)
EXTENDS StorageMigration, TLAPS

MigInv == MigOK /\ CountCarried /\ SuccessObserved

\* The verdicts are distinct, and only Completed asserts completion.
LEMMA VerdictFacts ==
    /\ {Skipped, Pending, Running, Failed, GaveUp, Completed} \subseteq Verdicts
    /\ Completed \notin {Skipped, Pending, Running, Failed, GaveUp}
BY DEF Verdicts, Skipped, Pending, Running, Failed, GaveUp, Completed, Verdict

\* NoSVM is no object.
LEMMA SVMFacts ==
    /\ NoSVM \notin SVMs
    /\ NoSVM.attempt = -1 /\ NoSVM.phase = "Absent"
BY DEF NoSVM, SVMs, SVMPhases

\* The component starts with a whole budget and nothing asserted.
LEMMA MigInitInv == MigInit => MigInv
<1> SUFFICES ASSUME MigInit PROVE MigInv
  OBVIOUS
<1>1. MigOK
  <2>1. served \in BOOLEAN /\ succeeded \in BOOLEAN
    BY MigrationAssumption, Zenon DEF MigInit
  <2>2. svm \in SVMs \union {NoSVM} /\ svm.attempt <= MaxRetries
    BY MigrationAssumption, SVMFacts DEF MigInit
  <2>3. mpc \in Positions /\ verdict \in Verdicts
    BY VerdictFacts DEF MigInit, Positions
  <2> QED BY <2>1, <2>2, <2>3, MigrationAssumption DEF MigInit, MigOK
<1>2. CountCarried
  BY MigrationAssumption DEF MigInit, CountCarried
<1>3. SuccessObserved
  BY SVMFacts, VerdictFacts DEF MigInit, SuccessObserved
<1> QED BY <1>1, <1>2, <1>3 DEF MigInv

\* Entering the migration moves the position only.
LEMMA MigEnterInv ==
    ASSUME MigInv, NEW settled \in BOOLEAN, MigEnter(settled)
    PROVE  MigInv'
BY MigrationAssumption, SVMFacts, VerdictFacts
DEF MigEnter, Decide, MigInv, MigOK, CountCarried, SuccessObserved, Positions

\* Discovery decides Pending or goes on.
LEMMA MigDiscoverInv == MigInv /\ MigDiscover => MigInv'
BY MigrationAssumption, SVMFacts, VerdictFacts
DEF MigDiscover, Decide, Fault, NoFault, MigInv, MigOK, CountCarried,
    SuccessObserved, Positions

\* Get hands the count of a failed object over to the pass, and completes only
\* on an object that succeeded.
LEMMA MigGetInv == MigInv /\ MigGet => MigInv'
<1> SUFFICES ASSUME MigInv, MigGet PROVE MigInv'
  OBVIOUS
<1>1. CASE /\ svm = NoSVM \/ ~served
           /\ mpc' = "create" /\ attempt' = 1
           /\ NoFault /\ UNCHANGED verdict
  BY <1>1, MigrationAssumption, SVMFacts, VerdictFacts
  DEF MigGet, NoFault, MigInv, MigOK, CountCarried, SuccessObserved, Positions
<1>2. CASE svm # NoSVM /\ served /\ Observe(svm) /\ NoFault
  <2>1. svm \in SVMs /\ svm.attempt \in Nat
    BY <1>2 DEF MigInv, MigOK, SVMs
  <2>2. MigOK'
    BY <1>2, <2>1, MigrationAssumption, VerdictFacts
    DEF MigGet, Observe, MigrationSucceeded, MigrationFailed, BudgetSpent,
        NextAttempt, Decide, NoFault, MigInv, MigOK, Positions
  <2>3. CountCarried'
    BY <1>2, <2>1, MigrationAssumption, SVMFacts
    DEF MigGet, Observe, MigrationSucceeded, MigrationFailed, BudgetSpent,
        NextAttempt, Decide, NoFault, MigInv, MigOK, CountCarried
  <2>4. SuccessObserved'
    BY <1>2, <2>1, VerdictFacts
    DEF MigGet, Observe, MigrationSucceeded, MigrationFailed, BudgetSpent,
        NextAttempt, Decide, NoFault, MigInv, SuccessObserved
  <2> QED BY <2>2, <2>3, <2>4 DEF MigInv
<1>3. CASE Decide(Failed) /\ Fault /\ UNCHANGED attempt
  BY <1>3, MigrationAssumption, SVMFacts, VerdictFacts
  DEF MigGet, Decide, Fault, MigInv, MigOK, CountCarried, SuccessObserved,
      Positions
<1> QED BY <1>1, <1>2, <1>3 DEF MigGet

\* Delete leaves the count with the pass, or loses it and grants a budget.
LEMMA MigDeleteInv == MigInv /\ MigDelete => MigInv'
BY MigrationAssumption, SVMFacts, VerdictFacts
DEF MigDelete, Decide, Fault, NoFault, CountLost, ObjectCounts, MigInv, MigOK, CountCarried,
    SuccessObserved, Positions, SVMs, SVMPhases

\* Create spends one creation and puts the count on the object.
LEMMA MigCreateInv == MigInv /\ MigCreate => MigInv'
<1> SUFFICES ASSUME MigInv, MigCreate PROVE MigInv'
  OBVIOUS
<1>1. attempt \in 1..MaxRetries
  BY DEF MigCreate, MigInv, CountCarried
<1>2. NewSVM \in SVMs /\ NewSVM.attempt = attempt /\ NewSVM.phase = "Running"
  BY <1>1, MigrationAssumption DEF NewSVM, SVMs, SVMPhases
<1>3. MigOK'
  BY <1>1, <1>2, MigrationAssumption, VerdictFacts
  DEF MigCreate, Decide, Fault, NoFault, CountLost, MigInv, MigOK, Positions
<1>4. CountCarried'
  BY <1>1, <1>2, MigrationAssumption, SVMFacts
  DEF MigCreate, Decide, CountLost, PassCounts, MigInv, MigOK, CountCarried
<1>5. SuccessObserved'
  BY <1>2, VerdictFacts
  DEF MigCreate, Decide, MigInv, SuccessObserved
<1> QED BY <1>3, <1>4, <1>5 DEF MigInv

\* Any of the component's calls.
LEMMA MigStepInv == MigInv /\ MigStep => MigInv'
BY MigDiscoverInv, MigGetInv, MigDeleteInv, MigCreateInv DEF MigStep

\* Leaving forgets the count only between Delete and Create.
LEMMA MigLeaveInv ==
    ASSUME MigInv, MigLeave, faults' \in 0..MaxFaults
    PROVE  MigInv'
BY MigrationAssumption, SVMFacts, VerdictFacts
DEF MigLeave, CountLost, PassCounts, MigInv, MigOK, CountCarried, SuccessObserved,
    Positions

\* The migrator changes a phase, never a count.
LEMMA MigratorInv == MigInv /\ Migrator => MigInv'
<1> SUFFICES ASSUME MigInv, Migrator PROVE MigInv'
  OBVIOUS
<1>1. PICK ph \in {"Succeeded", "Failed"} :
         /\ svm' = [svm EXCEPT !.phase = ph]
         /\ succeeded' = (succeeded \/ ph = "Succeeded")
  BY DEF Migrator
<1>2. svm \in SVMs
  BY DEF Migrator, MigInv, MigOK
<1>3. svm' \in SVMs /\ svm'.attempt = svm.attempt /\ svm'.phase = ph
  BY <1>1, <1>2 DEF SVMs, SVMPhases
<1>4. svm' # NoSVM /\ svm # NoSVM
  BY <1>2, <1>3, SVMFacts
<1>5. MigOK'
  BY <1>1, <1>3 DEF Migrator, MigInv, MigOK
<1>6. CountCarried'
  BY <1>3, <1>4 DEF Migrator, MigInv, MigOK, CountCarried
<1>7. SuccessObserved'
  BY <1>1, <1>3 DEF Migrator, MigInv, SuccessObserved
<1> QED BY <1>5, <1>6, <1>7 DEF MigInv

\* Installing the migrator changes nothing the invariant speaks of.
LEMMA ServeInv == MigInv /\ Serve => MigInv'
BY DEF Serve, MigInv, MigOK, CountCarried, SuccessObserved

\* An administrator who takes or replaces the object loses the count.
LEMMA AdminInv == MigInv /\ Admin => MigInv'
<1> SUFFICES ASSUME MigInv, Admin PROVE MigInv'
  OBVIOUS
<1>1. /\ ManualSVM \in SVMs
      /\ ManualSVM.attempt = 0 /\ ManualSVM.phase = "Running"
  BY DEF ManualSVM, SVMs, SVMPhases
<1>2. served' \in BOOLEAN
  BY Zenon DEF Admin, MigInv, MigOK
<1>3. CASE svm = NoSVM /\ svm' = ManualSVM /\ CountLost(PassCounts)
  <2>1. budget' = IF mpc = "create" /\ attempt > 1 THEN budget + MaxRetries
                                                   ELSE budget
    BY <1>3 DEF CountLost, PassCounts
  <2>2. MigOK'
    BY <1>1, <1>2, <1>3, <2>1, MigrationAssumption
    DEF Admin, AdminOp, MigInv, MigOK
  <2>3. CountCarried'
    BY <1>1, <1>3, <2>1, MigrationAssumption, SVMFacts
    DEF Admin, MigInv, MigOK, CountCarried
  <2> QED BY <2>2, <2>3, <1>1, <1>3, SVMFacts
          DEF Admin, MigInv, SuccessObserved
<1>4. CASE svm # NoSVM /\ svm' = NoSVM
  <2>1. svm \in SVMs /\ svm.attempt \in Nat
    BY <1>4 DEF MigInv, MigOK, SVMs
  <2>2. budget' = IF svm.attempt > 0 THEN budget + MaxRetries ELSE budget
    BY <1>4, SVMFacts DEF Admin, CountLost, ObjectCounts
  <2>3. MigOK'
    BY <1>2, <1>4, <2>2, MigrationAssumption, SVMFacts
    DEF Admin, AdminOp, MigInv, MigOK
  <2>4. CountCarried'
    BY <1>4, <2>1, <2>2, MigrationAssumption, SVMFacts
    DEF Admin, MigInv, MigOK, CountCarried
  <2> QED BY <2>3, <2>4, <1>4, SVMFacts DEF Admin, MigInv, SuccessObserved
<1>5. CASE svm' = svm
  <2>0. budget' = budget + MaxRetries \/ budget' = budget
    BY DEF Admin, CountLost
  <2>1. budget' \in Nat /\ budget' >= budget
    BY <2>0, MigrationAssumption DEF MigInv, MigOK
  <2>2. MigOK'
    BY <1>2, <1>5, <2>1, MigrationAssumption
    DEF Admin, AdminOp, MigInv, MigOK
  <2>3. CountCarried'
    <3>1. mpc' = mpc /\ attempt' = attempt /\ creates' = creates
      BY DEF Admin
    <3>2. svm # NoSVM => svm.attempt \in Nat
      BY DEF MigInv, MigOK, SVMs
    <3>3. creates \in Nat /\ budget \in Nat /\ attempt \in Nat
      BY MigrationAssumption DEF MigInv, MigOK
    <3>4. CountCarried
      BY DEF MigInv
    <3> QED BY <3>1, <3>2, <3>3, <3>4, <1>5, <2>0, MigrationAssumption
            DEF CountCarried
  <2> QED BY <2>2, <2>3, <1>5 DEF Admin, MigInv, SuccessObserved
<1> QED
  <2>1. \/ svm = NoSVM /\ svm' = ManualSVM /\ CountLost(PassCounts)
        \/ svm # NoSVM /\ svm' = NoSVM
        \/ svm' = svm
    BY Zenon DEF Admin
  <2> QED BY <2>1, <1>3, <1>4, <1>5

\* What the invariant is for: the creations never exceed the budget.
LEMMA MigInvBudget == MigInv => RetryBudget
BY MigrationAssumption, SVMFacts
DEF MigInv, MigOK, CountCarried, RetryBudget, SVMs


-----------------------------------------------------------------------------
(* What a retry may delete                                                  *)

\* The object a retry is about to delete has budget left: Get has seen a
\* failed one that had, or an administrator has put one of no attempt there.
RetryTarget ==
    mpc = "delete" /\ svm # NoSVM => svm.attempt < MaxRetries

RetryInv == RetryDeletesFailed /\ RetryTarget

\* A Get that goes on to the Delete has seen the object it will delete.
LEMMA GetBeforeDelete ==
    ASSUME MigInv, MigGet, mpc' = "delete"
    PROVE  /\ svm' = svm /\ svm \in SVMs
           /\ svm.phase = "Failed" /\ svm.attempt < MaxRetries
<1>1. svm' = svm
  BY DEF MigGet
<1>2. svm # NoSVM /\ Observe(svm)
  BY DEF MigGet, Decide
<1>3. svm \in SVMs
  BY <1>2 DEF MigInv, MigOK
<1>4. MigrationFailed(svm) /\ ~BudgetSpent(svm)
  BY <1>2 DEF Observe, Decide
<1>5. svm.attempt \in Nat
  BY <1>3 DEF SVMs
<1> QED BY <1>1, <1>3, <1>4, <1>5, MigrationAssumption
        DEF MigrationFailed, BudgetSpent

\* Of the component's calls only Get leads to the Delete.
LEMMA RetryMigStep ==
    ASSUME MigInv, MigStep
    PROVE  RetryInv'
<1> USE DEF RetryInv, RetryDeletesFailed, RetryTarget
<1>1. CASE MigGet
  BY <1>1, GetBeforeDelete
<1>2. CASE MigDiscover \/ MigDelete \/ MigCreate
  BY <1>2 DEF MigDiscover, MigDelete, MigCreate, Decide
<1> QED BY <1>1, <1>2 DEF MigStep

\* Whoever leaves the object alone, or takes it away, outside a call.
LEMMA RetryElsewhere ==
    ASSUME RetryInv, mpc' = mpc, svm' \in {svm, NoSVM}
    PROVE  RetryInv'
BY DEF RetryInv, RetryDeletesFailed, RetryTarget

\* Between Get and Delete the migrator leaves a failed object alone, and an
\* administrator puts one of no attempt in its place.
LEMMA RetryWorld ==
    ASSUME MigInv, RetryInv, Migrator \/ Serve \/ Admin
    PROVE  RetryInv'
<1> USE DEF RetryInv, RetryDeletesFailed, RetryTarget
<1>1. CASE Migrator
  <2>1. PICK ph \in {"Succeeded", "Failed"} : svm' = [svm EXCEPT !.phase = ph]
    BY <1>1 DEF Migrator
  <2>2. svm \in SVMs /\ svm # NoSVM /\ svm.phase = "Running" /\ mpc' = mpc
    BY <1>1 DEF Migrator, MigInv, MigOK
  <2>3. svm'.attempt = svm.attempt
    BY <2>1, <2>2 DEF SVMs
  <2> QED BY <2>2, <2>3
<1>2. CASE Serve
  BY <1>2 DEF Serve
<1>3. CASE Admin
  <2>1. mpc' = mpc
    BY <1>3 DEF Admin
  <2>2. svm' \in {svm, NoSVM, ManualSVM}
    BY <1>3 DEF Admin
  <2>3. ManualSVM.attempt = 0 /\ 0 < MaxRetries
    BY MigrationAssumption DEF ManualSVM
  <2> QED BY <2>1, <2>2, <2>3
<1> QED BY <1>1, <1>2, <1>3

\* No call of the component takes away a failed object whose budget is spent.
LEMMA SpentObjectKept ==
    ASSUME MigInv, RetryInv, MigStep,
           svm.phase = "Failed", svm.attempt >= MaxRetries
    PROVE  svm' = svm
<1>1. svm \in SVMs /\ svm.attempt \in Nat
  BY SVMFacts DEF MigInv, MigOK, SVMs
<1>2. svm # NoSVM
  BY <1>1, SVMFacts
<1>3. mpc # "delete"
  BY <1>1, <1>2, MigrationAssumption DEF RetryInv, RetryTarget
<1> QED BY <1>2, <1>3 DEF MigStep, MigDiscover, MigGet, MigDelete, MigCreate

=============================================================================
