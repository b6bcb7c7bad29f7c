-------------------------- MODULE StorageMigration --------------------------
(***************************************************************************)
(* The storage-version migration driven by                                 *)
(* internal/controller/storage_migration.go, as the part of a reconcile    *)
(* pass that runs last.  Every call on the API server is a step of its     *)
(* own, so the migrator, an administrator, an API fault or a crash may     *)
(* act between any two of them.  The module has no caller: MigrationLoop   *)
(* closes it with an abstract one, Reconciler with the whole pass.         *)
(***************************************************************************)
EXTENDS Integers

CONSTANTS
    MaxRetries,   \* maxStorageMigrationRetries (5 in the code)
    HasMigrator,  \* is the storage-version migrator ever installed?
    MaxFaults,    \* bound: failed API calls and crashes
    MaxAdminOps   \* bound: migrator uninstalls and manual changes to the object

ASSUME MigrationAssumption ==
    /\ MaxRetries \in Nat \ {0}
    /\ HasMigrator \in BOOLEAN
    /\ MaxFaults \in Nat
    /\ MaxAdminOps \in Nat

VARIABLES
    svm,        \* the StorageVersionMigration on the API server, or NoSVM
    served,     \* does discovery list migration.k8s.io/v1alpha1?
    mpc,        \* the call the running pass makes next
    attempt,    \* attempt number the pass will stamp when it creates
    verdict,    \* what the pass decided about MCPServerStorageMigrated
    faults,     \* faults so far, at most MaxFaults
    adminOps,   \* administrator operations so far, at most MaxAdminOps
    creates,    \* history: migrations this operator has created
    budget,     \* history: creations the retry budget has allowed for
    succeeded   \* history: some migration object has reached Succeeded

migVars == <<svm, served, mpc, attempt, verdict, faults, adminOps,
             creates, budget, succeeded>>

-----------------------------------------------------------------------------
(* Definitions whose name starts with Mut are plausible bugs in the          *)
(* definition that follows them; the specification never uses them.  They    *)
(* show that the properties notice the bug.                                  *)
(*                                                                           *)
(* An object is what its annotation and its status.conditions say.  One     *)
(* without the annotation reads as attempt 0.                               *)

SVMPhases == {"Running", "Succeeded", "Failed"}

NoSVM == [attempt |-> -1, phase |-> "Absent"]

SVMs == [attempt : Nat, phase : SVMPhases]

Positions == {"out", "discover", "get", "delete", "create", "done"}

Verdict(s, r, q) == [status |-> s, reason |-> r, requeue |-> q]

\* The pass left the condition alone and asks for no requeue.
Skipped == Verdict("Skip", "None", FALSE)

Pending == Verdict("False", "StorageMigrationPending", TRUE)

MutRunning == Verdict("False", "StorageMigrationRunning", FALSE)
Running == Verdict("False", "StorageMigrationRunning", TRUE)

Failed == Verdict("False", "StorageMigrationFailed", TRUE)

MutGaveUp == Skipped
GaveUp == Verdict("False", "StorageMigrationFailed", FALSE)

Completed == Verdict("True", "StorageMigrationSucceeded", FALSE)

Verdicts == {Skipped, Pending, Running, Failed, GaveUp, Completed}

-----------------------------------------------------------------------------
\* One of the bounded faults happens in this step, or none does.
Fault == faults < MaxFaults /\ faults' = faults + 1

NoFault == UNCHANGED faults

\* The attempt number is carried by the object, or by the pass between its
\* Delete and its Create.  Losing it starts the count at 1 again, which
\* grants the operator MaxRetries further creations.
ObjectCounts == svm.attempt > 0

PassCounts == mpc = "create" /\ svm = NoSVM /\ attempt > 1

CountLost(lost) == budget' = (IF lost THEN budget + MaxRetries ELSE budget)

Decide(v) == mpc' = "done" /\ verdict' = v

MigInit ==
    /\ svm = NoSVM
    /\ served \in {FALSE, HasMigrator}
    /\ mpc = "out"
    /\ attempt = 0
    /\ verdict = Skipped
    /\ faults = 0
    /\ adminOps = 0
    /\ creates = 0
    /\ budget = MaxRetries
    /\ succeeded = FALSE

-----------------------------------------------------------------------------
(* The steps of reconcileStorageMigration                                   *)

\* C1: a condition that already reads True ends the pass's migration work.
MigEnter(settled) ==
    /\ mpc = "out"
    /\ IF settled
         THEN Decide(Skipped)
         ELSE mpc' = "discover" /\ UNCHANGED verdict
    /\ UNCHANGED <<svm, served, attempt, faults, adminOps, creates, budget,
                   succeeded>>

\* C2: the group is not served, or discovery fails.
MigDiscover ==
    /\ mpc = "discover"
    /\ \/ served /\ mpc' = "get" /\ NoFault /\ UNCHANGED verdict
       \/ ~served /\ Decide(Pending) /\ NoFault
       \/ Decide(Pending) /\ Fault
    /\ UNCHANGED <<svm, served, attempt, adminOps, creates, budget, succeeded>>

MutMigrationSucceeded(obj) == obj.phase # "Running"
MigrationSucceeded(obj) == obj.phase = "Succeeded"

MutMigrationFailed(obj) == obj.phase # "Succeeded"
MigrationFailed(obj) == obj.phase = "Failed"

MutBudgetSpent(obj) == obj.attempt > MaxRetries
BudgetSpent(obj) == obj.attempt >= MaxRetries

MutNextAttempt(obj) == IF obj.attempt = 0 THEN 1 ELSE obj.attempt
NextAttempt(obj) == obj.attempt + 1

\* observeStorageMigration on the object that Get returned.
Observe(obj) ==
    \/ /\ MigrationSucceeded(obj)
       /\ Decide(Completed) /\ UNCHANGED attempt
    \/ /\ ~MigrationSucceeded(obj) /\ MigrationFailed(obj) /\ BudgetSpent(obj)
       /\ Decide(GaveUp) /\ UNCHANGED attempt
    \/ /\ ~MigrationSucceeded(obj) /\ MigrationFailed(obj) /\ ~BudgetSpent(obj)
       /\ mpc' = "delete" /\ attempt' = NextAttempt(obj) /\ UNCHANGED verdict
    \/ /\ ~MigrationSucceeded(obj) /\ ~MigrationFailed(obj)
       /\ Decide(Running) /\ UNCHANGED attempt

\* A group withdrawn since discovery answers 404, like an absent object.
MigGet ==
    /\ mpc = "get"
    /\ \/ /\ svm = NoSVM \/ ~served
          /\ mpc' = "create" /\ attempt' = 1
          /\ NoFault /\ UNCHANGED verdict
       \/ svm # NoSVM /\ served /\ Observe(svm) /\ NoFault
       \/ Decide(Failed) /\ Fault /\ UNCHANGED attempt
    /\ UNCHANGED <<svm, served, adminOps, creates, budget, succeeded>>

\* Delete is by name, with no precondition on the object Get returned.  An
\* error may hide a deletion that took place.
MigDelete ==
    /\ mpc = "delete"
    /\ \/ /\ mpc' = "create" /\ NoFault
          /\ svm' = (IF served THEN NoSVM ELSE svm)
          /\ UNCHANGED <<verdict, budget>>
       \/ Decide(Failed) /\ Fault /\ UNCHANGED <<svm, budget>>
       \/ /\ svm # NoSVM /\ served
          /\ Decide(Failed) /\ Fault
          /\ svm' = NoSVM /\ CountLost(ObjectCounts)
    /\ UNCHANGED <<served, attempt, adminOps, creates, succeeded>>

NewSVM == [attempt |-> attempt, phase |-> "Running"]

\* createStorageMigration: created, refused because an object of the name
\* exists, or failed; a failed call may still have created the object.
MigCreate ==
    /\ mpc = "create"
    /\ \/ /\ svm = NoSVM /\ served /\ svm' = NewSVM
          /\ creates' = creates + 1
          /\ \/ Decide(Running) /\ NoFault
             \/ Decide(Failed) /\ Fault
          /\ UNCHANGED budget
       \/ /\ svm # NoSVM /\ served
          /\ Decide(Running) /\ NoFault
          /\ UNCHANGED <<svm, creates, budget>>
       \/ /\ Decide(Failed)
          /\ IF served THEN Fault ELSE NoFault
          /\ CountLost(PassCounts)
          /\ UNCHANGED <<svm, creates>>
    /\ UNCHANGED <<served, attempt, adminOps, succeeded>>

MigStep == MigDiscover \/ MigGet \/ MigDelete \/ MigCreate

\* The pass is over, or its process is: position and verdict are forgotten,
\* and with them the attempt number of a Create that was still to come.
MigLeave ==
    /\ mpc' = "out" /\ attempt' = 0 /\ verdict' = Skipped
    /\ CountLost(PassCounts)
    /\ UNCHANGED <<svm, served, adminOps, creates, succeeded>>

\* The object carries an ownerReference to the resource, so Kubernetes deletes
\* it with the resource, unless an administrator applied it by hand.
MutOwned(obj) == FALSE
Owned(obj) == obj.attempt > 0

\* deleteStorageMigration from handleRemoved, when it reaches the object.
MigRemove ==
    /\ svm' = (IF served THEN NoSVM ELSE svm)
    /\ CountLost(served /\ ObjectCounts)

-----------------------------------------------------------------------------
(* The world around it                                                      *)

\* The migrator finishes a running migration; a Failed one is never retried.
Migrator ==
    /\ svm # NoSVM /\ served /\ svm.phase = "Running"
    /\ \E ph \in {"Succeeded", "Failed"} :
          /\ svm' = [svm EXCEPT !.phase = ph]
          /\ succeeded' = (succeeded \/ ph = "Succeeded")
    /\ UNCHANGED <<served, mpc, attempt, verdict, faults, adminOps,
                   creates, budget>>

\* The storage-version migrator is installed.
Serve ==
    /\ HasMigrator
    /\ ~served /\ served' = TRUE
    /\ UNCHANGED <<svm, mpc, attempt, verdict, faults, adminOps, creates,
                   budget, succeeded>>

ManualSVM == [attempt |-> 0, phase |-> "Running"]

AdminOp == adminOps < MaxAdminOps /\ adminOps' = adminOps + 1

\* An administrator applies the reference manifest, which has no attempt
\* annotation; deletes the object; or uninstalls the migrator, which hides
\* the object or, when its CRD is deleted too, destroys it.
Admin ==
    /\ AdminOp /\ served
    /\ \/ /\ svm = NoSVM /\ svm' = ManualSVM
          /\ CountLost(PassCounts) /\ UNCHANGED served
       \/ /\ svm # NoSVM /\ svm' = NoSVM
          /\ CountLost(ObjectCounts) /\ UNCHANGED served
       \/ /\ served' = FALSE /\ svm' \in {svm, NoSVM}
          /\ CountLost(svm' # svm /\ ObjectCounts)
    /\ UNCHANGED <<mpc, attempt, verdict, faults, creates, succeeded>>

-----------------------------------------------------------------------------
(* Invariants of the component                                              *)

\* Every variable of the component keeps its type, and nothing carries an
\* attempt number beyond the budget of storage_migration.go:74.
MigOK ==
    /\ svm \in SVMs \union {NoSVM}
    /\ svm.attempt <= MaxRetries
    /\ served \in BOOLEAN
    /\ mpc \in Positions
    /\ attempt \in 0..MaxRetries
    /\ verdict \in Verdicts
    /\ faults \in 0..MaxFaults
    /\ adminOps \in 0..MaxAdminOps
    /\ creates \in Nat
    /\ budget \in Nat
    /\ succeeded \in BOOLEAN

\* Whoever carries the attempt count has spent that much of the budget: the
\* object, the pass that has read it, or the pass that has deleted it.  With
\* no carrier a whole budget is left.
CountCarried ==
    /\ svm # NoSVM => creates + MaxRetries <= budget + svm.attempt
    /\ mpc = "delete" => /\ attempt \in 1..MaxRetries
                         /\ creates + MaxRetries <= budget + attempt - 1
    /\ mpc = "create" => attempt \in 1..MaxRetries
    /\ svm = NoSVM /\ mpc = "create" =>
          creates + MaxRetries <= budget + attempt - 1
    /\ svm = NoSVM /\ mpc # "create" => creates + MaxRetries <= budget

\* A pass is about to assert completion only after a success.
SuccessObserved ==
    /\ svm.phase = "Succeeded" => succeeded
    /\ verdict = Completed => succeeded

\* The delete-and-recreate cycle is bounded: the operator creates at most
\* MaxRetries migrations, plus MaxRetries for every time the object that
\* carried the attempt count was lost.
RetryBudget == creates <= budget

\* A migration about to be deleted for a retry is a failed one, unless an
\* administrator put another object in its place after Get.
RetryDeletesFailed ==
    mpc = "delete" /\ svm # NoSVM => svm.phase = "Failed" \/ svm.attempt = 0

=============================================================================
