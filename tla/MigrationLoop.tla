--------------------------- MODULE MigrationLoop ----------------------------
(***************************************************************************)
(* StorageMigration closed with an abstract caller: a reconcile pass that  *)
(* reads the MCPServerStorageMigrated condition from a lagging cache, runs *)
(* the migration steps and patches the condition back, or fails before it  *)
(* gets that far.  Everything else the pass does is left to Reconciler.    *)
(***************************************************************************)
EXTENDS StorageMigration

VARIABLES
    cond,     \* the condition on the API server
    seen,     \* the condition in the informer cache
    basis,    \* the condition the running pass started from
    queued    \* the work queue holds the request

loopVars == <<migVars, cond, seen, basis, queued>>

NoCond == [status |-> "Absent", reason |-> "None"]

Conds == {NoCond} \union
         {[status |-> v.status, reason |-> v.reason] :
              v \in Verdicts \ {Skipped}}

Settled(c) == c.status = "True"

LoopInit ==
    /\ MigInit
    /\ cond = NoCond /\ seen = NoCond /\ basis = NoCond
    /\ queued = TRUE

\* What the pass leaves in its copy of the condition.
Outcome == IF verdict = Skipped
             THEN basis
             ELSE [status |-> verdict.status, reason |-> verdict.reason]

Start ==
    /\ mpc = "out" /\ queued
    /\ queued' = FALSE
    /\ basis' = seen
    /\ MigEnter(Settled(seen))
    /\ UNCHANGED <<cond, seen>>

Step ==
    /\ MigStep
    /\ UNCHANGED <<cond, seen, basis, queued>>

\* The status patch carries the whole conditions array if anything in it
\* changed against the copy the pass read, and else no part of it: the array
\* is rewritten when the outcome is new, or a neighbouring condition is.
Finish ==
    /\ mpc = "done"
    /\ MigLeave /\ NoFault
    /\ \E rewrite \in BOOLEAN :
          cond' = IF Outcome # basis \/ rewrite THEN Outcome ELSE cond
    /\ queued' = (queued \/ verdict.requeue)
    /\ UNCHANGED <<seen, basis>>

\* The patch fails: the pass returns its error and is queued again.
FinishFails ==
    /\ mpc = "done"
    /\ MigLeave /\ Fault
    /\ queued' = TRUE
    /\ UNCHANGED <<cond, seen, basis>>

\* A pass that fails before the migration still rewrites the array, from the
\* copy it read.
FailEarly ==
    /\ mpc = "out" /\ queued
    /\ Fault
    /\ cond' = seen /\ basis' = seen
    /\ UNCHANGED <<svm, served, mpc, attempt, verdict, adminOps, creates,
                   budget, succeeded, seen, queued>>

\* The informer delivers the condition; that change is an event.
Sync ==
    /\ seen # cond
    /\ seen' = cond /\ queued' = TRUE
    /\ UNCHANGED <<migVars, cond, basis>>

\* Any other watched object changes.
Trigger ==
    /\ ~queued /\ queued' = TRUE
    /\ UNCHANGED <<migVars, cond, seen, basis>>

\* The process dies; the next one lists everything afresh.
Crash ==
    /\ Fault /\ MigLeave
    /\ seen' = cond /\ basis' = cond /\ queued' = TRUE
    /\ UNCHANGED cond

World ==
    /\ Migrator \/ Serve \/ Admin
    /\ UNCHANGED <<cond, seen, basis, queued>>

LoopNext ==
    \/ Start \/ Step \/ Finish \/ FinishFails \/ FailEarly
    \/ Sync \/ Trigger \/ Crash \/ World

\* The controller's own steps, informer delivery and the migrator go on for
\* ever; nobody is obliged to install the migrator or to keep it installed.
LoopFairness ==
    /\ WF_loopVars(Start) /\ WF_loopVars(Step) /\ WF_loopVars(Finish)
    /\ WF_loopVars(Sync)
    /\ WF_loopVars(Migrator /\ UNCHANGED <<cond, seen, basis, queued>>)

LoopSpec == LoopInit /\ [][LoopNext]_loopVars

FairLoopSpec == LoopSpec /\ LoopFairness

-----------------------------------------------------------------------------
(* Properties                                                               *)

\* Every variable keeps its type (MigOK for the component's own).
LoopTypeOK ==
    /\ MigOK
    /\ cond \in Conds /\ seen \in Conds /\ basis \in Conds
    /\ queued \in BOOLEAN

\* No false completion (storageMigrationSucceeded): the condition reads True,
\* also in the cache the next pass decides from, only after a migration
\* really succeeded, whatever was lost, retried or overwritten in between.
CompletionHonest ==
    Settled(cond) \/ Settled(seen) => succeeded

\* Once the budget is spent the failed object stays as evidence: only an
\* administrator takes it away.
EvidenceKept ==
    [][svm.phase = "Failed" /\ svm.attempt >= MaxRetries /\ svm' # svm
          => adminOps' # adminOps]_loopVars

\* With the migrator installed for good, the operator either gets a migration
\* to succeed or spends its budget: it never stops half way.
MigrationDecided ==
    <>[]served =>
        <>(succeeded \/ (svm.phase = "Failed" /\ svm.attempt >= MaxRetries))

\* A final outcome reaches the condition, and stays there.
OutcomeReported ==
    /\ <>[](served /\ svm.phase = "Succeeded") => <>[]Settled(cond)
    /\ <>[](served /\ svm.phase = "Failed") =>
          <>[](cond.reason \in {"StorageMigrationFailed",
                                "StorageMigrationSucceeded"})

\* What createStorageMigration's comment says of the annotation: the budget
\* survives the delete-and-recreate.
BudgetSurvivesRecreate == creates <= MaxRetries

=============================================================================
