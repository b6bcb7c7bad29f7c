---------------------------- MODULE SourceUpdate ----------------------------
(***************************************************************************)
(* applyUpdate and installOutputs of tools/source-update: the part of the  *)
(* tool that changes the working tree.  It pins the module files, appends  *)
(* to the CI workflow's output file, and swaps in N outputs (three in the  *)
(* code: configuration, installer, image record), each by two renames      *)
(* through a workspace beside it.  Any of its file operations may fail,    *)
(* those of a rollback too, and the process may be killed at any point.    *)
(* What comes before, resolving and generating, is in SourceSync.          *)
(***************************************************************************)
EXTENDS Integers

CONSTANTS
    N,           \* number of outputs
    ModuleFiles, \* go.mod and go.sum
    MaxFaults    \* bound: failing file operations

ASSUME UpdateAssumption == N \in Nat \ {0} /\ MaxFaults \in Nat

Items == 1..N

\* Definitions whose name starts with Mut are plausible bugs in the definition
\* that follows them; the specification never uses them.

VARIABLES
    had,       \* outputs that existed before
    target,    \* what is at each output's place
    output,    \* items with a staged copy in their workspace
    backup,    \* items whose workspace holds the original
    backedUp,  \* items flagged backedUp in memory
    installed, \* items flagged installed in memory
    modules,   \* each module file: old or new
    workflow,  \* the workflow's output file: unset, missing, old, new or torn
    pc, i,     \* the next operation and the item it is about
    failed,    \* the tool returns an error
    reported,  \* and the error says that something could not be restored
    faults

treeVars == <<target, output, backup>>
flagVars == <<backedUp, installed>>
otherVars == <<modules, workflow>>
vars == <<had, treeVars, flagVars, otherVars, pc, i, failed, reported, faults>>

-----------------------------------------------------------------------------
Fault == faults < MaxFaults /\ faults' = faults + 1

NoFault == UNCHANGED faults

\* How a place looked before the update.
Before(k) == IF k \in had THEN "old" ELSE "absent"

Init ==
    /\ had \in SUBSET Items
    /\ target = [k \in Items |-> Before(k)]
    /\ output = {} /\ backup = {}
    /\ backedUp = {} /\ installed = {}
    /\ modules = [f \in ModuleFiles |-> "old"]
    /\ workflow \in {"unset", "missing", "old"}
    /\ pc = "snapshot" /\ i = 1
    /\ failed = FALSE /\ reported = FALSE /\ faults = 0

Goto(p, k) == pc' = p /\ i' = k

Fail(p, k) == Goto(p, k) /\ failed' = TRUE

-----------------------------------------------------------------------------
(* applyUpdate                                                              *)

\* The module files are read before anything is changed.
Snapshot ==
    /\ pc = "snapshot"
    /\ \/ Goto("pin", i) /\ NoFault /\ UNCHANGED failed
       \/ Fail("done", i) /\ Fault
    /\ UNCHANGED <<had, treeVars, flagVars, otherVars, reported>>

\* go mod edit, go mod tidy and the check of the pin: one that fails may have
\* changed some of the files.
Pin ==
    /\ pc = "pin"
    /\ \/ /\ modules' = [f \in ModuleFiles |-> "new"]
          /\ Goto("workflow", i) /\ NoFault /\ UNCHANGED failed
       \/ /\ modules' \in [ModuleFiles -> {"old", "new"}]
          /\ Fail("restoreModules", i) /\ Fault
    /\ UNCHANGED <<had, treeVars, flagVars, workflow, reported>>

\* The workflow's output is read, for a later restore, and appended to.  The
\* file is not created.
AppendWorkflow ==
    /\ pc = "workflow"
    /\ \/ /\ workflow = "unset" /\ Goto("prepare", 1)
          /\ NoFault /\ UNCHANGED <<workflow, failed>>
       \/ /\ workflow = "old" /\ workflow' = "new" /\ Goto("prepare", 1)
          /\ NoFault /\ UNCHANGED failed
       \/ /\ workflow = "missing" /\ Fail("restoreWorkflow", i)
          /\ NoFault /\ UNCHANGED workflow
       \/ /\ workflow # "unset" /\ Fail("restoreModules", i)
          /\ Fault /\ UNCHANGED workflow
       \/ /\ workflow = "old" /\ workflow' \in {"old", "new", "torn"}
          /\ Fail("restoreWorkflow", i) /\ Fault
    /\ UNCHANGED <<had, treeVars, flagVars, modules, reported>>

-----------------------------------------------------------------------------
(* installOutputs                                                           *)

\* Every output is copied to a workspace first; after a failed preparation the
\* workspaces are removed, or some stay behind.
Prepare ==
    /\ pc = "prepare"
    /\ \/ /\ output' = output \union {i}
          /\ IF i < N THEN Goto("prepare", i + 1) ELSE Goto("backup", 1)
          /\ NoFault /\ UNCHANGED failed
       \/ /\ output' \in SUBSET output /\ Fail("restoreWorkflow", i) /\ Fault
    /\ UNCHANGED <<had, target, backup, flagVars, otherVars, reported>>

\* What is at the place is renamed into the workspace.
Backup ==
    /\ pc = "backup"
    /\ \/ /\ target[i] # "absent"
          /\ target' = [target EXCEPT ![i] = "absent"]
          /\ backup' = backup \union {i} /\ backedUp' = backedUp \union {i}
          /\ Goto("install", i) /\ NoFault /\ UNCHANGED failed
       \/ /\ target[i] = "absent" /\ Goto("install", i)
          /\ NoFault /\ UNCHANGED <<target, backup, backedUp, failed>>
       \/ /\ Fail("remove", N) /\ Fault
          /\ UNCHANGED <<target, backup, backedUp>>
    /\ UNCHANGED <<had, output, installed, otherVars, reported>>

MutAfterInstall == Goto("backup", i + 1)
AfterInstall == IF i < N THEN Goto("backup", i + 1) ELSE Goto("cleanup", i)

\* The staged copy is renamed to the place.
Install ==
    /\ pc = "install"
    /\ \/ /\ target' = [target EXCEPT ![i] = "new"]
          /\ output' = output \ {i} /\ installed' = installed \union {i}
          /\ AfterInstall /\ NoFault /\ UNCHANGED failed
       \/ /\ Fail("remove", N) /\ Fault
          /\ UNCHANGED <<target, output, installed>>
    /\ UNCHANGED <<had, backup, backedUp, otherVars, reported>>

\* All is installed: the workspaces go, or stay behind with a warning.
Cleanup ==
    /\ pc = "cleanup"
    /\ \/ backup' = {} /\ NoFault
       \/ backup' \in SUBSET backup /\ Fault
    /\ Goto("done", i)
    /\ UNCHANGED <<had, target, output, flagVars, otherVars, failed, reported>>

-----------------------------------------------------------------------------
(* rollbackInstall, from the last item to the first                         *)

NextBack == IF i > 1 THEN Goto("remove", i - 1) ELSE Goto("sweep", 1)

\* What was installed is removed.  If that fails, also half way through a
\* directory, the item is given up and the error says so.
MutRemovable(k) == k \in installed /\ k \in backedUp
Removable(k) == k \in installed

Remove ==
    /\ pc = "remove"
    /\ \/ /\ ~Removable(i) /\ Goto("putBack", i)
          /\ NoFault /\ UNCHANGED <<target, reported>>
       \/ /\ Removable(i) /\ target' = [target EXCEPT ![i] = "absent"]
          /\ Goto("putBack", i) /\ NoFault /\ UNCHANGED reported
       \/ /\ Removable(i)
          /\ \E left \in {"new", "torn"} : target' = [target EXCEPT ![i] = left]
          /\ reported' = TRUE /\ NextBack /\ Fault
    /\ UNCHANGED <<had, output, backup, flagVars, otherVars, failed>>

\* What was backed up is renamed back.
PutBack ==
    /\ pc = "putBack"
    /\ NextBack
    /\ \/ /\ i \notin backedUp /\ NoFault
          /\ UNCHANGED <<target, backup, backedUp, reported>>
       \/ /\ i \in backedUp /\ NoFault
          /\ target' = [target EXCEPT ![i] = "old"]
          /\ backup' = backup \ {i} /\ backedUp' = backedUp \ {i}
          /\ UNCHANGED reported
       \/ /\ i \in backedUp /\ Fault /\ reported' = TRUE
          /\ UNCHANGED <<target, backup, backedUp>>
    /\ UNCHANGED <<had, output, installed, otherVars, failed>>

\* The workspaces go, but not those that still hold an original.
MutKept == {}
Kept == backedUp

Sweep ==
    /\ pc = "sweep"
    /\ backup' = backup \intersect Kept
    /\ Goto("restoreWorkflow", i)
    /\ \/ output' = output \intersect Kept /\ NoFault /\ UNCHANGED reported
       \/ output' \in SUBSET output /\ Fault /\ reported' = TRUE
    /\ UNCHANGED <<had, target, flagVars, otherVars, failed>>

-----------------------------------------------------------------------------
(* The rest of applyUpdate's rollback: a file that cannot be restored is    *)
(* joined to the error.                                                     *)

RestoreWorkflow ==
    /\ pc = "restoreWorkflow"
    /\ Goto("restoreModules", i)
    /\ \/ /\ workflow' = (IF workflow \in {"new", "torn"} THEN "old"
                                                         ELSE workflow)
          /\ NoFault /\ UNCHANGED reported
       \/ workflow # "unset" /\ reported' = TRUE /\ Fault /\ UNCHANGED workflow
    /\ UNCHANGED <<had, treeVars, flagVars, modules, failed>>

RestoreModules ==
    /\ pc = "restoreModules"
    /\ Goto("done", i)
    /\ \/ /\ modules' = [f \in ModuleFiles |-> "old"]
          /\ NoFault /\ UNCHANGED reported
       \/ /\ \E lost \in SUBSET ModuleFiles :
                modules' = [f \in ModuleFiles |->
                               IF f \in lost THEN modules[f] ELSE "old"]
          /\ reported' = TRUE /\ Fault
    /\ UNCHANGED <<had, treeVars, flagVars, workflow, failed>>

\* The process is killed.
Kill ==
    /\ pc \notin {"done", "killed"} /\ Goto("killed", i)
    /\ UNCHANGED <<had, treeVars, flagVars, otherVars, failed, reported, faults>>

Next ==
    \/ Snapshot \/ Pin \/ AppendWorkflow
    \/ Prepare \/ Backup \/ Install \/ Cleanup
    \/ Remove \/ PutBack \/ Sweep \/ RestoreWorkflow \/ RestoreModules
    \/ Kill

Spec == Init /\ [][Next]_vars

-----------------------------------------------------------------------------
(* Properties                                                               *)

FilesTyped ==
    /\ had \subseteq Items
    /\ target \in [Items -> {"old", "new", "absent", "torn"}]
    /\ output \subseteq Items /\ backup \subseteq Items
    /\ backedUp \subseteq Items /\ installed \subseteq Items
    /\ modules \in [ModuleFiles -> {"old", "new"}]
    /\ workflow \in {"unset", "missing", "old", "new", "torn"}

ControlTyped ==
    /\ pc \in {"snapshot", "pin", "workflow", "prepare", "backup", "install",
               "cleanup", "remove", "putBack", "sweep", "restoreWorkflow",
               "restoreModules", "done", "killed"}
    /\ i \in Items
    /\ faults \in 0..MaxFaults

ErrorTyped == failed \in BOOLEAN /\ reported \in BOOLEAN

\* Every variable of the updater keeps its type: installOutputs and
\* rollbackInstall never leave the range of the entries.
UpdateTypeOK == FilesTyped /\ ControlTyped /\ ErrorTyped

\* Whatever fails, and wherever the tool is killed, the original of an output
\* is in its place or in its workspace, unless every output was replaced.
OriginalKept ==
    \/ \A k \in Items : target[k] = "new"
    \/ \A k \in had : target[k] = "old" \/ k \in backup

\* A tool that returns has updated everything, or it has restored everything
\* (CONTRIBUTING.md: "Module files, configuration, installer, image record and
\* workflow outputs are restored on update failure"), or its error says that
\* something could not be restored.
AllOrNothing ==
    pc = "done" =>
        \/ /\ ~failed
           /\ \A k \in Items : target[k] = "new"
           /\ \A f \in ModuleFiles : modules[f] = "new"
           /\ workflow \in {"unset", "new"}
        \/ /\ failed
           /\ \A k \in Items : target[k] = Before(k)
           /\ \A f \in ModuleFiles : modules[f] = "old"
           /\ workflow \in {"unset", "missing", "old"}
        \/ failed /\ reported

=============================================================================
