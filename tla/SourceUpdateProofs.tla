------------------------- MODULE SourceUpdateProofs -------------------------
(***************************************************************************)
(* The updater never loses an original, and returns only after a complete  *)
(* update, a complete restore or a report of what is not restored, for     *)
(* every number of outputs and of failing operations.                      *)
(***************************************************************************)
EXTENDS SourceUpdate, TLAPS

\* Positions at which the swap is not yet complete, or is being undone.
Open == pc \notin {"cleanup", "done", "killed"}

\* The flags in memory agree with the workspaces, and every original is in
\* its place or in its workspace.
OriginalsHeld ==
    Open => /\ backup = backedUp
            /\ \A k \in had : target[k] = "old" \/ k \in backup

\* Up to where the swap has come, and from where its undoing still has to go,
\* the flag installed means that the new output is in place.
Progress ==
    /\ pc \in {"snapshot", "pin", "workflow", "prepare"} => installed = {}
    /\ pc \in {"backup", "install"} => installed = 1..(i - 1)
    /\ pc = "install" => target[i] = "absent"
    /\ pc \in {"backup", "install", "remove"} =>
          \A k \in installed : k <= i => target[k] = "new"
    /\ pc = "putBack" => \A k \in installed : k < i => target[k] = "new"
    /\ pc = "cleanup" => \A k \in Items : target[k] = "new"

\* The inductive invariant.
UpdateInv == UpdateTypeOK /\ OriginalsHeld /\ Progress /\ OriginalKept

\* A new updater satisfies the invariant.
LEMMA InitInv == Init => UpdateInv
  <1>. SUFFICES ASSUME Init PROVE UpdateInv
    OBVIOUS
  <1>1. FilesTyped
    BY DEF Init, FilesTyped, Before
  <1>2. ControlTyped
    BY UpdateAssumption DEF Init, ControlTyped, Items
  <1>3. ErrorTyped
    BY DEF Init, ErrorTyped
  <1>4. \A k \in had : target[k] = "old"
    BY DEF Init, Before
  <1>5. OriginalsHeld /\ OriginalKept
    BY <1>4 DEF Init, OriginalsHeld, OriginalKept
  <1>6. Progress
    BY DEF Init, Progress
  <1>. QED BY <1>1, <1>2, <1>3, <1>5, <1>6 DEF UpdateInv, UpdateTypeOK

\* Reading the module files touches nothing.
LEMMA SnapshotInv ==
  ASSUME UpdateInv, Snapshot
  PROVE  UpdateInv'
  <1>. USE UpdateAssumption
       DEF UpdateInv, UpdateTypeOK, Items, Snapshot, Goto, Fail, Fault,
           NoFault, treeVars, flagVars, otherVars
  <1>1. UpdateTypeOK'
    <2>1. FilesTyped'
      BY DEF FilesTyped, ControlTyped
    <2>2. ControlTyped'
      BY DEF ControlTyped
    <2>3. ErrorTyped'
      BY Zenon DEF ErrorTyped
    <2>. QED BY <2>1, <2>2, <2>3
  <1>2. OriginalsHeld'
    BY DEF FilesTyped, ControlTyped, OriginalsHeld, Open
  <1>3. Progress'
    BY DEF FilesTyped, ControlTyped, Progress
  <1>4. OriginalKept'
    BY <1>2, <1>3 DEF OriginalsHeld, OriginalKept, Open
  <1>. QED BY <1>1, <1>2, <1>3, <1>4

\* Pinning touches the module files only.
LEMMA PinInv ==
  ASSUME UpdateInv, Pin
  PROVE  UpdateInv'
  <1>. USE UpdateAssumption
       DEF UpdateInv, UpdateTypeOK, Items, Pin, Goto, Fail, Fault, NoFault,
           treeVars, flagVars, otherVars
  <1>1. UpdateTypeOK'
    <2>1. FilesTyped'
      BY DEF FilesTyped, ControlTyped
    <2>2. ControlTyped'
      BY DEF ControlTyped
    <2>3. ErrorTyped'
      BY Zenon DEF ErrorTyped
    <2>. QED BY <2>1, <2>2, <2>3
  <1>2. OriginalsHeld'
    BY DEF FilesTyped, ControlTyped, OriginalsHeld, Open
  <1>3. Progress'
    BY DEF FilesTyped, ControlTyped, Progress
  <1>4. OriginalKept'
    BY <1>2, <1>3 DEF OriginalsHeld, OriginalKept, Open
  <1>. QED BY <1>1, <1>2, <1>3, <1>4

\* Appending touches the workflow's file only.
LEMMA AppendInv ==
  ASSUME UpdateInv, AppendWorkflow
  PROVE  UpdateInv'
  <1>. USE UpdateAssumption
       DEF UpdateInv, UpdateTypeOK, Items, AppendWorkflow, Goto, Fail, Fault, NoFault,
           treeVars, flagVars, otherVars
  <1>1. UpdateTypeOK'
    <2>1. FilesTyped'
      BY DEF FilesTyped, ControlTyped
    <2>2. ControlTyped'
      BY DEF ControlTyped
    <2>3. ErrorTyped'
      BY Zenon DEF ErrorTyped
    <2>. QED BY <2>1, <2>2, <2>3
  <1>2. OriginalsHeld'
    BY DEF FilesTyped, ControlTyped, OriginalsHeld, Open
  <1>3. Progress'
    BY DEF FilesTyped, ControlTyped, Progress
  <1>4. OriginalKept'
    BY <1>2, <1>3 DEF OriginalsHeld, OriginalKept, Open
  <1>. QED BY <1>1, <1>2, <1>3, <1>4

\* Preparing touches the workspaces' outputs only.
LEMMA PrepareInv ==
  ASSUME UpdateInv, Prepare
  PROVE  UpdateInv'
  <1>. USE UpdateAssumption
       DEF UpdateInv, UpdateTypeOK, Items, Prepare, Goto, Fail, Fault, NoFault,
           treeVars, flagVars, otherVars
  <1>1. UpdateTypeOK'
    <2>1. FilesTyped'
      BY DEF FilesTyped, ControlTyped
    <2>2. ControlTyped'
      BY DEF ControlTyped
    <2>3. ErrorTyped'
      BY Zenon DEF ErrorTyped
    <2>. QED BY <2>1, <2>2, <2>3
  <1>2. OriginalsHeld'
    BY DEF FilesTyped, ControlTyped, OriginalsHeld, Open
  <1>3. Progress'
    <2>1. installed' = {} /\ 1..0 = {}
      BY DEF Progress
    <2>2. pc' \in {"prepare", "restoreWorkflow"} \/ (pc' = "backup" /\ i' = 1)
      BY DEF ControlTyped
    <2>. QED BY <2>1, <2>2 DEF Progress
  <1>4. OriginalKept'
    BY <1>2, <1>3 DEF OriginalsHeld, OriginalKept, Open
  <1>. QED BY <1>1, <1>2, <1>3, <1>4

\* An original leaves its place only for its workspace.
LEMMA BackupInv ==
  ASSUME UpdateInv, Backup
  PROVE  UpdateInv'
  <1>. USE UpdateAssumption
       DEF UpdateInv, UpdateTypeOK, Items, Backup, Goto, Fail, Fault, NoFault,
           treeVars, flagVars, otherVars
  <1>1. UpdateTypeOK'
    <2>1. FilesTyped'
      BY DEF FilesTyped, ControlTyped
    <2>2. ControlTyped'
      BY DEF ControlTyped
    <2>3. ErrorTyped'
      BY Zenon DEF ErrorTyped
    <2>. QED BY <2>1, <2>2, <2>3
  <1>2. OriginalsHeld'
    BY DEF FilesTyped, ControlTyped, OriginalsHeld, Open, Progress
  <1>3. Progress'
    BY DEF FilesTyped, ControlTyped, Progress
  <1>4. OriginalKept'
    BY <1>2, <1>3 DEF OriginalsHeld, OriginalKept, Open
  <1>. QED BY <1>1, <1>2, <1>3, <1>4

\* A new output takes a place that is empty.
LEMMA InstallInv ==
  ASSUME UpdateInv, Install
  PROVE  UpdateInv'
  <1>. USE UpdateAssumption
       DEF UpdateInv, UpdateTypeOK, Items, Install, AfterInstall, Goto, Fail,
           Fault, NoFault, treeVars, flagVars, otherVars
  <1>1. UpdateTypeOK'
    <2>1. FilesTyped'
      BY DEF FilesTyped, ControlTyped
    <2>2. ControlTyped'
      BY DEF ControlTyped, Progress
    <2>3. ErrorTyped'
      BY Zenon DEF ErrorTyped
    <2>. QED BY <2>1, <2>2, <2>3
  <1>2. OriginalsHeld'
    BY DEF FilesTyped, ControlTyped, OriginalsHeld, Open, Progress
  <1>3. Progress'
    <2>1. CASE target' = [target EXCEPT ![i] = "new"]
               /\ installed' = installed \union {i} /\ AfterInstall
      <3>1. installed' = 1..i
        BY <2>1 DEF ControlTyped, Progress
      <3>2. \A k \in 1..i : target'[k] = "new"
        BY <2>1 DEF FilesTyped, ControlTyped, Progress
      <3>3. \/ pc' = "backup" /\ i' = i + 1
            \/ pc' = "cleanup" /\ i = N
        BY <2>1 DEF ControlTyped
      <3>. QED BY <3>1, <3>2, <3>3 DEF ControlTyped, Progress
    <2>2. CASE Fail("remove", N) /\ UNCHANGED <<target, installed>>
      BY <2>2 DEF FilesTyped, ControlTyped, Progress
    <2>. QED BY <2>1, <2>2
  <1>4. OriginalKept'
    BY <1>2, <1>3 DEF OriginalsHeld, OriginalKept, Open, Progress
  <1>. QED BY <1>1, <1>2, <1>3, <1>4

\* Originals are discarded only when every output is new.
LEMMA CleanupInv ==
  ASSUME UpdateInv, Cleanup
  PROVE  UpdateInv'
  <1>. USE UpdateAssumption
       DEF UpdateInv, UpdateTypeOK, Items, Cleanup, Goto, Fault, NoFault,
           treeVars, flagVars, otherVars
  <1>1. UpdateTypeOK'
    <2>1. FilesTyped'
      BY DEF FilesTyped, ControlTyped
    <2>2. ControlTyped'
      BY DEF ControlTyped
    <2>3. ErrorTyped'
      BY Zenon DEF ErrorTyped
    <2>. QED BY <2>1, <2>2, <2>3
  <1>2. OriginalsHeld'
    BY DEF FilesTyped, ControlTyped, OriginalsHeld, Open
  <1>3. Progress'
    BY DEF FilesTyped, ControlTyped, Progress
  <1>4. OriginalKept'
    BY <1>2, <1>3 DEF OriginalsHeld, OriginalKept, Open, Progress
  <1>. QED BY <1>1, <1>2, <1>3, <1>4

\* Only new outputs are removed.
LEMMA RemoveInv ==
  ASSUME UpdateInv, Remove
  PROVE  UpdateInv'
  <1>. USE UpdateAssumption
       DEF UpdateInv, UpdateTypeOK, Items, Remove, Removable, NextBack, Goto,
           Fault, NoFault, treeVars, flagVars, otherVars
  <1>1. UpdateTypeOK'
    <2>1. FilesTyped'
      BY DEF FilesTyped, ControlTyped
    <2>2. ControlTyped'
      BY DEF ControlTyped
    <2>3. ErrorTyped'
      BY Zenon DEF ErrorTyped
    <2>. QED BY <2>1, <2>2, <2>3
  <1>2. OriginalsHeld'
    BY DEF FilesTyped, ControlTyped, OriginalsHeld, Open, Progress
  <1>3. Progress'
    BY DEF FilesTyped, ControlTyped, Progress
  <1>4. OriginalKept'
    BY <1>2, <1>3 DEF OriginalsHeld, OriginalKept, Open
  <1>. QED BY <1>1, <1>2, <1>3, <1>4

\* A backup that could not be put back stays a backup.
LEMMA PutBackInv ==
  ASSUME UpdateInv, PutBack
  PROVE  UpdateInv'
  <1>. USE UpdateAssumption
       DEF UpdateInv, UpdateTypeOK, Items, PutBack, NextBack, Goto, Fault,
           NoFault, treeVars, flagVars, otherVars
  <1>1. UpdateTypeOK'
    <2>1. FilesTyped'
      BY DEF FilesTyped, ControlTyped
    <2>2. ControlTyped'
      BY DEF ControlTyped
    <2>3. ErrorTyped'
      BY Zenon DEF ErrorTyped
    <2>. QED BY <2>1, <2>2, <2>3
  <1>2. OriginalsHeld'
    BY DEF FilesTyped, ControlTyped, OriginalsHeld, Open
  <1>3. Progress'
    BY DEF FilesTyped, ControlTyped, Progress
  <1>4. OriginalKept'
    BY <1>2, <1>3 DEF OriginalsHeld, OriginalKept, Open
  <1>. QED BY <1>1, <1>2, <1>3, <1>4

\* The sweep spares the workspaces that hold an original.
LEMMA SweepInv ==
  ASSUME UpdateInv, Sweep
  PROVE  UpdateInv'
  <1>. USE UpdateAssumption
       DEF UpdateInv, UpdateTypeOK, Items, Sweep, Kept, Goto, Fault, NoFault,
           treeVars, flagVars, otherVars
  <1>1. UpdateTypeOK'
    <2>1. FilesTyped'
      BY DEF FilesTyped, ControlTyped
    <2>2. ControlTyped'
      BY DEF ControlTyped
    <2>3. ErrorTyped'
      BY Zenon DEF ErrorTyped
    <2>. QED BY <2>1, <2>2, <2>3
  <1>2. OriginalsHeld'
    BY DEF FilesTyped, ControlTyped, OriginalsHeld, Open
  <1>3. Progress'
    BY DEF FilesTyped, ControlTyped, Progress
  <1>4. OriginalKept'
    BY <1>2, <1>3 DEF OriginalsHeld, OriginalKept, Open
  <1>. QED BY <1>1, <1>2, <1>3, <1>4

\* Restoring the workflow's file touches no output.
LEMMA RestoreWorkflowInv ==
  ASSUME UpdateInv, RestoreWorkflow
  PROVE  UpdateInv'
  <1>. USE UpdateAssumption
       DEF UpdateInv, UpdateTypeOK, Items, RestoreWorkflow, Goto, Fault,
           NoFault, treeVars, flagVars, otherVars
  <1>1. UpdateTypeOK'
    <2>1. FilesTyped'
      BY DEF FilesTyped, ControlTyped
    <2>2. ControlTyped'
      BY DEF ControlTyped
    <2>3. ErrorTyped'
      BY Zenon DEF ErrorTyped
    <2>. QED BY <2>1, <2>2, <2>3
  <1>2. OriginalsHeld'
    BY DEF FilesTyped, ControlTyped, OriginalsHeld, Open
  <1>3. Progress'
    BY DEF FilesTyped, ControlTyped, Progress
  <1>4. OriginalKept'
    BY <1>2, <1>3 DEF OriginalsHeld, OriginalKept, Open
  <1>. QED BY <1>1, <1>2, <1>3, <1>4

\* Restoring the module files touches no output.
LEMMA RestoreModulesInv ==
  ASSUME UpdateInv, RestoreModules
  PROVE  UpdateInv'
  <1>. USE UpdateAssumption
       DEF UpdateInv, UpdateTypeOK, Items, RestoreModules, Goto, Fault,
           NoFault, treeVars, flagVars, otherVars
  <1>1. UpdateTypeOK'
    <2>1. FilesTyped'
      BY DEF FilesTyped, ControlTyped
    <2>2. ControlTyped'
      BY DEF ControlTyped
    <2>3. ErrorTyped'
      BY Zenon DEF ErrorTyped
    <2>. QED BY <2>1, <2>2, <2>3
  <1>2. OriginalsHeld'
    BY DEF FilesTyped, ControlTyped, OriginalsHeld, Open
  <1>3. Progress'
    BY DEF FilesTyped, ControlTyped, Progress
  <1>4. OriginalKept'
    BY <1>2, <1>3 DEF OriginalsHeld, OriginalKept, Open
  <1>. QED BY <1>1, <1>2, <1>3, <1>4

\* Dying changes nothing, wherever it happens.
LEMMA KillInv ==
  ASSUME UpdateInv, Kill
  PROVE  UpdateInv'
  <1>. USE UpdateAssumption
       DEF UpdateInv, UpdateTypeOK, Items, Kill, Goto, treeVars, flagVars,
           otherVars
  <1>1. UpdateTypeOK'
    <2>1. FilesTyped'
      BY DEF FilesTyped, ControlTyped
    <2>2. ControlTyped'
      BY DEF ControlTyped
    <2>3. ErrorTyped'
      BY Zenon DEF ErrorTyped
    <2>. QED BY <2>1, <2>2, <2>3
  <1>2. OriginalsHeld'
    BY DEF FilesTyped, ControlTyped, OriginalsHeld, Open
  <1>3. Progress'
    BY DEF FilesTyped, ControlTyped, Progress
  <1>4. OriginalKept'
    BY <1>2, <1>3 DEF OriginalsHeld, OriginalKept, Open
  <1>. QED BY <1>1, <1>2, <1>3, <1>4

\* The invariant holds throughout.
THEOREM UpdateInvariant == Spec => []UpdateInv
  <1>1. Init => UpdateInv
    BY InitInv
  <1>2. UpdateInv /\ [Next]_vars => UpdateInv'
    <2>. SUFFICES ASSUME UpdateInv, [Next]_vars PROVE UpdateInv'
      OBVIOUS
    <2>1. CASE UNCHANGED vars
      BY <2>1 DEF vars, treeVars, flagVars, otherVars, UpdateInv, UpdateTypeOK,
                  FilesTyped, ControlTyped, ErrorTyped, OriginalsHeld,
                  Progress, OriginalKept, Open, Items
    <2>2. CASE Next
      BY <2>2, SnapshotInv, PinInv, AppendInv, PrepareInv, BackupInv,
         InstallInv, CleanupInv, RemoveInv, PutBackInv, SweepInv,
         RestoreWorkflowInv, RestoreModulesInv, KillInv DEF Next
    <2>. QED BY <2>1, <2>2
  <1>. QED BY <1>1, <1>2, PTL DEF Spec

\* Type correctness of the updater (installOutputs, rollbackInstall,
\* applyUpdate): the index stays on an item for every number of outputs.
THEOREM UpdateTypeCorrect == Spec => []UpdateTypeOK
  BY UpdateInvariant, PTL DEF UpdateInv

\* installOutputs and rollbackInstall never lose an original, whatever fails
\* and wherever the process is killed, until every output is replaced.
THEOREM OriginalsSafe == Spec => []OriginalKept
  BY UpdateInvariant, PTL DEF UpdateInv

-----------------------------------------------------------------------------
(* All or nothing                                                           *)

\* Item k as a rollback will undo it: with a backup if it existed, and in
\* place as it was if it was not touched.
Undoable(k) ==
    /\ k \in backedUp => k \in had
    /\ k \in installed /\ k \notin backedUp => k \notin had
    /\ k \notin installed /\ k \notin backedUp => target[k] = Before(k)

\* Item k once it is undone.
Undone(k) == reported \/ target[k] = Before(k)

\* Where each output stands, at every point of the swap and of its undoing:
\* what comes from i down is still to be undone, what comes after i is undone.
OutputsTracked ==
    /\ pc \in {"snapshot", "pin", "workflow", "prepare"} =>
          backedUp = {} /\ \A k \in Items : target[k] = Before(k)
    /\ pc \in {"backup", "install"} =>
          \A k \in Items : Undoable(k) /\ (k > i => k \notin backedUp)
    /\ pc = "backup" => i \notin backedUp
    /\ pc = "remove" =>
          \A k \in Items : IF k <= i THEN Undoable(k) ELSE Undone(k)
    /\ pc = "putBack" =>
          /\ \A k \in Items : IF k < i THEN Undoable(k) ELSE k > i => Undone(k)
          /\ i \in backedUp => i \in had
          /\ i \notin backedUp => target[i] = Before(i)
    /\ pc \in {"sweep", "restoreWorkflow", "restoreModules"} =>
          \A k \in Items : Undone(k)

\* Where the module files and the workflow's file stand.
OthersTracked ==
    /\ pc = "snapshot" => \A f \in ModuleFiles : modules[f] = "old"
    /\ pc \in {"snapshot", "pin", "workflow"} =>
          workflow \in {"unset", "missing", "old"}
    /\ pc \in {"prepare", "backup", "install", "cleanup"} =>
          workflow \in {"unset", "new"}
    /\ pc = "restoreModules" =>
          reported \/ workflow \in {"unset", "missing", "old"}
    /\ pc \in {"workflow", "prepare", "backup", "install", "cleanup"} =>
          \A f \in ModuleFiles : modules[f] = "new"

\* The tool is on its way to an error exactly once it is undoing.
ErrorTracked ==
    /\ pc \in {"snapshot", "pin", "workflow", "prepare", "backup", "install",
               "cleanup"} => failed = FALSE
    /\ pc \in {"remove", "putBack", "sweep", "restoreWorkflow",
               "restoreModules"} => failed = TRUE

\* The inductive invariant, relative to UpdateInv.
TrackInv == OutputsTracked /\ OthersTracked /\ ErrorTracked /\ AllOrNothing

\* Nothing has been done to begin with.
LEMMA InitTracked == Init => TrackInv
  <1>. SUFFICES ASSUME Init PROVE TrackInv
    OBVIOUS
  <1>1. OutputsTracked
    BY DEF Init, OutputsTracked
  <1>2. OthersTracked
    BY DEF Init, OthersTracked
  <1>3. ErrorTracked /\ AllOrNothing
    BY DEF Init, ErrorTracked, AllOrNothing
  <1>. QED BY <1>1, <1>2, <1>3 DEF TrackInv

\* A failed snapshot returns with everything as it was.
LEMMA SnapshotTracked ==
  ASSUME UpdateInv, TrackInv, Snapshot
  PROVE  TrackInv'
  <1>. USE UpdateAssumption
       DEF UpdateInv, UpdateTypeOK, TrackInv, Items, Snapshot, Goto, Fail,
           Fault, NoFault, treeVars, flagVars, otherVars
  <1>1. OutputsTracked'
    BY DEF FilesTyped, ControlTyped, Progress, OutputsTracked, Undoable,
           Undone, Before
  <1>2. OthersTracked'
    BY DEF FilesTyped, ControlTyped, OthersTracked
  <1>3. ErrorTracked'
    BY DEF ControlTyped, ErrorTracked
  <1>4. AllOrNothing'
    BY DEF FilesTyped, ControlTyped, Progress, OutputsTracked, OthersTracked,
           ErrorTracked, AllOrNothing, Undone, Before
  <1>. QED BY <1>1, <1>2, <1>3, <1>4

\* A failed pin leaves the module files to be restored, the rest untouched.
LEMMA PinTracked ==
  ASSUME UpdateInv, TrackInv, Pin
  PROVE  TrackInv'
  <1>. USE UpdateAssumption
       DEF UpdateInv, UpdateTypeOK, TrackInv, Items, Pin, Goto, Fail, Fault,
           NoFault, treeVars, flagVars, otherVars
  <1>1. OutputsTracked'
    BY DEF FilesTyped, ControlTyped, Progress, OutputsTracked, Undoable,
           Undone, Before
  <1>2. OthersTracked'
    BY DEF FilesTyped, ControlTyped, OthersTracked
  <1>3. ErrorTracked'
    BY DEF ControlTyped, ErrorTracked
  <1>4. AllOrNothing'
    BY DEF FilesTyped, ControlTyped, Progress, OutputsTracked, OthersTracked,
           ErrorTracked, AllOrNothing, Undone, Before
  <1>. QED BY <1>1, <1>2, <1>3, <1>4

\* A failed append leaves the workflow's file and the module files to restore.
LEMMA AppendTracked ==
  ASSUME UpdateInv, TrackInv, AppendWorkflow
  PROVE  TrackInv'
  <1>. USE UpdateAssumption
       DEF UpdateInv, UpdateTypeOK, TrackInv, Items, AppendWorkflow, Goto, Fail, Fault,
           NoFault, treeVars, flagVars, otherVars
  <1>1. OutputsTracked'
    BY DEF FilesTyped, ControlTyped, Progress, OutputsTracked, Undoable,
           Undone, Before
  <1>2. OthersTracked'
    BY DEF FilesTyped, ControlTyped, OthersTracked
  <1>3. ErrorTracked'
    BY DEF ControlTyped, ErrorTracked
  <1>4. AllOrNothing'
    BY DEF FilesTyped, ControlTyped, Progress, OutputsTracked, OthersTracked,
           ErrorTracked, AllOrNothing, Undone, Before
  <1>. QED BY <1>1, <1>2, <1>3, <1>4

\* A failed preparation has not touched an output yet.
LEMMA PrepareTracked ==
  ASSUME UpdateInv, TrackInv, Prepare
  PROVE  TrackInv'
  <1>. USE UpdateAssumption
       DEF UpdateInv, UpdateTypeOK, TrackInv, Items, Prepare, Goto, Fail,
           Fault, NoFault, treeVars, flagVars, otherVars
  <1>1. OutputsTracked'
    BY DEF FilesTyped, ControlTyped, Progress, OutputsTracked, Undoable,
           Undone, Before
  <1>2. OthersTracked'
    BY DEF FilesTyped, ControlTyped, OthersTracked
  <1>3. ErrorTracked'
    BY DEF ControlTyped, ErrorTracked
  <1>4. AllOrNothing'
    BY DEF FilesTyped, ControlTyped, Progress, OutputsTracked, OthersTracked,
           ErrorTracked, AllOrNothing, Undone, Before
  <1>. QED BY <1>1, <1>2, <1>3, <1>4

\* A backup makes its item undoable; a failed one leaves it as it was.
LEMMA BackupTracked ==
  ASSUME UpdateInv, TrackInv, Backup
  PROVE  TrackInv'
  <1>. USE UpdateAssumption
       DEF UpdateInv, UpdateTypeOK, TrackInv, Items, Backup, Goto, Fail, Fault,
           NoFault, treeVars, flagVars, otherVars
  <1>1. OutputsTracked'
    BY DEF FilesTyped, ControlTyped, Progress, OutputsTracked, Undoable,
           Undone, Before
  <1>2. OthersTracked'
    BY DEF FilesTyped, ControlTyped, OthersTracked
  <1>3. ErrorTracked'
    BY DEF ControlTyped, ErrorTracked
  <1>4. AllOrNothing'
    BY DEF FilesTyped, ControlTyped, Progress, OutputsTracked, OthersTracked,
           ErrorTracked, AllOrNothing, Undone, Before
  <1>. QED BY <1>1, <1>2, <1>3, <1>4

\* An installed output without a backup did not exist before.
LEMMA InstallTracked ==
  ASSUME UpdateInv, TrackInv, Install
  PROVE  TrackInv'
  <1>. USE UpdateAssumption
       DEF UpdateInv, UpdateTypeOK, TrackInv, Items, Install, AfterInstall,
           Goto, Fail, Fault, NoFault, treeVars, flagVars, otherVars
  <1>1. OutputsTracked'
    BY DEF FilesTyped, ControlTyped, Progress, OutputsTracked, Undoable,
           Undone, Before
  <1>2. OthersTracked'
    BY DEF FilesTyped, ControlTyped, OthersTracked
  <1>3. ErrorTracked'
    BY DEF ControlTyped, ErrorTracked
  <1>4. AllOrNothing'
    BY DEF FilesTyped, ControlTyped, Progress, OutputsTracked, OthersTracked,
           ErrorTracked, AllOrNothing, Undone, Before
  <1>. QED BY <1>1, <1>2, <1>3, <1>4

\* The cleanup ends a complete update, also when a workspace stays behind.
LEMMA CleanupTracked ==
  ASSUME UpdateInv, TrackInv, Cleanup
  PROVE  TrackInv'
  <1>. USE UpdateAssumption
       DEF UpdateInv, UpdateTypeOK, TrackInv, Items, Cleanup, Goto, Fault,
           NoFault, treeVars, flagVars, otherVars
  <1>1. OutputsTracked'
    BY DEF FilesTyped, ControlTyped, Progress, OutputsTracked, Undoable,
           Undone, Before
  <1>2. OthersTracked'
    BY DEF FilesTyped, ControlTyped, OthersTracked
  <1>3. ErrorTracked'
    BY DEF ControlTyped, ErrorTracked
  <1>4. AllOrNothing'
    BY DEF FilesTyped, ControlTyped, Progress, OutputsTracked, OthersTracked,
           ErrorTracked, AllOrNothing, Undone, Before
  <1>. QED BY <1>1, <1>2, <1>3, <1>4

\* A removal makes room for the backup, or is reported.
LEMMA RemoveTracked ==
  ASSUME UpdateInv, TrackInv, Remove
  PROVE  TrackInv'
  <1>. USE UpdateAssumption
       DEF UpdateInv, UpdateTypeOK, TrackInv, Items, Remove, Removable,
           NextBack, Goto, Fault, NoFault, treeVars, flagVars, otherVars
  <1>1. OutputsTracked'
    BY DEF FilesTyped, ControlTyped, Progress, OutputsTracked, Undoable,
           Undone, Before
  <1>2. OthersTracked'
    BY DEF FilesTyped, ControlTyped, OthersTracked
  <1>3. ErrorTracked'
    BY DEF ControlTyped, ErrorTracked
  <1>4. AllOrNothing'
    BY DEF FilesTyped, ControlTyped, Progress, OutputsTracked, OthersTracked,
           ErrorTracked, AllOrNothing, Undone, Before
  <1>. QED BY <1>1, <1>2, <1>3, <1>4

\* After the put-back the item is as it was, or the failure is reported.
LEMMA PutBackTracked ==
  ASSUME UpdateInv, TrackInv, PutBack
  PROVE  TrackInv'
  <1>. USE UpdateAssumption
       DEF UpdateInv, UpdateTypeOK, TrackInv, Items, PutBack, NextBack, Goto,
           Fault, NoFault, treeVars, flagVars, otherVars
  <1>1. OutputsTracked'
    BY DEF FilesTyped, ControlTyped, Progress, OutputsTracked, Undoable,
           Undone, Before
  <1>2. OthersTracked'
    BY DEF FilesTyped, ControlTyped, OthersTracked
  <1>3. ErrorTracked'
    BY DEF ControlTyped, ErrorTracked
  <1>4. AllOrNothing'
    BY DEF FilesTyped, ControlTyped, Progress, OutputsTracked, OthersTracked,
           ErrorTracked, AllOrNothing, Undone, Before
  <1>. QED BY <1>1, <1>2, <1>3, <1>4

\* The sweep touches no place.
LEMMA SweepTracked ==
  ASSUME UpdateInv, TrackInv, Sweep
  PROVE  TrackInv'
  <1>. USE UpdateAssumption
       DEF UpdateInv, UpdateTypeOK, TrackInv, Items, Sweep, Kept, Goto, Fault,
           NoFault, treeVars, flagVars, otherVars
  <1>1. OutputsTracked'
    BY DEF FilesTyped, ControlTyped, Progress, OutputsTracked, Undoable,
           Undone, Before
  <1>2. OthersTracked'
    BY DEF FilesTyped, ControlTyped, OthersTracked
  <1>3. ErrorTracked'
    BY DEF ControlTyped, ErrorTracked
  <1>4. AllOrNothing'
    BY DEF FilesTyped, ControlTyped, Progress, OutputsTracked, OthersTracked,
           ErrorTracked, AllOrNothing, Undone, Before
  <1>. QED BY <1>1, <1>2, <1>3, <1>4

\* The workflow's file is as it was, or the failure is reported.
LEMMA RestoreWorkflowTracked ==
  ASSUME UpdateInv, TrackInv, RestoreWorkflow
  PROVE  TrackInv'
  <1>. USE UpdateAssumption
       DEF UpdateInv, UpdateTypeOK, TrackInv, Items, RestoreWorkflow, Goto,
           Fault, NoFault, treeVars, flagVars, otherVars
  <1>1. OutputsTracked'
    BY DEF FilesTyped, ControlTyped, Progress, OutputsTracked, Undoable,
           Undone, Before
  <1>2. OthersTracked'
    BY DEF FilesTyped, ControlTyped, OthersTracked
  <1>3. ErrorTracked'
    BY DEF ControlTyped, ErrorTracked
  <1>4. AllOrNothing'
    BY DEF FilesTyped, ControlTyped, Progress, OutputsTracked, OthersTracked,
           ErrorTracked, AllOrNothing, Undone, Before
  <1>. QED BY <1>1, <1>2, <1>3, <1>4

\* The last step of a failed update: everything is restored or reported.
LEMMA RestoreModulesTracked ==
  ASSUME UpdateInv, TrackInv, RestoreModules
  PROVE  TrackInv'
  <1>. USE UpdateAssumption
       DEF UpdateInv, UpdateTypeOK, TrackInv, Items, RestoreModules, Goto,
           Fault, NoFault, treeVars, flagVars, otherVars
  <1>1. OutputsTracked'
    BY DEF FilesTyped, ControlTyped, Progress, OutputsTracked, Undoable,
           Undone, Before
  <1>2. OthersTracked'
    BY DEF FilesTyped, ControlTyped, OthersTracked
  <1>3. ErrorTracked'
    BY DEF ControlTyped, ErrorTracked
  <1>4. AllOrNothing'
    BY DEF FilesTyped, ControlTyped, Progress, OutputsTracked, OthersTracked,
           ErrorTracked, AllOrNothing, Undone, Before
  <1>. QED BY <1>1, <1>2, <1>3, <1>4

\* A killed tool does not return.
LEMMA KillTracked ==
  ASSUME UpdateInv, TrackInv, Kill
  PROVE  TrackInv'
  <1>. USE UpdateAssumption
       DEF UpdateInv, UpdateTypeOK, TrackInv, Items, Kill, Goto, treeVars,
           flagVars, otherVars
  <1>1. OutputsTracked'
    BY DEF FilesTyped, ControlTyped, Progress, OutputsTracked, Undoable,
           Undone, Before
  <1>2. OthersTracked'
    BY DEF FilesTyped, ControlTyped, OthersTracked
  <1>3. ErrorTracked'
    BY DEF ControlTyped, ErrorTracked
  <1>4. AllOrNothing'
    BY DEF FilesTyped, ControlTyped, Progress, OutputsTracked, OthersTracked,
           ErrorTracked, AllOrNothing, Undone, Before
  <1>. QED BY <1>1, <1>2, <1>3, <1>4

\* applyUpdate returns only with everything updated, everything restored, or an
\* error that says what could not be restored, for every number of outputs and
\* of failing operations, those of rollbackInstall and restoreFile included.
THEOREM RestoredOrReported == Spec => []AllOrNothing
  <1>1. Init => TrackInv
    BY InitTracked
  <1>2. UpdateInv /\ TrackInv /\ [Next]_vars => TrackInv'
    <2>. SUFFICES ASSUME UpdateInv, TrackInv, [Next]_vars PROVE TrackInv'
      OBVIOUS
    <2>1. CASE UNCHANGED vars
      BY <2>1 DEF vars, treeVars, flagVars, otherVars, TrackInv, OutputsTracked,
                  OthersTracked, ErrorTracked, AllOrNothing, Undoable, Undone,
                  Before, Items
    <2>2. CASE Next
      BY <2>2, SnapshotTracked, PinTracked, AppendTracked, PrepareTracked,
         BackupTracked, InstallTracked, CleanupTracked, RemoveTracked,
         PutBackTracked, SweepTracked, RestoreWorkflowTracked,
         RestoreModulesTracked, KillTracked DEF Next
    <2>. QED BY <2>1, <2>2
  <1>3. TrackInv => AllOrNothing
    BY DEF TrackInv
  <1>. QED BY <1>1, <1>2, <1>3, UpdateInvariant, PTL DEF Spec

=============================================================================
