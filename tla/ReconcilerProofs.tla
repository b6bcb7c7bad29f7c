-------------------------- MODULE ReconcilerProofs --------------------------
(***************************************************************************)
(* The reconcile loop for every platform configuration, every version and  *)
(* every number of edits, faults, outages and administrator operations.    *)
(*                                                                         *)
(* A status exists in four copies: on the API server, in the informer      *)
(* cache, in the pass's copy of the resource and in the status the pass is *)
(* building.  What the server's status may say rests on what every copy    *)
(* may say, because any of them may end up there.                          *)
(***************************************************************************)
EXTENDS Reconciler, StorageMigrationProofs

CondMap == [CondTypes -> ConditionSet]

-----------------------------------------------------------------------------
(* What the operators on conditions and statuses return                     *)

\* The aggregate: Ready follows Available, at the given generation, and the
\* feature condition and the two durable ones are left alone.
LEMMA AggregateReadyFacts ==
    ASSUME NEW conds \in CondMap, NEW gen \in Nat
    PROVE  LET c == AggregateReady(conds, gen)
           IN  /\ c \in CondMap
               /\ \A u \in {"Available", "Verified", "Migrated"} :
                     c[u] = conds[u]
               /\ c["Ready"].gen = gen
               /\ IsTrue(c, "Ready") <=> IsTrue(conds, "Available")
<1> DEFINE agg == AggregateReady(conds, gen)
           three(p, r, e) ==
              [[[conds EXCEPT
                  !["Provisioning"] = [status |-> p, reason |-> e, gen |-> gen]]
                EXCEPT !["Ready"] = [status |-> r, reason |-> e, gen |-> gen]]
                EXCEPT !["Degraded"] = [status |-> "False",
                                        reason |-> "NotDegraded", gen |-> gen]]
<1>1. ASSUME NEW p \in {"True", "False"}, NEW r \in {"True", "False"},
             NEW e \in Reasons
      PROVE  /\ three(p, r, e) \in CondMap
             /\ \A u \in {"Available", "Verified", "Migrated"} :
                   three(p, r, e)[u] = conds[u]
             /\ three(p, r, e)["Ready"] = [status |-> r, reason |-> e,
                                           gen |-> gen]
  BY DEF CondMap, ConditionSet, CondTypes, Reasons
<1>2. CASE ~IsTrue(conds, "Available")
  <2>1. agg = three("False", "False", "OperandDeploymentFailed")
    BY <1>2 DEF AggregateReady, MarkFalse, SetCondition
  <2> HIDE DEF agg, three
  <2>2. /\ agg \in CondMap
        /\ \A u \in {"Available", "Verified", "Migrated"} : agg[u] = conds[u]
        /\ agg["Ready"] = [status |-> "False",
                           reason |-> "OperandDeploymentFailed", gen |-> gen]
    BY <1>1, <2>1 DEF Reasons
  <2>3. agg["Ready"].gen = gen /\ ~IsTrue(agg, "Ready")
    BY <2>2 DEF IsTrue
  <2> QED BY <1>2, <2>2, <2>3 DEF agg
<1>3. CASE IsTrue(conds, "Available")
  <2>1. agg = three("True", "True", "Available")
    BY <1>3 DEF AggregateReady, MarkFalse, MarkTrue, MarkTrueWithReason,
                SetCondition, FeatureTypes, IsTrue
  <2> HIDE DEF agg, three
  <2>2. /\ agg \in CondMap
        /\ \A u \in {"Available", "Verified", "Migrated"} : agg[u] = conds[u]
        /\ agg["Ready"] = [status |-> "True", reason |-> "Available",
                           gen |-> gen]
    BY <1>1, <2>1 DEF Reasons
  <2>3. agg["Ready"].gen = gen /\ IsTrue(agg, "Ready")
    BY <2>2 DEF IsTrue
  <2> QED BY <1>3, <2>2, <2>3 DEF agg
<1> QED BY <1>2, <1>3

\* What a status keeps when only its conditions change.
SameButConds(s, status) ==
    /\ s.obs = status.obs /\ s.phase = status.phase
    /\ s.releases = status.releases
    /\ s.name = status.name /\ s.version = status.version

\* Available is False for the reason, and Ready with it.
LEMMA UnavailableFacts ==
    ASSUME NEW status \in StatusSet, NEW reason \in Reasons, orig.gen \in Nat
    PROVE  LET s == Unavailable(status, reason)
           IN  /\ s \in StatusSet /\ SameButConds(s, status)
               /\ s.conds["Available"] = [status |-> "False", reason |-> reason,
                                          gen |-> orig.gen]
               /\ s.conds["Ready"].gen = orig.gen /\ ~IsTrue(s.conds, "Ready")
               /\ \A u \in {"Verified", "Migrated"} :
                     s.conds[u] = status.conds[u]
<1> DEFINE marked == MarkFalse(status.conds, orig.gen, "Available", reason)
           agg == AggregateReady(marked, orig.gen)
           s == Unavailable(status, reason)
<1>1. status.conds \in CondMap
  BY DEF StatusSet, CondMap
<1>2. /\ marked \in CondMap
      /\ marked["Available"] = [status |-> "False", reason |-> reason,
                                gen |-> orig.gen]
      /\ \A u \in {"Verified", "Migrated"} : marked[u] = status.conds[u]
  BY <1>1 DEF MarkFalse, SetCondition, CondMap, ConditionSet, CondTypes
<1>3. s = [status EXCEPT !.conds = agg]
  BY DEF Unavailable
<1> HIDE DEF marked
<1>4. ~IsTrue(marked, "Available")
  BY <1>2 DEF IsTrue
<1>5. /\ agg \in CondMap
      /\ \A u \in {"Available", "Verified", "Migrated"} : agg[u] = marked[u]
      /\ agg["Ready"].gen = orig.gen /\ ~IsTrue(agg, "Ready")
  BY <1>2, <1>4, AggregateReadyFacts
<1> HIDE DEF agg, s
<1>6. s \in StatusSet /\ s.conds = agg /\ SameButConds(s, status)
  BY <1>3, <1>5 DEF StatusSet, CondMap, SameButConds
<1> QED BY <1>2, <1>5, <1>6 DEF s

\* What Advance makes of the status it is given.
Advanced(status) ==
    SetDistribution([status EXCEPT !.conds = AggregateReady(
                        MarkTrue(@, orig.gen, "Available"), orig.gen)], pcfg)

\* Available and Ready are True, and the distribution is the one read.
LEMMA AdvancedFacts ==
    ASSUME NEW status \in StatusSet, orig.gen \in Nat,
           pcfg \in [available : BOOLEAN, name : Names, version : Versions]
    PROVE  LET s == Advanced(status)
           IN  /\ s \in StatusSet
               /\ s.obs = status.obs /\ s.releases = status.releases
               /\ s.version = IF pcfg.available THEN pcfg.version
                                                ELSE status.version
               /\ pcfg.available => s.name = pcfg.name
               /\ s.conds["Available"] = [status |-> "True",
                                          reason |-> "Available",
                                          gen |-> orig.gen]
               /\ s.conds["Ready"].gen = orig.gen
               /\ IsTrue(s.conds, "Available") /\ IsTrue(s.conds, "Ready")
               /\ \A u \in {"Verified", "Migrated"} :
                     s.conds[u] = status.conds[u]
<1> DEFINE marked == MarkTrue(status.conds, orig.gen, "Available")
           agg == AggregateReady(marked, orig.gen)
           t == [status EXCEPT !.conds = agg]
           s == SetDistribution(t, pcfg)
<1>1. status.conds \in CondMap
  BY DEF StatusSet, CondMap
<1>2. /\ marked \in CondMap
      /\ marked["Available"] = [status |-> "True", reason |-> "Available",
                                gen |-> orig.gen]
      /\ \A u \in {"Verified", "Migrated"} : marked[u] = status.conds[u]
  BY <1>1
  DEF MarkTrue, MarkTrueWithReason, SetCondition, CondMap, ConditionSet,
      CondTypes, Reasons
<1>3. Advanced(status) = s
  BY DEF Advanced
<1> HIDE DEF marked
<1>4. IsTrue(marked, "Available")
  BY <1>2 DEF IsTrue
<1>5. /\ agg \in CondMap
      /\ \A u \in {"Available", "Verified", "Migrated"} : agg[u] = marked[u]
      /\ agg["Ready"].gen = orig.gen
      /\ IsTrue(agg, "Available") /\ IsTrue(agg, "Ready")
  BY <1>2, <1>4, AggregateReadyFacts DEF IsTrue
<1> HIDE DEF agg
<1>6. t \in StatusSet /\ t.conds = agg /\ SameButConds(t, status)
  BY <1>5 DEF StatusSet, CondMap, SameButConds
<1> HIDE DEF t
<1>7. /\ s \in StatusSet /\ s.conds = agg
      /\ s.obs = status.obs /\ s.releases = status.releases
      /\ s.version = IF pcfg.available THEN pcfg.version ELSE status.version
      /\ pcfg.available => s.name = pcfg.name
  <2>1. CASE pcfg.available
    BY <1>6, <2>1 DEF SetDistribution, StatusSet, SameButConds
  <2>2. CASE ~pcfg.available
    BY <1>6, <2>2 DEF SetDistribution, SameButConds
  <2> QED BY <2>1, <2>2
<1> HIDE DEF s
<1> QED BY <1>2, <1>3, <1>5, <1>7

\* The marker is set and nothing else changes.
LEMMA VerifyFacts ==
    ASSUME NEW status \in StatusSet, orig.gen \in Nat
    PROVE  LET s == Verify(status)
           IN  /\ s \in StatusSet /\ SameButConds(s, status)
               /\ IsTrue(s.conds, "Verified")
               /\ \A u \in CondTypes \ {"Verified"} :
                     s.conds[u] = status.conds[u]
<1> DEFINE marked == MarkTrueWithReason(status.conds, orig.gen, "Verified",
                                        "ConversionVerified")
           s == Verify(status)
<1>1. status.conds \in CondMap
  BY DEF StatusSet, CondMap
<1>2. /\ marked \in CondMap
      /\ marked["Verified"] = [status |-> "True",
                               reason |-> "ConversionVerified",
                               gen |-> orig.gen]
      /\ \A u \in CondTypes \ {"Verified"} : marked[u] = status.conds[u]
  BY <1>1
  DEF MarkTrueWithReason, SetCondition, CondMap, ConditionSet, CondTypes,
      Reasons
<1>3. s = [status EXCEPT !.conds = marked]
  BY DEF Verify
<1> HIDE DEF marked, s
<1>4. s \in StatusSet /\ s.conds = marked /\ SameButConds(s, status)
  BY <1>2, <1>3 DEF StatusSet, CondMap, SameButConds
<1> QED BY <1>2, <1>4 DEF s, IsTrue

\* A completed removal: Available and Ready are False, the durable ones stay.
LEMMA MarkRemovedFacts ==
    ASSUME NEW conds \in CondMap, NEW gen \in Nat
    PROVE  LET c == MarkRemoved(conds, gen)
           IN  /\ c \in CondMap
               /\ c["Available"] = [status |-> "False", reason |-> "Removed",
                                    gen |-> gen]
               /\ c["Ready"].gen = gen /\ ~IsTrue(c, "Ready")
               /\ \A u \in {"Verified", "Migrated"} : c[u] = conds[u]
BY DEF MarkRemoved, MarkFalse, SetCondition, CondMap, ConditionSet, CondTypes,
       Reasons, IsTrue

\* The migration's verdict reaches the Migrated condition and no other, and a
\* pass that skipped it leaves even that one.
LEMMA MigratedFacts ==
    ASSUME NEW status \in StatusSet, orig.gen \in Nat, verdict \in Verdicts
    PROVE  LET s == Migrated(status)
           IN  /\ s \in StatusSet /\ SameButConds(s, status)
               /\ \A u \in CondTypes \ {"Migrated"} :
                     s.conds[u] = status.conds[u]
               /\ verdict = Skipped => s = status
<1>1. CASE verdict = Skipped
  BY <1>1 DEF Migrated, SameButConds
<1>2. CASE verdict # Skipped
  <2> DEFINE marked == SetCondition(status.conds, orig.gen, "Migrated",
                                    verdict.status, verdict.reason)
             s == Migrated(status)
  <2>1. verdict.status \in {"True", "False"} /\ verdict.reason \in Reasons
    BY <1>2 DEF Verdicts, Verdict, Pending, Running, Failed, GaveUp, Completed,
                Reasons
  <2>2. status.conds \in CondMap
    BY DEF StatusSet, CondMap
  <2>3. /\ marked \in CondMap
        /\ \A u \in CondTypes \ {"Migrated"} : marked[u] = status.conds[u]
    BY <2>1, <2>2 DEF SetCondition, CondMap, ConditionSet, CondTypes
  <2>4. s = [status EXCEPT !.conds = marked]
    BY <1>2 DEF Migrated
  <2> HIDE DEF marked, s
  <2>5. s \in StatusSet /\ s.conds = marked /\ SameButConds(s, status)
    BY <2>3, <2>4 DEF StatusSet, CondMap, SameButConds
  <2> QED BY <1>2, <2>3, <2>5 DEF s
<1> QED BY <1>1, <1>2

\* The deferred update: the generation is observed, the phase follows Ready,
\* and the release is in lockstep with the distribution if the config is known.
LEMMA BaseStatusFacts ==
    ASSUME NEW status \in StatusSet, orig.gen \in Nat, opVersion \in Versions
    PROVE  LET s == UpdateBaseStatus(status)
           IN  /\ s \in StatusSet
               /\ s.conds = status.conds /\ s.obs = orig.gen
               /\ s.phase = Phase(status.conds)
               /\ s.name = status.name /\ s.version = status.version
               /\ pcfg.available => /\ s.releases = Releases(status)
                                    /\ s.releases.platform = status.version
               /\ ~pcfg.available => s.releases = status.releases
<1> DEFINE rel == IF pcfg.available THEN Releases(status) ELSE status.releases
           s == UpdateBaseStatus(status)
<1>1. /\ rel \in [module : Versions, platform : Versions]
      /\ pcfg.available =>
            rel = Releases(status) /\ rel.platform = status.version
      /\ ~pcfg.available => rel = status.releases
  BY DEF Releases, StatusSet
<1>2. Phase(status.conds) \in {"", "Ready", "NotReady"}
  BY DEF Phase
<1>3. s = [status EXCEPT !.obs = orig.gen, !.phase = Phase(status.conds),
                         !.releases = rel]
  BY DEF UpdateBaseStatus
<1> HIDE DEF rel, s
<1>4. s = [conds |-> status.conds, obs |-> orig.gen,
           phase |-> Phase(status.conds), releases |-> rel,
           name |-> status.name, version |-> status.version]
  BY <1>3 DEF StatusSet
<1>5. s \in StatusSet
  BY <1>1, <1>2, <1>4 DEF StatusSet
<1>6. /\ s.conds = status.conds /\ s.obs = orig.gen
      /\ s.phase = Phase(status.conds) /\ s.releases = rel
      /\ s.name = status.name /\ s.version = status.version
  BY <1>4
<1> QED BY <1>1, <1>5, <1>6 DEF s

\* Every field of the merged status is the pass's or the server's; the
\* server's version only where the pass has not changed it.
LEMMA MergePatchFacts ==
    ASSUME NEW o \in StatusSet, NEW w \in StatusSet, NEW c \in StatusSet,
           NEW rewrite \in BOOLEAN
    PROVE  LET m == MergePatch(o, w, c, rewrite)
           IN  /\ m \in StatusSet
               /\ m.conds = w.conds \/ (m.conds = c.conds /\ w.conds = o.conds)
               /\ m.obs = w.obs \/ m.obs = c.obs
               /\ m.releases = w.releases \/ m.releases = c.releases
               /\ m.version = IF w.version # o.version THEN w.version
                                                       ELSE c.version
BY DEF MergePatch, Merge, StatusSet

\* The platform config that a pass reads is a version and a name, and the
\* version is never empty.
LEMMA PlatformConfigFacts ==
    ASSUME config \in ConfigMaps, opVersion \in {OldVersion, NewVersion}
    PROVE  /\ PlatformConfig \in
                  [available : BOOLEAN, name : Names, version : Versions]
           /\ PlatformConfig.available = TRUE
           /\ PlatformConfig.version # ""
<1>1. opVersion # "" /\ opVersion \in Versions
  BY ReconcilerAssumption DEF Versions
<1>2. /\ config.version \in Versions /\ config.platformVersion \in Versions
      /\ config.name \in Names
  BY DEF Versions, Names
<1>3. "Standalone" \in Names
  BY DEF Names
<1> QED BY <1>1, <1>2, <1>3 DEF PlatformConfig, FirstOf

-----------------------------------------------------------------------------
(* The migration component inside the pass                                  *)

\* What every step of the migration component but its own leaves alone.
migRest == <<served, mpc, attempt, verdict, adminOps, creates, succeeded>>

\* A step of the pass that is no migration call may meet a fault.
LEMMA MigInvFaults ==
    ASSUME MigInv, UNCHANGED migOnly, NoFault \/ Fault
    PROVE  MigInv'
BY MigrationAssumption
DEF migOnly, NoFault, Fault, MigInv, MigOK, CountCarried, SuccessObserved

\* Whoever deletes the object outside the retry cycle loses the count.
LEMMA MigInvLost ==
    ASSUME MigInv, svm # NoSVM, svm' = NoSVM, CountLost(ObjectCounts),
           NoFault \/ Fault, UNCHANGED migRest
    PROVE  MigInv'
<1>1. svm \in SVMs /\ svm.attempt \in Nat
  BY DEF MigInv, MigOK, SVMs
<1>2. budget' = IF svm.attempt > 0 THEN budget + MaxRetries ELSE budget
  BY DEF CountLost, ObjectCounts
<1>3. MigOK'
  BY <1>2, MigrationAssumption, SVMFacts
  DEF NoFault, Fault, MigInv, MigOK, migRest
<1>4. CountCarried'
  BY <1>1, <1>2, MigrationAssumption, SVMFacts
  DEF MigInv, MigOK, CountCarried, migRest
<1>5. SuccessObserved'
  BY SVMFacts DEF MigInv, SuccessObserved, migRest
<1> QED BY <1>3, <1>4, <1>5 DEF MigInv

\* A step that loses nothing.
LEMMA MigInvKept ==
    ASSUME MigInv, svm' = svm, CountLost(FALSE), NoFault \/ Fault,
           UNCHANGED migRest
    PROVE  MigInv'
<1>1. UNCHANGED migOnly
  BY DEF CountLost, migRest, migOnly
<1> QED BY <1>1, MigInvFaults

\* The component's invariant holds whatever the pass and the world do.
LEMMA RecMigNext ==
    ASSUME MigInv, TypeOK, [Next]_vars
    PROVE  MigInv'
<1>1. CASE StartPass \/ RemoveOwned \/ Deploy \/ Collect \/ PatchStatus
  <2>1. UNCHANGED migOnly
    BY <1>1 DEF StartPass, RemoveOwned, Deploy, Collect, PatchStatus
  <2>2. NoFault \/ Fault
    BY <1>1 DEF StartPass, RemoveOwned, Deploy, Collect, PatchStatus, SweepFails
  <2> QED BY <2>1, <2>2, MigInvFaults
<1>2. CASE RemoveMigration
  <2>1. UNCHANGED migRest
    BY <1>2 DEF RemoveMigration, migRest
  <2>2. CASE MigRemove /\ (NoFault \/ Fault)
    <3>1. CASE served /\ svm # NoSVM
      BY <2>1, <2>2, <3>1, MigInvLost DEF MigRemove, CountLost
    <3>2. CASE ~(served /\ svm # NoSVM)
      <4>1. svm' = svm /\ CountLost(FALSE)
        BY <2>2, <3>2, SVMFacts DEF MigRemove, CountLost, ObjectCounts
      <4> QED BY <2>1, <2>2, <4>1, MigInvKept
    <3> QED BY <3>1, <3>2
  <2>3. CASE UNCHANGED <<svm, budget>> /\ Fault
    BY <2>1, <2>3, MigInvKept DEF CountLost
  <2> QED BY <1>2, <2>2, <2>3 DEF RemoveMigration
<1>3. CASE SkipConversion
  <2>1. MigEnter(IsTrue(work.conds, "Migrated"))
    BY <1>3 DEF SkipConversion, Advance
  <2>2. IsTrue(work.conds, "Migrated") \in BOOLEAN
    BY DEF IsTrue
  <2> QED BY <2>1, <2>2, MigEnterInv
<1>4. CASE CheckConversion
  <2>1. CASE Advance(Verify(work))
    <3>1. MigEnter(IsTrue(Verify(work).conds, "Migrated"))
      BY <2>1 DEF Advance
    <3>2. IsTrue(Verify(work).conds, "Migrated") \in BOOLEAN
      BY DEF IsTrue
    <3> QED BY <3>1, <3>2, MigEnterInv
  <2>2. CASE /\ IF conv = "ok" THEN Fault ELSE NoFault
             /\ UNCHANGED migOnly
    BY <2>2, MigInvFaults
  <2> QED BY <1>4, <2>1, <2>2 DEF CheckConversion
<1>5. CASE Migrate
  BY <1>5, MigStepInv DEF Migrate
<1>6. CASE MigrateDone \/ Restart
  <2>1. MigLeave /\ (NoFault \/ Fault)
    BY <1>6 DEF MigrateDone, Restart
  <2>2. faults' \in 0..MaxFaults
    BY <2>1, MigrationAssumption DEF NoFault, Fault, MigInv, MigOK
  <2> QED BY <2>1, <2>2, MigLeaveInv
<1>7. CASE OwnerCollect
  <2>1. UNCHANGED migRest /\ NoFault
    BY <1>7 DEF OwnerCollect, migRest, NoFault
  <2>2. CASE Owned(svm)
    <3>1. svm # NoSVM
      BY <2>2, SVMFacts DEF Owned
    <3>2. svm' = NoSVM /\ CountLost(ObjectCounts)
      BY <1>7, <2>2 DEF OwnerCollect, CountLost, Owned, ObjectCounts
    <3> QED BY <2>1, <3>1, <3>2, MigInvLost
  <2>3. CASE ~Owned(svm)
    BY <1>7, <2>1, <2>3, MigInvKept DEF OwnerCollect, CountLost
  <2> QED BY <2>2, <2>3
<1>8. CASE MigrationWorld
  BY <1>8, MigratorInv, ServeInv, AdminInv DEF MigrationWorld
<1>9. CASE \/ CacheSync \/ DeploymentSync \/ OtherEvent \/ EditResource
           \/ ConfigChange \/ Rollout \/ PodsDown \/ Conversion
           \/ UNCHANGED vars
  <2>1. UNCHANGED migVars
    BY <1>9 DEF CacheSync, DeploymentSync, OtherEvent, EditResource,
                ConfigChange, Rollout, PodsDown, Conversion, vars
  <2>2. UNCHANGED migOnly /\ NoFault
    BY <2>1 DEF migVars, migOnly, NoFault
  <2> QED BY <2>2, MigInvFaults
<1> QED
  BY <1>1, <1>2, <1>3, <1>4, <1>5, <1>6, <1>7, <1>8, <1>9 DEF Next, Pass, World

-----------------------------------------------------------------------------
(* Type correctness                                                         *)

CopiesTyped ==
    cr \in CRSet /\ cache \in CRSet /\ orig \in CRSet /\ work \in StatusSet

PassTyped ==
    /\ queued \in BOOLEAN /\ retry \in BOOLEAN
    /\ pc \in Steps /\ result \in {"none", "requeue", "error"}
    /\ pcfg \in [available : BOOLEAN, name : Names, version : Versions]

WorldTyped ==
    /\ config \in ConfigMaps /\ opVersion \in {OldVersion, NewVersion}
    /\ dep \in DeploymentSet
    /\ depSeen \in {"NotFound", "NotReady", "Available"}
    /\ conv \in {"ok", "broken"} /\ leftover \in BOOLEAN

BoundsTyped ==
    /\ userOps \in 0..MaxUserOps /\ configOps \in 0..MaxConfigOps
    /\ outages \in 0..MaxOutages /\ ghosts \in 0..MaxGhosts

HistoryTyped == listed \in BOOLEAN /\ verified \subseteq Versions

\* The migration runs only inside the pass's last part.
MigrationInPass == mpc # "out" => pc = "migrate"

\* TypeOK is its parts.
LEMMA TypeParts ==
    TypeOK <=> /\ MigOK /\ CopiesTyped /\ PassTyped /\ WorldTyped
               /\ BoundsTyped /\ HistoryTyped /\ MigrationInPass
BY Zenon DEF TypeOK, CopiesTyped, PassTyped, WorldTyped, BoundsTyped,
             HistoryTyped, MigrationInPass

\* The steps that leave every copy of the status and the config of the pass
\* alone.
Quiet ==
    \/ RemoveOwned \/ Migrate \/ DeploymentSync \/ OtherEvent \/ OwnerCollect
    \/ ConfigChange \/ Rollout \/ PodsDown \/ Conversion \/ MigrationWorld
    \/ UNCHANGED vars

\* They do.
LEMMA QuietFacts == Quiet => UNCHANGED <<cr, cache, orig, work, pcfg>>
BY DEF Quiet, RemoveOwned, Conclude, Migrate, DeploymentSync, OtherEvent,
       OwnerCollect, ConfigChange, Rollout, PodsDown, Conversion,
       MigrationWorld, vars, crVars, passVars

\* Every step is a quiet one or one of these.
LEMMA NextCases ==
    ASSUME [Next]_vars
    PROVE  \/ Quiet \/ StartPass \/ RemoveMigration \/ Deploy \/ Collect
           \/ SkipConversion \/ CheckConversion \/ MigrateDone \/ PatchStatus
           \/ CacheSync \/ EditResource \/ Restart
BY DEF Next, Pass, World, Quiet

\* A pass begins, or nothing of the pass changes.
LEMMA StartPassFacts ==
    ASSUME StartPass
    PROVE  /\ UNCHANGED <<cr, cache>>
           /\ \/ UNCHANGED passVars
              \/ /\ pc = "idle" /\ cache.there
                 /\ pc' = IF WantsRemoval(cache) THEN "removeOwned" ELSE "deploy"
                 /\ orig' = cache /\ work' = cache.status
                 /\ pcfg' \in {PlatformConfig, NoConfig}
                 /\ UNCHANGED <<retry, result>>
BY DEF StartPass, crVars

\* The failures of a pass with the operand.
FailReasons == {"DeployFailed", "DeploymentNotReady", "GarbageCollectionFailed",
                "ConversionCheckFailed"}

\* Deploying and collecting end the pass with Available False, or go on.
LEMMA FailingSteps ==
    ASSUME Deploy \/ Collect
    PROVE  /\ UNCHANGED <<cr, cache, orig, pcfg>>
           /\ \/ work' = work
              \/ \E r \in FailReasons : work' = Unavailable(work, r)
BY DEF Deploy, Collect, Conclude, FailReasons, crVars

\* The gate ends the pass with Available False, or passes.
LEMMA GateSteps ==
    ASSUME CheckConversion
    PROVE  /\ UNCHANGED <<cr, cache, orig, pcfg>>
           /\ \/ work' = Unavailable(work, "ConversionCheckFailed")
                 /\ pc' = "patch" /\ UNCHANGED historyVars
              \/ work' = Advanced(Verify(work)) /\ pc' = "migrate"
                 /\ MigEnter(IsTrue(Verify(work).conds, "Migrated"))
                 /\ listed' = TRUE
                 /\ verified' = verified \union
                       (IF pcfg.available THEN {pcfg.version} ELSE {})
BY DEF CheckConversion, Conclude, Advance, Advanced, crVars

\* The empty status and the absent resource have their types.
LEMMA EmptyFacts ==
    /\ EmptyStatus \in StatusSet /\ NoCR \in CRSet
    /\ NoConfig \in [available : BOOLEAN, name : Names, version : Versions]
    /\ NoCR.status = EmptyStatus /\ NoCR.gen = 0 /\ ~NoCR.there
    /\ EmptyStatus.version = "" /\ EmptyStatus.releases.platform = ""
    /\ EmptyStatus.obs = 0
    /\ \A t \in CondTypes : /\ ~IsTrue(EmptyStatus.conds, t)
                           /\ EmptyStatus.conds[t].reason = "None"
                           /\ EmptyStatus.conds[t].gen = 0
<1>1. EmptyConditions \in [CondTypes -> ConditionSet]
  BY DEF EmptyConditions, AbsentCondition, ConditionSet, Reasons
<1>2. "" \in Versions /\ "" \in Names
  BY DEF Versions, Names
<1>3. NoReleases \in [module : Versions, platform : Versions]
  BY <1>2 DEF NoReleases
<1>4. EmptyStatus \in StatusSet
  BY <1>1, <1>2, <1>3 DEF EmptyStatus, StatusSet
<1>5. NoCR \in CRSet
  BY <1>4 DEF NoCR, CRSet
<1>6. NoConfig \in [available : BOOLEAN, name : Names, version : Versions]
  BY <1>2 DEF NoConfig
<1>7. /\ NoCR.status = EmptyStatus /\ NoCR.gen = 0 /\ ~NoCR.there
      /\ EmptyStatus.version = "" /\ EmptyStatus.releases.platform = ""
      /\ EmptyStatus.obs = 0 /\ EmptyStatus.conds = EmptyConditions
  BY DEF NoCR, EmptyStatus, NoReleases
<1>8. \A t \in CondTypes : /\ ~IsTrue(EmptyConditions, t)
                          /\ EmptyConditions[t].reason = "None"
                          /\ EmptyConditions[t].gen = 0
  BY DEF EmptyConditions, AbsentCondition, IsTrue
<1> QED BY <1>4, <1>5, <1>6, <1>7, <1>8

\* The status patch, when it reaches the server.
LEMMA PatchStatusFacts ==
    ASSUME TypeOK, PatchStatus
    PROVE  /\ Idle /\ UNCHANGED <<cache, dep, leftover, verified, listed>>
           /\ \/ cr' = cr
              \/ /\ cr.there
                 /\ \E rewrite \in BOOLEAN :
                       cr' = [cr EXCEPT !.status = MergePatch(orig.status,
                                 UpdateBaseStatus(work), cr.status, rewrite)]
<1>1. FreeText(work.conds) \in BOOLEAN
  BY DEF FreeText
<1> QED BY <1>1 DEF PatchStatus, PatchedCR, worldVars, historyVars

\* A resource with another status.
LEMMA WithStatus ==
    ASSUME NEW c \in CRSet, NEW s \in StatusSet
    PROVE  LET d == [c EXCEPT !.status = s]
           IN  /\ d \in CRSet /\ d.status = s
               /\ d.there = c.there /\ d.state = c.state /\ d.gen = c.gen
BY DEF CRSet

\* The fields of a resource.
LEMMA CRFields ==
    ASSUME NEW c \in CRSet
    PROVE  /\ c.status \in StatusSet /\ c.gen \in Nat /\ c.there \in BOOLEAN
           /\ c.state \in {"Managed", "Removed"}
BY DEF CRSet

\* An edit of managementState: the other state, the next generation.
LEMMA EditFacts ==
    ASSUME NEW c \in CRSet
    PROVE  LET d == [c EXCEPT
                       !.state = IF @ = "Managed" THEN "Removed" ELSE "Managed",
                       !.gen = @ + 1]
           IN  /\ d \in CRSet /\ d.there = c.there /\ d.gen = c.gen + 1
               /\ d.status = c.status
<1> DEFINE flipped == IF c.state = "Managed" THEN "Removed" ELSE "Managed"
           next == c.gen + 1
           d == [c EXCEPT !.state = flipped, !.gen = next]
<1>1. flipped \in {"Managed", "Removed"} /\ next \in Nat
  BY CRFields
<1> HIDE DEF flipped, next
<1>2. d \in CRSet /\ d.there = c.there /\ d.gen = next /\ d.status = c.status
  BY <1>1 DEF CRSet
<1> QED BY <1>2 DEF flipped, next

\* The copies keep their type.
LEMMA CopiesTypedNext ==
    ASSUME MigInv, TypeOK, [Next]_vars
    PROVE  CopiesTyped'
<1> USE DEF CopiesTyped
<1>t. CopiesTyped /\ PassTyped /\ WorldTyped
  BY TypeParts
<1>g. orig.gen \in Nat
  BY <1>t, CRFields
<1>v. opVersion \in Versions
  BY <1>t DEF WorldTyped, Versions
<1>p. pcfg \in [available : BOOLEAN, name : Names, version : Versions]
  BY <1>t DEF PassTyped
<1>1. CASE Quiet
  BY <1>1, <1>t, QuietFacts
<1>2. CASE StartPass
  BY <1>2, <1>t, StartPassFacts, CRFields DEF passVars
<1>3. CASE RemoveMigration
  <2> DEFINE removed == [work EXCEPT !.conds = MarkRemoved(@, orig.gen)]
  <2>1. UNCHANGED <<cr, cache, orig>> /\ work' \in {work, removed}
    BY <1>3 DEF RemoveMigration, Conclude, crVars
  <2>2. work.conds \in CondMap
    BY <1>t DEF StatusSet, CondMap
  <2>3. MarkRemoved(work.conds, orig.gen) \in [CondTypes -> ConditionSet]
    BY <1>g, <2>2, MarkRemovedFacts DEF CondMap
  <2>4. removed \in StatusSet
    BY <1>t, <2>3 DEF StatusSet
  <2> HIDE DEF removed
  <2> QED BY <1>t, <2>1, <2>4
<1>4. CASE Deploy \/ Collect
  <2>1. FailReasons \subseteq Reasons
    BY DEF FailReasons, Reasons
  <2> QED BY <1>4, <1>t, <1>g, <2>1, FailingSteps, UnavailableFacts
<1>5. CASE SkipConversion
  <2>1. UNCHANGED <<cr, cache, orig>> /\ work' = Advanced(work)
    BY <1>5 DEF SkipConversion, Advance, Advanced, crVars
  <2> QED BY <1>t, <1>g, <1>p, <2>1, AdvancedFacts
<1>6. CASE CheckConversion
  <2>1. "ConversionCheckFailed" \in Reasons
    BY DEF Reasons
  <2>2. Verify(work) \in StatusSet
    BY <1>t, <1>g, VerifyFacts
  <2>3. Unavailable(work, "ConversionCheckFailed") \in StatusSet
    BY <1>t, <1>g, <2>1, UnavailableFacts
  <2>4. Advanced(Verify(work)) \in StatusSet
    BY <1>g, <1>p, <2>2, AdvancedFacts
  <2> QED BY <1>6, <1>t, <2>3, <2>4, GateSteps
<1>7. CASE MigrateDone
  <2>1. UNCHANGED <<cr, cache, orig>> /\ work' = Migrated(work)
    BY <1>7 DEF MigrateDone, Conclude, crVars
  <2>2. verdict \in Verdicts
    BY DEF MigInv, MigOK
  <2> QED BY <1>t, <1>g, <2>1, <2>2, MigratedFacts
<1>8. CASE PatchStatus
  <2>1. UpdateBaseStatus(work) \in StatusSet
    BY <1>t, <1>g, <1>v, BaseStatusFacts
  <2>2. ASSUME NEW rewrite \in BOOLEAN
        PROVE  [cr EXCEPT !.status = MergePatch(orig.status,
                   UpdateBaseStatus(work), cr.status, rewrite)] \in CRSet
    <3> DEFINE m == MergePatch(orig.status, UpdateBaseStatus(work), cr.status,
                               rewrite)
    <3>1. m \in StatusSet
      BY <1>t, <2>1, CRFields, MergePatchFacts
    <3> HIDE DEF m
    <3> QED BY <1>t, <3>1, WithStatus DEF m
  <2>3. cr' \in CRSet
    BY <1>8, <1>t, <2>2, PatchStatusFacts
  <2> QED BY <1>8, <1>t, <2>3, PatchStatusFacts, EmptyFacts DEF Idle
<1>9. CASE CacheSync
  BY <1>9, <1>t DEF CacheSync, passVars
<1>10. CASE EditResource
  <2>1. cr' \in CRSet
    <3>1. [cr EXCEPT !.state = IF @ = "Managed" THEN "Removed" ELSE "Managed",
                     !.gen = @ + 1] \in CRSet
      BY <1>t, EditFacts
    <3> QED BY <1>10, <3>1, EmptyFacts DEF EditResource
  <2> QED BY <1>10, <1>t, <2>1 DEF EditResource, passVars
<1>11. CASE Restart
  BY <1>11, <1>t, EmptyFacts DEF Restart, Idle
<1> QED BY <1>1, <1>2, <1>3, <1>4, <1>5, <1>6, <1>7, <1>8, <1>9, <1>10, <1>11,
           NextCases

\* The pass's own variables keep their type.
LEMMA PassTypedNext ==
    ASSUME MigInv, TypeOK, [Next]_vars
    PROVE  PassTyped'
<1>t. PassTyped /\ WorldTyped
  BY TypeParts
<1>c. /\ PlatformConfig \in
            [available : BOOLEAN, name : Names, version : Versions]
      /\ NoConfig \in [available : BOOLEAN, name : Names, version : Versions]
  BY <1>t, PlatformConfigFacts, EmptyFacts DEF WorldTyped
<1>1. queued' \in BOOLEAN
  <2>1. \/ queued' = queued \/ queued' = TRUE \/ queued' = FALSE
        \/ queued' = (queued \/ Requeues)
    BY Zenon
    DEF Next, Pass, World, StartPass, RemoveOwned, RemoveMigration, Deploy,
        Collect, SkipConversion, CheckConversion, Migrate, MigrateDone,
        PatchStatus, CacheSync, DeploymentSync, OtherEvent, EditResource,
        OwnerCollect, ConfigChange, Rollout, PodsDown, Conversion, Restart,
        MigrationWorld, vars
  <2> QED BY <1>t, <2>1, Zenon DEF PassTyped
<1>2. CASE Quiet
  <2>1. UNCHANGED <<pcfg, retry>>
    BY <1>2 DEF Quiet, RemoveOwned, Migrate, DeploymentSync, OtherEvent,
         OwnerCollect, ConfigChange, Rollout, PodsDown, Conversion,
         MigrationWorld, vars, passVars
  <2>2. \/ UNCHANGED <<pc, result>>
        \/ pc' \in {"removeMigration", "patch"} /\ result' \in {result, "error"}
    BY <1>2 DEF Quiet, RemoveOwned, Conclude, Migrate, DeploymentSync,
         OtherEvent, OwnerCollect, ConfigChange, Rollout, PodsDown, Conversion,
         MigrationWorld, vars, passVars
  <2> QED BY <1>t, <1>1, <2>1, <2>2 DEF PassTyped, Steps
<1>3. CASE StartPass
  BY <1>3, <1>t, <1>c, <1>1, StartPassFacts DEF PassTyped, Steps, passVars
<1>4. CASE Deploy
  <2>1. retry' \in BOOLEAN
    BY <1>4, <1>t, Zenon DEF Deploy, PassTyped
  <2>2. /\ pcfg' = pcfg /\ pc' \in {"collect", "patch"}
        /\ result' \in {result, "error"}
    BY <1>4 DEF Deploy, Conclude
  <2> QED BY <1>t, <1>1, <2>1, <2>2 DEF PassTyped, Steps
<1>5. CASE RemoveMigration \/ Collect \/ SkipConversion \/ CheckConversion
  <2>1. UNCHANGED <<pcfg, retry>>
    BY <1>5 DEF RemoveMigration, Collect, SkipConversion, CheckConversion
  <2>2. /\ pc' \in {"convert", "migrate", "patch"}
        /\ result' \in {result, "none", "requeue", "error"}
    BY <1>5 DEF RemoveMigration, Collect, SkipConversion, CheckConversion,
                Advance, Conclude
  <2> QED BY <1>t, <1>1, <2>1, <2>2 DEF PassTyped, Steps
<1>6. CASE MigrateDone
  <2>1. UNCHANGED <<pcfg, retry>> /\ pc' = "patch"
        /\ result' \in {"none", "requeue"}
    BY <1>6 DEF MigrateDone, Conclude
  <2> QED BY <1>t, <1>1, <2>1 DEF PassTyped, Steps
<1>7. CASE PatchStatus \/ Restart
  <2>1. Idle
    BY <1>7 DEF PatchStatus, Restart
  <2> QED BY <1>1, <1>c, <2>1 DEF Idle, PassTyped, Steps
<1>8. CASE CacheSync \/ EditResource
  BY <1>8, <1>t, <1>1 DEF CacheSync, EditResource, passVars, PassTyped
<1> QED BY <1>2, <1>3, <1>4, <1>5, <1>6, <1>7, <1>8, NextCases

\* A Deployment keeps its type however it is changed.
LEMMA DeploymentFacts ==
    ASSUME TypeOK
    PROVE  /\ NoDeployment \in DeploymentSet /\ Applied \in DeploymentSet
           /\ [dep EXCEPT !.pod = dep.rev] \in DeploymentSet
           /\ [dep EXCEPT !.pod = ""] \in DeploymentSet
<1>1. dep \in DeploymentSet /\ opVersion \in Versions /\ "" \in Versions
  BY TypeParts DEF WorldTyped, Versions
<1> QED BY <1>1 DEF NoDeployment, Applied, DeploymentSet

\* The world keeps its type.
LEMMA WorldTypedNext ==
    ASSUME MigInv, TypeOK, [Next]_vars
    PROVE  WorldTyped'
<1>t. WorldTyped
  BY TypeParts
<1>1. dep' \in DeploymentSet
  <2>1. \/ dep' = dep \/ dep' = NoDeployment \/ dep' = Applied
        \/ dep' = [dep EXCEPT !.pod = dep.rev] \/ dep' = [dep EXCEPT !.pod = ""]
    BY Zenon
    DEF Next, Pass, World, StartPass, RemoveOwned, RemoveMigration, Deploy,
        Collect, SkipConversion, CheckConversion, Migrate, MigrateDone,
        PatchStatus, CacheSync, DeploymentSync, OtherEvent, EditResource,
        OwnerCollect, ConfigChange, Rollout, PodsDown, Conversion, Restart,
        MigrationWorld, vars, worldVars
  <2> QED BY <1>t, <2>1, DeploymentFacts DEF WorldTyped
<1>2. leftover' \in BOOLEAN
  <2>1. \/ leftover' = leftover \/ leftover' = FALSE
        \/ leftover' = (leftover \/ dep.rev # "")
    BY Zenon
    DEF Next, Pass, World, StartPass, RemoveOwned, RemoveMigration, Deploy,
        Collect, Swept, SweepFails, SkipConversion, CheckConversion, Migrate,
        MigrateDone, PatchStatus, CacheSync, DeploymentSync, OtherEvent,
        EditResource, OwnerCollect, ConfigChange, Rollout, PodsDown,
        Conversion, Restart, MigrationWorld, vars, worldVars
  <2> QED BY <1>t, <2>1, Zenon DEF WorldTyped
<1>3. /\ config' \in ConfigMaps
      /\ opVersion' \in {OldVersion, NewVersion}
      /\ depSeen' \in {"NotFound", "NotReady", "Available"}
      /\ conv' \in {"ok", "broken"}
  <2>1. /\ config' = config \/ config' \in ConfigMaps
        /\ opVersion' = opVersion \/ opVersion' = NewVersion
        /\ depSeen' = depSeen \/ depSeen' = Readiness(dep)
        /\ conv' = conv \/ conv' \in {"ok", "broken"}
    BY DEF Next, Pass, World, StartPass, RemoveOwned, RemoveMigration, Deploy,
        Collect, SkipConversion, CheckConversion, Migrate,
        MigrateDone, PatchStatus, CacheSync, DeploymentSync, OtherEvent,
        EditResource, OwnerCollect, ConfigChange, Rollout, PodsDown,
        Conversion, Restart, MigrationWorld, vars, worldVars
  <2>2. Readiness(dep) \in {"NotFound", "NotReady", "Available"}
    BY DEF Readiness
  <2> QED BY <1>t, <2>1, <2>2 DEF WorldTyped
<1> QED BY <1>1, <1>2, <1>3 DEF WorldTyped

\* The bounds are respected.
LEMMA BoundsTypedNext ==
    ASSUME TypeOK, [Next]_vars
    PROVE  BoundsTyped'
<1>t. BoundsTyped
  BY TypeParts
<1>1. /\ userOps' = userOps
         \/ (userOps < MaxUserOps /\ userOps' = userOps + 1)
      /\ configOps' = configOps
         \/ (configOps < MaxConfigOps /\ configOps' = configOps + 1)
      /\ outages' = outages
         \/ (outages < MaxOutages /\ outages' = outages + 1)
      /\ ghosts' = ghosts
         \/ (ghosts < MaxGhosts /\ ghosts' = ghosts + 1)
  BY DEF Next, Pass, World, StartPass, GhostPass, RemoveOwned, RemoveMigration,
      Deploy, Collect, SkipConversion, CheckConversion, Migrate, MigrateDone,
      PatchStatus, CacheSync, DeploymentSync, OtherEvent, EditResource,
      OwnerCollect, ConfigChange, Rollout, PodsDown, OutageStarts, Conversion,
      Restart, MigrationWorld, vars, boundVars
<1>2. /\ MaxUserOps \in Nat /\ MaxConfigOps \in Nat
      /\ MaxGhosts \in Nat /\ MaxOutages \in Nat
  BY ReconcilerAssumption
<1> QED BY <1>t, <1>1, <1>2 DEF BoundsTyped

\* The history only grows: with the version of a pass that has listed.
LEMMA HistoryStep ==
    ASSUME [Next]_vars
    PROVE  \/ UNCHANGED historyVars
           \/ /\ CheckConversion /\ listed' = TRUE
              /\ verified' = verified \union
                    (IF pcfg.available THEN {pcfg.version} ELSE {})
BY DEF Next, Pass, World, StartPass, RemoveOwned, RemoveMigration,
    Deploy, Collect, SkipConversion, CheckConversion, Migrate, MigrateDone,
    PatchStatus, CacheSync, DeploymentSync, OtherEvent, EditResource,
    OwnerCollect, ConfigChange, Rollout, PodsDown, Conversion,
    Restart, MigrationWorld, vars, historyVars

\* It keeps its type.
LEMMA HistoryTypedNext ==
    ASSUME TypeOK, [Next]_vars
    PROVE  HistoryTyped'
<1>t. HistoryTyped /\ PassTyped
  BY TypeParts
<1>1. listed' = listed \/ listed' = TRUE
  BY HistoryStep DEF historyVars
<1>2. listed' \in BOOLEAN
  BY <1>t, <1>1, Zenon DEF HistoryTyped
<1>3. verified' \subseteq Versions
  BY <1>t, HistoryStep DEF HistoryTyped, PassTyped, historyVars
<1> QED BY <1>2, <1>3 DEF HistoryTyped

\* The migration's position leaves "out" and comes back with the pass.
LEMMA MigrationInPassNext ==
    ASSUME TypeOK, [Next]_vars
    PROVE  MigrationInPass'
<1>t. MigrationInPass
  BY TypeParts
<1>1. \/ pc' = pc /\ mpc' = mpc
      \/ mpc' = "out"
      \/ pc' = "migrate"
      \/ mpc' = mpc /\ pc # "migrate"
      \/ pc = "migrate" /\ pc' = pc
  BY DEF Next, Pass, World, StartPass, RemoveOwned, RemoveMigration,
    Deploy, Collect, SkipConversion, CheckConversion, Advance, Migrate,
    MigrateDone, MigLeave, PatchStatus, Idle, CacheSync, DeploymentSync,
    OtherEvent, EditResource, OwnerCollect, ConfigChange, Rollout, PodsDown,
    Conversion, Restart, MigrationWorld, Migrator, Serve, Admin, vars,
    passVars, migVars, migOnly
<1> QED BY <1>t, <1>1 DEF MigrationInPass

\* What an ungated predecessor may have left: everything but the marker.
LEMMA InheritedFacts ==
    ASSUME config \in ConfigMaps, opVersion = OldVersion
    PROVE  LET s == InheritedStatus
           IN  /\ s \in StatusSet
               /\ s.version = PlatformConfig.version
               /\ s.releases.platform = PlatformConfig.version
               /\ s.obs = 1
               /\ s.conds["Available"] = [status |-> "True",
                                          reason |-> "Available", gen |-> 1]
               /\ s.conds["Ready"].gen = 1
               /\ ~IsTrue(s.conds, "Verified") /\ ~IsTrue(s.conds, "Migrated")
<1> DEFINE marked == MarkTrue(EmptyConditions, 1, "Available")
           agg == AggregateReady(marked, 1)
           rel == [module |-> OldVersion, platform |-> PlatformConfig.version]
           s == InheritedStatus
<1>1. /\ PlatformConfig.version \in Versions /\ PlatformConfig.name \in Names
      /\ OldVersion \in Versions
  BY PlatformConfigFacts DEF Versions
<1>2. /\ marked \in CondMap
      /\ marked["Available"] = [status |-> "True", reason |-> "Available",
                                gen |-> 1]
      /\ \A u \in {"Verified", "Migrated"} : marked[u].status = "Absent"
  BY DEF MarkTrue, MarkTrueWithReason, SetCondition, EmptyConditions,
         AbsentCondition, CondMap, ConditionSet, CondTypes, Reasons
<1> HIDE DEF marked
<1>3. /\ agg \in CondMap /\ agg["Ready"].gen = 1
      /\ \A u \in {"Available", "Verified", "Migrated"} : agg[u] = marked[u]
  BY <1>2, AggregateReadyFacts
<1>4. rel \in [module : Versions, platform : Versions]
      /\ rel.platform = PlatformConfig.version
  BY <1>1
<1>5. s = [conds |-> agg, obs |-> 1, phase |-> "Ready", releases |-> rel,
           name |-> PlatformConfig.name, version |-> PlatformConfig.version]
  <2>1. EmptyStatus.conds = EmptyConditions
    BY DEF EmptyStatus
  <2>2. s = [EmptyStatus EXCEPT
              !.conds = agg, !.obs = 1, !.phase = "Ready", !.releases = rel,
              !.name = PlatformConfig.name, !.version = PlatformConfig.version]
    BY <2>1 DEF InheritedStatus, marked
  <2> HIDE DEF agg, rel, s
  <2> QED BY <2>2 DEF EmptyStatus
<1> HIDE DEF agg, rel, s
<1>6. s \in StatusSet
  BY <1>1, <1>3, <1>4, <1>5 DEF StatusSet, CondMap
<1>7. /\ s.version = PlatformConfig.version /\ s.conds = agg /\ s.obs = 1
      /\ s.releases = rel
  BY <1>5
<1>8. ~IsTrue(agg, "Verified") /\ ~IsTrue(agg, "Migrated")
  BY <1>2, <1>3 DEF IsTrue
<1> QED BY <1>2, <1>3, <1>4, <1>6, <1>7, <1>8 DEF s

\* The resource a behaviour starts from, in all its copies.
LEMMA InitFacts ==
    ASSUME Init
    PROVE  /\ cr \in CRSet /\ cr.there = TRUE /\ cr.gen = 1 /\ cache = cr
           /\ orig = NoCR /\ work = EmptyStatus /\ pc = "idle"
           /\ \/ cr.status = EmptyStatus
              \/ cr.status = InheritedStatus /\ cr.state = "Managed"
           /\ cr.status \in StatusSet
<1>1. config \in ConfigMaps /\ opVersion = OldVersion
  BY DEF Init
<1>2. EmptyStatus \in StatusSet /\ InheritedStatus \in StatusSet
  BY <1>1, InheritedFacts, EmptyFacts
<1>3. ASSUME NEW st \in {"Managed", "Removed"},
             NEW s \in {EmptyStatus, InheritedStatus},
             cr = [there |-> TRUE, state |-> st, gen |-> 1, status |-> s]
      PROVE  /\ cr \in CRSet /\ cr.there = TRUE /\ cr.gen = 1
             /\ cr.status = s /\ cr.state = st
  BY <1>2, <1>3 DEF CRSet
<1>4. \/ \E st \in {"Managed", "Removed"} :
            cr = [there |-> TRUE, state |-> st, gen |-> 1,
                  status |-> EmptyStatus]
      \/ cr = [there |-> TRUE, state |-> "Managed", gen |-> 1,
               status |-> InheritedStatus]
  BY DEF Init
<1>5. /\ cr \in CRSet /\ cr.there = TRUE /\ cr.gen = 1
      /\ \/ cr.status = EmptyStatus
         \/ cr.status = InheritedStatus /\ cr.state = "Managed"
  BY <1>3, <1>4
<1> QED BY <1>2, <1>5 DEF Init

\* The initial states are typed.
LEMMA InitTyped == Init => MigInv /\ TypeOK
<1> SUFFICES ASSUME Init PROVE MigInv /\ TypeOK
  OBVIOUS
<1>1. MigInv
  BY MigInitInv DEF Init
<1>2. CopiesTyped
  BY InitFacts, EmptyFacts DEF CopiesTyped
<1>3. PassTyped
  BY EmptyFacts DEF Init, PassTyped, Steps
<1>4. WorldTyped
  <2>1. "" \in Versions /\ OldVersion \in Versions
    BY DEF Versions
  <2>2. dep \in DeploymentSet
    <3>1. dep = NoDeployment \/ dep = [rev |-> OldVersion, pod |-> OldVersion]
      BY DEF Init
    <3>2. NoDeployment \in DeploymentSet
      BY <2>1 DEF NoDeployment, DeploymentSet
    <3>3. [rev |-> OldVersion, pod |-> OldVersion] \in DeploymentSet
      BY <2>1 DEF DeploymentSet
    <3> QED BY <3>1, <3>2, <3>3
  <2>3. depSeen \in {"NotFound", "NotReady", "Available"}
    BY DEF Init, Readiness
  <2> QED BY <2>2, <2>3 DEF Init, WorldTyped
<1>5. BoundsTyped
  <2>1. /\ MaxUserOps \in Nat /\ MaxConfigOps \in Nat
        /\ MaxGhosts \in Nat /\ MaxOutages \in Nat
    BY ReconcilerAssumption
  <2>2. userOps = 0 /\ configOps = 0 /\ outages = 0 /\ ghosts = 0
    BY DEF Init
  <2> QED BY <2>1, <2>2 DEF BoundsTyped
<1>6. HistoryTyped
  <2>1. verified = {"", cr.status.version} /\ listed = FALSE
    BY DEF Init
  <2>2. cr.status.version \in Versions /\ "" \in Versions
    BY InitFacts DEF StatusSet, Versions
  <2> QED BY <2>1, <2>2 DEF HistoryTyped
<1>7. MigrationInPass
  BY DEF Init, MigInit, MigrationInPass
<1> QED BY <1>1, <1>2, <1>3, <1>4, <1>5, <1>6, <1>7, TypeParts DEF MigInv

\* Every step keeps the types.
LEMMA NextTyped == MigInv /\ TypeOK /\ [Next]_vars => MigInv' /\ TypeOK'
<1> SUFFICES ASSUME MigInv, TypeOK, [Next]_vars PROVE MigInv' /\ TypeOK'
  OBVIOUS
<1>1. MigInv'
  BY RecMigNext
<1>2. /\ CopiesTyped' /\ PassTyped' /\ WorldTyped' /\ BoundsTyped'
      /\ HistoryTyped' /\ MigrationInPass'
  BY CopiesTypedNext, PassTypedNext, WorldTypedNext, BoundsTypedNext,
     HistoryTypedNext, MigrationInPassNext
<1>3. MigOK'
  BY <1>1 DEF MigInv
<1>4. TypeOK'
  BY <1>2, <1>3
  DEF TypeOK, CopiesTyped, PassTyped, WorldTyped, BoundsTyped, HistoryTyped,
      MigrationInPass
<1> QED BY <1>1, <1>4

\* The component's invariant and the types, together.
LEMMA RecTyped == Spec => [](MigInv /\ TypeOK)
BY InitTyped, NextTyped, PTL DEF Spec

\* Type correctness of the whole loop.
THEOREM ReconcilerTypeCorrect == Spec => []TypeOK
BY RecTyped, PTL

-----------------------------------------------------------------------------
(* The handshake is gated                                                   *)

\* A status names only versions of V, and has the marker only if l.
GatedBy(s, V, l) ==
    /\ s.version \in V /\ s.releases.platform \in V
    /\ IsTrue(s.conds, "Verified") => l

\* Every copy of the status is gated, because any of them may be patched onto
\* the server's; and the migration is entered only past the gate.
GateInv ==
    /\ GatedBy(cr.status, verified, listed)
    /\ GatedBy(cache.status, verified, listed)
    /\ GatedBy(orig.status, verified, listed)
    /\ GatedBy(work, verified, listed)
    /\ "" \in verified
    /\ pc = "migrate" => listed

\* Every verdict on the status the pass builds keeps it gated.
LEMMA GatedWork ==
    ASSUME TypeOK, MigInv, NEW V, NEW l, NEW status \in StatusSet,
           GatedBy(status, V, l)
    PROVE  /\ \A r \in Reasons : GatedBy(Unavailable(status, r), V, l)
           /\ GatedBy(Migrated(status), V, l)
           /\ GatedBy(UpdateBaseStatus(status), V, l)
           /\ ~pcfg.available \/ pcfg.version \in V
                 => GatedBy(Advanced(status), V, l)
           /\ l => GatedBy(Verify(status), V, l)
           /\ GatedBy([status EXCEPT !.conds = MarkRemoved(@, orig.gen)], V, l)
<1> USE DEF GatedBy, IsTrue
<1>t. /\ orig.gen \in Nat /\ opVersion \in Versions /\ verdict \in Verdicts
      /\ pcfg \in [available : BOOLEAN, name : Names, version : Versions]
      /\ "Verified" \in CondTypes /\ "Verified" # "Migrated"
  BY TypeParts, CRFields
  DEF CopiesTyped, WorldTyped, PassTyped, Versions, MigInv, MigOK, CondTypes
<1>1. \A r \in Reasons : GatedBy(Unavailable(status, r), V, l)
  BY <1>t, UnavailableFacts DEF SameButConds
<1>2. GatedBy(Migrated(status), V, l)
  BY <1>t, MigratedFacts DEF SameButConds
<1>3. GatedBy(UpdateBaseStatus(status), V, l)
  BY <1>t, BaseStatusFacts
<1>4. ~pcfg.available \/ pcfg.version \in V => GatedBy(Advanced(status), V, l)
  BY <1>t, AdvancedFacts
<1>5. l => GatedBy(Verify(status), V, l)
  BY <1>t, VerifyFacts DEF SameButConds
<1>6. GatedBy([status EXCEPT !.conds = MarkRemoved(@, orig.gen)], V, l)
  <2> DEFINE c == MarkRemoved(status.conds, orig.gen)
  <2>1. status.conds \in CondMap
    BY DEF StatusSet, CondMap
  <2>2. c["Verified"] = status.conds["Verified"]
    BY <1>t, <2>1, MarkRemovedFacts
  <2> HIDE DEF c
  <2>3. GatedBy([status EXCEPT !.conds = c], V, l)
    BY <2>2 DEF StatusSet
  <2> QED BY <2>3 DEF c
<1> QED BY <1>1, <1>2, <1>3, <1>4, <1>5, <1>6

\* A merge of gated statuses is gated.
LEMMA GatedMerge ==
    ASSUME NEW o \in StatusSet, NEW w \in StatusSet, NEW c \in StatusSet,
           NEW rewrite \in BOOLEAN, NEW V, NEW l,
           GatedBy(w, V, l), GatedBy(c, V, l)
    PROVE  GatedBy(MergePatch(o, w, c, rewrite), V, l)
<1> DEFINE m == MergePatch(o, w, c, rewrite)
<1>1. /\ m.conds = w.conds \/ m.conds = c.conds
      /\ m.releases = w.releases \/ m.releases = c.releases
      /\ m.version = w.version \/ m.version = c.version
  BY DEF MergePatch, Merge
<1> HIDE DEF m
<1>2. GatedBy(m, V, l)
  BY <1>1 DEF GatedBy
<1> QED BY <1>2 DEF m

\* Every step keeps the gate.
LEMMA GateNext ==
    ASSUME MigInv, TypeOK, GateInv, [Next]_vars
    PROVE  GateInv'
<1>t. CopiesTyped /\ PassTyped /\ WorldTyped
  BY TypeParts
<1>s. cr.status \in StatusSet /\ orig.status \in StatusSet /\ work \in StatusSet
  BY <1>t, CRFields DEF CopiesTyped
<1>k. listed => listed'
  BY HistoryStep DEF historyVars
<1>v. verified \subseteq verified'
  BY HistoryStep DEF historyVars
<1>m. ASSUME NEW s, GatedBy(s, verified, listed)
      PROVE  GatedBy(s, verified', listed')
  BY <1>m, <1>k, <1>v, Zenon DEF GatedBy
<1>e. "" \in verified'
  BY HistoryStep DEF GateInv, historyVars
<1>n. GatedBy(EmptyStatus, verified', listed')
  <2>1. ~IsTrue(EmptyStatus.conds, "Verified")
    BY EmptyFacts DEF CondTypes
  <2> QED BY <1>e, <2>1, EmptyFacts DEF GatedBy
<1> DEFINE Keeps(s) == GatedBy(s, verified', listed')
<1>o. /\ Keeps(cr.status) /\ Keeps(cache.status) /\ Keeps(orig.status)
      /\ Keeps(work)
  BY <1>m DEF GateInv
<1> HIDE DEF Keeps
<1> SUFFICES /\ Keeps(cr'.status) /\ Keeps(cache'.status) /\ Keeps(orig'.status)
             /\ Keeps(work') /\ (pc' = "migrate" => listed')
  BY <1>e DEF GateInv, Keeps
<1>1. CASE Quiet
  <2>1. pc' = "migrate" => pc = "migrate"
    BY <1>1 DEF Quiet, RemoveOwned, Conclude, Migrate, DeploymentSync,
         OtherEvent, OwnerCollect, ConfigChange, Rollout, PodsDown, Conversion,
         MigrationWorld, vars, passVars
  <2> QED BY <1>1, <1>o, <1>k, <2>1, QuietFacts DEF GateInv
<1>2. CASE StartPass
  BY <1>2, <1>o, <1>k, StartPassFacts DEF GateInv, passVars
<1>3. CASE RemoveMigration
  <2>1. /\ UNCHANGED <<cr, cache, orig>> /\ pc' = "patch"
        /\ work' \in {work, [work EXCEPT !.conds = MarkRemoved(@, orig.gen)]}
    BY <1>3 DEF RemoveMigration, Conclude, crVars
  <2>2. Keeps([work EXCEPT !.conds = MarkRemoved(@, orig.gen)])
    BY <1>s, <1>o, GatedWork DEF Keeps
  <2> QED BY <1>o, <2>1, <2>2
<1>4. CASE Deploy \/ Collect
  <2>1. FailReasons \subseteq Reasons
    BY DEF FailReasons, Reasons
  <2>2. \A r \in FailReasons : Keeps(Unavailable(work, r))
    BY <1>s, <1>o, <2>1, GatedWork DEF Keeps
  <2>3. pc' # "migrate"
    BY <1>4 DEF Deploy, Collect, Conclude
  <2> QED BY <1>4, <1>o, <2>2, <2>3, FailingSteps
<1>5. CASE SkipConversion
  <2>1. /\ UNCHANGED <<cr, cache, orig>> /\ work' = Advanced(work)
        /\ HandshakeSettled(work, pcfg)
    BY <1>5 DEF SkipConversion, Advance, Advanced, crVars
  <2>2. pcfg.version \in verified' /\ listed'
    BY <1>o, <2>1 DEF HandshakeSettled, Keeps, GatedBy
  <2>3. Keeps(work')
    BY <1>s, <1>o, <2>1, <2>2, GatedWork DEF Keeps
  <2> QED BY <1>o, <2>1, <2>2, <2>3
<1>6. CASE CheckConversion
  <2>1. CASE work' = Unavailable(work, "ConversionCheckFailed") /\ pc' = "patch"
    <3>1. "ConversionCheckFailed" \in Reasons
      BY DEF Reasons
    <3>2. Keeps(work')
      BY <1>s, <1>o, <2>1, <3>1, GatedWork DEF Keeps
    <3> QED BY <1>6, <1>o, <2>1, <3>2, GateSteps
  <2>2. CASE /\ work' = Advanced(Verify(work))
             /\ listed' = TRUE
             /\ verified' = verified \union
                   (IF pcfg.available THEN {pcfg.version} ELSE {})
    <3>1. listed' /\ (~pcfg.available \/ pcfg.version \in verified')
      BY <2>2
    <3>2. Verify(work) \in StatusSet
      BY <1>s, <1>t, VerifyFacts, CRFields DEF CopiesTyped
    <3>3. GatedBy(Verify(work), verified', listed')
      BY <1>s, <1>o, <3>1, GatedWork DEF Keeps
    <3>4. Keeps(work')
      BY <2>2, <3>1, <3>2, <3>3, GatedWork DEF Keeps
    <3> QED BY <1>6, <1>o, <3>1, <3>4, GateSteps
  <2> QED BY <1>6, <2>1, <2>2, GateSteps
<1>7. CASE MigrateDone
  <2>1. /\ UNCHANGED <<cr, cache, orig>> /\ work' = Migrated(work)
        /\ pc' = "patch"
    BY <1>7 DEF MigrateDone, Conclude, crVars
  <2>2. Keeps(work')
    BY <1>s, <1>o, <2>1, GatedWork DEF Keeps
  <2> QED BY <1>o, <2>1, <2>2
<1>8. CASE PatchStatus
  <2>1. /\ pc' = "idle" /\ orig' = NoCR /\ work' = EmptyStatus /\ cache' = cache
    BY <1>8, PatchStatusFacts DEF Idle
  <2>2. CASE cr' = cr
    BY <1>n, <1>o, <2>1, <2>2, EmptyFacts DEF Keeps
  <2>3. ASSUME NEW rewrite \in BOOLEAN,
               cr' = [cr EXCEPT !.status = MergePatch(orig.status,
                         UpdateBaseStatus(work), cr.status, rewrite)]
        PROVE  Keeps(cr'.status)
    <3>1. UpdateBaseStatus(work) \in StatusSet
          /\ Keeps(UpdateBaseStatus(work))
      BY <1>s, <1>t, <1>o, GatedWork, BaseStatusFacts, CRFields
      DEF Keeps, CopiesTyped, WorldTyped, Versions
    <3> DEFINE m == MergePatch(orig.status, UpdateBaseStatus(work), cr.status,
                               rewrite)
    <3>2. m \in StatusSet /\ Keeps(m)
      BY <1>s, <1>o, <3>1, GatedMerge, MergePatchFacts DEF Keeps
    <3> HIDE DEF m
    <3>3. cr' = [cr EXCEPT !.status = m]
      BY <2>3 DEF m
    <3>4. cr'.status = m
      BY <1>t, <3>2, <3>3, WithStatus DEF CopiesTyped
    <3> QED BY <3>2, <3>4
  <2>4. Keeps(cr'.status)
    BY <1>8, <1>o, <2>3, PatchStatusFacts
  <2> QED BY <1>n, <1>o, <2>1, <2>4, EmptyFacts DEF Keeps
<1>9. CASE CacheSync
  BY <1>9, <1>o, <1>k DEF CacheSync, passVars, GateInv
<1>10. CASE EditResource
  <2>1. cr'.status = cr.status \/ cr'.status = EmptyStatus
    BY <1>10, <1>t, EditFacts, EmptyFacts DEF EditResource, CopiesTyped
  <2>2. UNCHANGED <<cache, orig, work, pc>>
    BY <1>10 DEF EditResource, passVars
  <2> QED BY <1>n, <1>o, <1>k, <2>1, <2>2 DEF GateInv, Keeps
<1>11. CASE Restart
  <2>1. /\ pc' = "idle" /\ orig' = NoCR /\ work' = EmptyStatus
        /\ cache' = cr /\ cr' = cr
    BY <1>11 DEF Restart, Idle
  <2> QED BY <1>n, <1>o, <2>1, EmptyFacts DEF Keeps
<1> QED BY <1>1, <1>2, <1>3, <1>4, <1>5, <1>6, <1>7, <1>8, <1>9, <1>10, <1>11,
           NextCases

\* A behaviour starts with the versions it inherits and without the marker.
LEMMA GateInit == Init => GateInv
<1> SUFFICES ASSUME Init PROVE GateInv
  OBVIOUS
<1>1. verified = {"", cr.status.version} /\ config \in ConfigMaps
      /\ opVersion = OldVersion
  BY DEF Init
<1>2. ~IsTrue(EmptyStatus.conds, "Verified")
  BY EmptyFacts DEF CondTypes
<1>3. GatedBy(EmptyStatus, verified, listed)
  BY <1>1, <1>2, EmptyFacts DEF GatedBy
<1>4. cr.status = InheritedStatus => GatedBy(cr.status, verified, listed)
  BY <1>1, InheritedFacts DEF GatedBy
<1>5. GatedBy(cr.status, verified, listed)
  BY <1>3, <1>4, InitFacts
<1> QED BY <1>1, <1>3, <1>5, InitFacts, EmptyFacts DEF GateInv

\* The gate's invariant holds throughout.
LEMMA GateInvariant == Spec => [](MigInv /\ TypeOK /\ GateInv)
<1>1. Init => MigInv /\ TypeOK /\ GateInv
  BY InitTyped, GateInit
<1>2. (MigInv /\ TypeOK /\ GateInv) /\ [Next]_vars
         => (MigInv /\ TypeOK /\ GateInv)'
  BY NextTyped, GateNext
<1> QED BY <1>1, <1>2, PTL DEF Spec

\* The platform operator never reads a version that no pass has verified.
THEOREM HandshakeGated == Spec => []UpgradeGated
<1>1. GateInv => UpgradeGated
  BY DEF GateInv, GatedBy, UpgradeGated
<1> QED BY <1>1, GateInvariant, PTL

\* Neither the marker nor the migration precedes this controller's own LIST.
THEOREM MarkerEarned == Spec => []ConversionChecked
<1>1. GateInv => ConversionChecked
  BY DEF GateInv, GatedBy, ConversionChecked
<1> QED BY <1>1, GateInvariant, PTL

-----------------------------------------------------------------------------
(* Generations: what is stale, and how stale it can be                      *)

\* The copies are older or as old as the server's resource, in order, and one
\* of its generation asks for the same; a pass does what its copy asks for.
OrderInv ==
    /\ pc = "idle" => orig = NoCR
    /\ pc \in {"removeOwned", "removeMigration"} => orig.state = "Removed"
    /\ pc \in {"deploy", "collect", "convert", "migrate"}
          => orig.state = "Managed"
    /\ cr.there =>
          /\ cr.gen >= 1
          /\ orig.gen <= cache.gen /\ cache.gen <= cr.gen
          /\ cache.gen = cr.gen => cache.state = cr.state
          /\ orig.gen = cr.gen => orig.state = cr.state

\* A patch keeps everything of the resource but its status.
LEMMA PatchKeeps ==
    ASSUME MigInv, TypeOK, PatchStatus
    PROVE  cr'.there = cr.there /\ cr'.gen = cr.gen /\ cr'.state = cr.state
<1>t. CopiesTyped /\ WorldTyped
  BY TypeParts
<1>1. cr.status \in StatusSet /\ orig.status \in StatusSet /\ orig.gen \in Nat
  BY <1>t, CRFields DEF CopiesTyped
<1>2. UpdateBaseStatus(work) \in StatusSet
  BY <1>t, <1>1, BaseStatusFacts DEF CopiesTyped, WorldTyped, Versions
<1>3. ASSUME NEW rewrite \in BOOLEAN,
             cr' = [cr EXCEPT !.status = MergePatch(orig.status,
                       UpdateBaseStatus(work), cr.status, rewrite)]
      PROVE  cr'.there = cr.there /\ cr'.gen = cr.gen /\ cr'.state = cr.state
  <2> DEFINE m == MergePatch(orig.status, UpdateBaseStatus(work), cr.status,
                             rewrite)
  <2>1. m \in StatusSet
    BY <1>1, <1>2, MergePatchFacts
  <2> HIDE DEF m
  <2>2. cr' = [cr EXCEPT !.status = m]
    BY <1>3 DEF m
  <2> QED BY <1>t, <2>1, <2>2, WithStatus DEF CopiesTyped
<1> QED BY <1>3, PatchStatusFacts

\* Every step keeps the order of the copies.
LEMMA OrderNext ==
    ASSUME MigInv, TypeOK, OrderInv, [Next]_vars
    PROVE  OrderInv'
<1>t. CopiesTyped
  BY TypeParts
<1>c. /\ cr.gen \in Nat /\ cache.gen \in Nat /\ orig.gen \in Nat
      /\ cache.state \in {"Managed", "Removed"}
      /\ NoCR.gen = 0 /\ ~NoCR.there
  BY <1>t, CRFields, EmptyFacts DEF CopiesTyped
<1>1. CASE Quiet
  <2>1. pc' = pc \/ (pc = "removeOwned" /\ pc' \in {"removeMigration", "patch"})
    BY <1>1 DEF Quiet, RemoveOwned, Conclude, Migrate, DeploymentSync,
         OtherEvent, OwnerCollect, ConfigChange, Rollout, PodsDown, Conversion,
         MigrationWorld, vars, passVars
  <2> QED BY <1>1, <2>1, QuietFacts DEF OrderInv
<1>2. CASE StartPass
  BY <1>2, <1>c, StartPassFacts DEF OrderInv, passVars, WantsRemoval
<1>3. CASE \/ RemoveMigration \/ Deploy \/ Collect \/ SkipConversion
           \/ CheckConversion \/ MigrateDone
  <2>1. UNCHANGED <<cr, cache, orig>>
    BY <1>3 DEF RemoveMigration, Deploy, Collect, SkipConversion,
                CheckConversion, MigrateDone, crVars
  <2>2. \/ pc' = "patch"
        \/ /\ pc \in {"deploy", "collect", "convert"}
           /\ pc' \in {"collect", "convert", "migrate"}
    BY <1>3 DEF RemoveMigration, Deploy, Collect, SkipConversion,
                CheckConversion, MigrateDone, Advance, Conclude
  <2> QED BY <2>1, <2>2 DEF OrderInv
<1>4. CASE PatchStatus
  <2>1. pc' = "idle" /\ orig' = NoCR /\ cache' = cache
    BY <1>4, PatchStatusFacts DEF Idle
  <2> QED BY <1>4, <1>c, <2>1, PatchKeeps DEF OrderInv
<1>5. CASE CacheSync
  <2>1. UNCHANGED <<cr, pc, orig>> /\ cache' = cr
    BY <1>5 DEF CacheSync, passVars
  <2> QED BY <1>c, <2>1 DEF OrderInv
<1>6. CASE EditResource
  <2>1. UNCHANGED <<cache, pc, orig>>
    BY <1>6 DEF EditResource, passVars
  <2>2. cr'.there => cr.there /\ cr'.gen = cr.gen + 1
    BY <1>6, <1>t, EditFacts, EmptyFacts DEF EditResource, CopiesTyped
  <2> QED BY <1>c, <2>1, <2>2 DEF OrderInv
<1>7. CASE Restart
  <2>1. pc' = "idle" /\ orig' = NoCR /\ cache' = cr /\ cr' = cr
    BY <1>7 DEF Restart, Idle
  <2> QED BY <1>c, <2>1 DEF OrderInv
<1> QED BY <1>1, <1>2, <1>3, <1>4, <1>5, <1>6, <1>7, NextCases

\* A status is not ahead of generation g, and says Ready at g only if g asks
\* for the operand.
DatedBy(s, g, state) ==
    /\ s.obs <= g
    /\ s.conds["Ready"].gen <= g /\ s.conds["Available"].gen <= g
    /\ IsTrue(s.conds, "Ready") /\ s.conds["Ready"].gen = g
          => state = "Managed"

\* Every copy of the status is dated by the resource.
ReadyInv ==
    cr.there =>
        /\ DatedBy(cr.status, cr.gen, cr.state)
        /\ DatedBy(cache.status, cr.gen, cr.state)
        /\ DatedBy(orig.status, cr.gen, cr.state)
        /\ DatedBy(work, cr.gen, cr.state)

\* Every verdict on the status the pass builds keeps it dated.
LEMMA DatedWork ==
    ASSUME TypeOK, MigInv, NEW g \in Nat, NEW state, NEW status \in StatusSet,
           DatedBy(status, g, state), orig.gen <= g
    PROVE  /\ \A r \in Reasons : DatedBy(Unavailable(status, r), g, state)
           /\ DatedBy(Migrated(status), g, state)
           /\ DatedBy(UpdateBaseStatus(status), g, state)
           /\ (orig.gen = g => state = "Managed")
                 => DatedBy(Advanced(status), g, state)
           /\ DatedBy(Verify(status), g, state)
           /\ DatedBy([status EXCEPT !.conds = MarkRemoved(@, orig.gen)],
                      g, state)
<1> USE DEF DatedBy, IsTrue
<1>t. /\ orig.gen \in Nat /\ opVersion \in Versions /\ verdict \in Verdicts
      /\ pcfg \in [available : BOOLEAN, name : Names, version : Versions]
      /\ {"Ready", "Available"} \subseteq CondTypes \ {"Migrated", "Verified"}
  BY TypeParts, CRFields
  DEF CopiesTyped, WorldTyped, PassTyped, Versions, MigInv, MigOK, CondTypes
<1>1. ASSUME NEW r \in Reasons PROVE DatedBy(Unavailable(status, r), g, state)
  <2> DEFINE s == Unavailable(status, r)
  <2>1. /\ s.obs = status.obs /\ s.conds["Ready"].gen = orig.gen
        /\ s.conds["Ready"].status # "True"
        /\ s.conds["Available"] = [status |-> "False", reason |-> r,
                                   gen |-> orig.gen]
    BY <1>t, UnavailableFacts DEF SameButConds
  <2> HIDE DEF s
  <2>2. s.conds["Available"].gen = orig.gen
    BY <2>1
  <2>3. DatedBy(s, g, state)
    BY <2>1, <2>2
  <2> QED BY <2>3 DEF s
<1>2. DatedBy(Migrated(status), g, state)
  BY <1>t, MigratedFacts DEF SameButConds
<1>3. DatedBy(UpdateBaseStatus(status), g, state)
  BY <1>t, BaseStatusFacts
<1>4. (orig.gen = g => state = "Managed") => DatedBy(Advanced(status), g, state)
  BY <1>t, AdvancedFacts
<1>5. DatedBy(Verify(status), g, state)
  BY <1>t, VerifyFacts DEF SameButConds
<1>6. DatedBy([status EXCEPT !.conds = MarkRemoved(@, orig.gen)], g, state)
  <2> DEFINE c == MarkRemoved(status.conds, orig.gen)
  <2>1. status.conds \in CondMap
    BY DEF StatusSet, CondMap
  <2>2. /\ c["Available"] = [status |-> "False", reason |-> "Removed",
                             gen |-> orig.gen]
        /\ c["Ready"].gen = orig.gen /\ ~IsTrue(c, "Ready")
    BY <1>t, <2>1, MarkRemovedFacts
  <2> HIDE DEF c
  <2>3. c["Available"].gen = orig.gen
    BY <2>2
  <2>4. DatedBy([status EXCEPT !.conds = c], g, state)
    BY <2>2, <2>3 DEF StatusSet
  <2> QED BY <2>4 DEF c
<1> QED BY <1>1, <1>2, <1>3, <1>4, <1>5, <1>6

\* A merge of dated statuses is dated.
LEMMA DatedMerge ==
    ASSUME NEW o \in StatusSet, NEW w \in StatusSet, NEW c \in StatusSet,
           NEW rewrite \in BOOLEAN, NEW g, NEW state,
           DatedBy(w, g, state), DatedBy(c, g, state)
    PROVE  DatedBy(MergePatch(o, w, c, rewrite), g, state)
<1> DEFINE m == MergePatch(o, w, c, rewrite)
<1>1. /\ m.conds = w.conds \/ m.conds = c.conds
      /\ m.obs = w.obs \/ m.obs = c.obs
  BY DEF MergePatch, Merge
<1> HIDE DEF m
<1>2. DatedBy(m, g, state)
  BY <1>1 DEF DatedBy
<1> QED BY <1>2 DEF m

\* The empty status is dated by every generation.
LEMMA DatedEmpty ==
    ASSUME NEW g \in Nat, NEW state
    PROVE  DatedBy(EmptyStatus, g, state)
<1>1. /\ ~IsTrue(EmptyStatus.conds, "Ready") /\ EmptyStatus.obs = 0
      /\ EmptyStatus.conds["Ready"].gen = 0
      /\ EmptyStatus.conds["Available"].gen = 0
  BY EmptyFacts DEF CondTypes
<1> QED BY <1>1 DEF DatedBy

\* The resource is never reborn, and only an edit changes its generation.
LEMMA GenerationStep ==
    ASSUME MigInv, TypeOK, [Next]_vars, cr'.there
    PROVE  /\ cr.there
           /\ \/ EditResource /\ cr'.gen = cr.gen + 1 /\ cr'.status = cr.status
              \/ cr'.gen = cr.gen /\ cr'.state = cr.state
<1>t. CopiesTyped
  BY TypeParts
<1>1. CASE PatchStatus
  BY <1>1, PatchKeeps
<1>2. CASE EditResource
  BY <1>2, <1>t, EditFacts, EmptyFacts DEF EditResource, CopiesTyped
<1>3. CASE Quiet
  BY <1>3, QuietFacts
<1>4. CASE \/ StartPass \/ RemoveMigration \/ Deploy \/ Collect
           \/ SkipConversion \/ CheckConversion \/ MigrateDone \/ CacheSync
           \/ Restart
  BY <1>4 DEF StartPass, RemoveMigration, Deploy, Collect, SkipConversion,
              CheckConversion, MigrateDone, CacheSync, Restart, crVars
<1> QED BY <1>1, <1>2, <1>3, <1>4, NextCases

\* A status once dated stays so as the resource moves on.
LEMMA DatedLater ==
    ASSUME NEW s \in StatusSet, NEW g \in Nat, NEW state, NEW later,
           DatedBy(s, g, state)
    PROVE  DatedBy(s, g + 1, later)
<1>1. /\ s.obs \in Nat /\ s.conds["Ready"].gen \in Nat
      /\ s.conds["Available"].gen \in Nat
  BY DEF StatusSet, ConditionSet, CondTypes
<1> QED BY <1>1 DEF DatedBy

\* Every step keeps every copy dated.
LEMMA ReadyNext ==
    ASSUME MigInv, TypeOK, OrderInv, ReadyInv, [Next]_vars
    PROVE  ReadyInv'
<1>t. CopiesTyped /\ PassTyped /\ WorldTyped
  BY TypeParts
<1>s. /\ cr.status \in StatusSet /\ orig.status \in StatusSet
      /\ cache.status \in StatusSet /\ work \in StatusSet
      /\ cr.gen \in Nat /\ cache.gen \in Nat /\ orig.gen \in Nat
  BY <1>t, CRFields DEF CopiesTyped
<1> SUFFICES ASSUME cr'.there
             PROVE  /\ DatedBy(cr'.status, cr'.gen, cr'.state)
                    /\ DatedBy(cache'.status, cr'.gen, cr'.state)
                    /\ DatedBy(orig'.status, cr'.gen, cr'.state)
                    /\ DatedBy(work', cr'.gen, cr'.state)
  BY DEF ReadyInv
<1>o. /\ DatedBy(cr.status, cr.gen, cr.state)
      /\ DatedBy(cache.status, cr.gen, cr.state)
      /\ DatedBy(orig.status, cr.gen, cr.state)
      /\ DatedBy(work, cr.gen, cr.state)
  BY GenerationStep DEF ReadyInv
<1>1. CASE EditResource /\ cr'.gen = cr.gen + 1 /\ cr'.status = cr.status
  <2>1. UNCHANGED <<cache, orig, work>>
    BY <1>1 DEF EditResource, passVars
  <2> QED BY <1>1, <1>s, <1>o, <2>1, DatedLater
<1>2. CASE cr'.gen = cr.gen /\ cr'.state = cr.state
  <2> DEFINE Dated(s) == DatedBy(s, cr.gen, cr.state)
  <2>g. /\ orig.gen <= cr.gen
        /\ pc \in {"convert", "migrate"} /\ orig.gen = cr.gen
              => cr.state = "Managed"
    BY <1>s, GenerationStep DEF OrderInv
  <2>e. Dated(EmptyStatus)
    BY <1>s, DatedEmpty
  <2>n. NoCR.status = EmptyStatus
    BY EmptyFacts
  <2>w. /\ \A r \in Reasons : Dated(Unavailable(work, r))
        /\ Dated(Migrated(work)) /\ Dated(UpdateBaseStatus(work))
        /\ pc \in {"convert", "migrate"} => Dated(Advanced(work))
        /\ Verify(work) \in StatusSet /\ Dated(Verify(work))
        /\ Dated([work EXCEPT !.conds = MarkRemoved(@, orig.gen)])
    BY <1>s, <1>o, <2>g, DatedWork, VerifyFacts
  <2>a. pc \in {"convert", "migrate"} => Dated(Advanced(Verify(work)))
    BY <1>s, <2>g, <2>w, DatedWork
  <2>d. Dated(cr.status) /\ Dated(cache.status) /\ Dated(orig.status)
        /\ Dated(work)
    BY <1>o
  <2> HIDE DEF Dated
  <2> SUFFICES /\ Dated(cr'.status) /\ Dated(cache'.status)
               /\ Dated(orig'.status) /\ Dated(work')
    BY <1>2 DEF Dated
  <2>1. CASE Quiet
    BY <2>1, <2>d, QuietFacts
  <2>2. CASE StartPass
    BY <2>2, <2>d, StartPassFacts DEF passVars
  <2>3. CASE RemoveMigration
    <3>1. /\ UNCHANGED <<cr, cache, orig>>
          /\ work' \in {work, [work EXCEPT !.conds = MarkRemoved(@, orig.gen)]}
      BY <2>3 DEF RemoveMigration, Conclude, crVars
    <3> QED BY <2>d, <2>w, <3>1
  <2>4. CASE Deploy \/ Collect
    <3>1. FailReasons \subseteq Reasons
      BY DEF FailReasons, Reasons
    <3> QED BY <2>4, <2>d, <2>w, <3>1, FailingSteps
  <2>5. CASE SkipConversion
    <3>1. /\ UNCHANGED <<cr, cache, orig>> /\ work' = Advanced(work)
          /\ pc = "convert"
      BY <2>5 DEF SkipConversion, Advance, Advanced, crVars
    <3> QED BY <2>d, <2>w, <3>1
  <2>6. CASE CheckConversion
    <3>1. "ConversionCheckFailed" \in Reasons /\ pc = "convert"
      BY <2>6 DEF Reasons, CheckConversion
    <3> QED BY <2>6, <2>d, <2>w, <2>a, <3>1, GateSteps
  <2>7. CASE MigrateDone
    <3>1. UNCHANGED <<cr, cache, orig>> /\ work' = Migrated(work)
      BY <2>7 DEF MigrateDone, Conclude, crVars
    <3> QED BY <2>d, <2>w, <3>1
  <2>8. CASE PatchStatus
    <3>1. orig' = NoCR /\ work' = EmptyStatus /\ cache' = cache
      BY <2>8, PatchStatusFacts DEF Idle
    <3>2. ASSUME NEW rewrite \in BOOLEAN,
                 cr' = [cr EXCEPT !.status = MergePatch(orig.status,
                           UpdateBaseStatus(work), cr.status, rewrite)]
          PROVE  Dated(cr'.status)
      <4>1. UpdateBaseStatus(work) \in StatusSet
        BY <1>s, <1>t, BaseStatusFacts DEF WorldTyped, Versions
      <4> DEFINE m == MergePatch(orig.status, UpdateBaseStatus(work),
                                 cr.status, rewrite)
      <4>2. m \in StatusSet /\ Dated(m)
        BY <1>s, <2>d, <2>w, <4>1, DatedMerge, MergePatchFacts DEF Dated
      <4> HIDE DEF m
      <4>3. cr' = [cr EXCEPT !.status = m]
        BY <3>2 DEF m
      <4>4. cr'.status = m
        BY <1>t, <4>2, <4>3, WithStatus DEF CopiesTyped
      <4> QED BY <4>2, <4>4
    <3>3. Dated(cr'.status)
      BY <2>8, <2>d, <3>2, PatchStatusFacts
    <3> QED BY <2>d, <2>e, <2>n, <3>1, <3>3
  <2>9. CASE CacheSync
    BY <2>9, <2>d DEF CacheSync, passVars
  <2>10. CASE EditResource
    <3>1. UNCHANGED <<cache, orig, work>>
      BY <2>10 DEF EditResource, passVars
    <3>2. cr'.status = cr.status
      BY <2>10, <1>t, EditFacts, EmptyFacts DEF EditResource, CopiesTyped
    <3> QED BY <2>d, <3>1, <3>2
  <2>11. CASE Restart
    <3>1. /\ orig' = NoCR /\ work' = EmptyStatus /\ cache' = cr /\ cr' = cr
      BY <2>11 DEF Restart, Idle
    <3> QED BY <2>d, <2>e, <2>n, <3>1
  <2> QED BY <2>1, <2>2, <2>3, <2>4, <2>5, <2>6, <2>7, <2>8, <2>9, <2>10,
             <2>11, NextCases
<1> QED BY <1>1, <1>2, GenerationStep

\* A behaviour starts with the copies in order and dated.
LEMMA OrderInit == Init => OrderInv /\ ReadyInv
<1> SUFFICES ASSUME Init PROVE OrderInv /\ ReadyInv
  OBVIOUS
<1>1. OrderInv
  <2>1. /\ cr.there = TRUE /\ cr.gen = 1 /\ cache = cr
        /\ orig = NoCR /\ pc = "idle" /\ NoCR.gen = 0
    BY InitFacts, EmptyFacts
  <2> QED BY <2>1 DEF OrderInv
<1>2. ASSUME cr.status = InheritedStatus /\ cr.state = "Managed"
      PROVE  DatedBy(cr.status, 1, cr.state)
  <2>1. /\ InheritedStatus.obs = 1 /\ InheritedStatus.conds["Ready"].gen = 1
        /\ InheritedStatus.conds["Available"] =
              [status |-> "True", reason |-> "Available", gen |-> 1]
    BY InheritedFacts DEF Init
  <2>2. InheritedStatus.conds["Available"].gen = 1
    BY <2>1
  <2> QED BY <1>2, <2>1, <2>2 DEF DatedBy
<1>3. DatedBy(EmptyStatus, 1, cr.state)
  BY DatedEmpty
<1>4. DatedBy(cr.status, 1, cr.state)
  BY <1>2, <1>3, InitFacts
<1>5. ReadyInv
  BY <1>3, <1>4, InitFacts, EmptyFacts DEF ReadyInv
<1> QED BY <1>1, <1>5

\* Ready at the current generation means the operand is asked for, and the
\* resource is never observed ahead of itself.
THEOREM ReadyHonest == Spec => []ReadyMeansManaged
<1> DEFINE I == MigInv /\ TypeOK /\ OrderInv /\ ReadyInv
<1>1. Init => I
  BY InitTyped, OrderInit
<1>2. I /\ [Next]_vars => I'
  BY NextTyped, OrderNext, ReadyNext
<1>3. I => ReadyMeansManaged
  BY DEF ReadyInv, DatedBy, ReadyMeansManaged
<1> QED BY <1>1, <1>2, <1>3, PTL DEF Spec

-----------------------------------------------------------------------------
(* A removal that is reported has taken place                               *)

SaysRemoved(s, g) ==
    s.conds["Available"].reason = "Removed" /\ s.conds["Available"].gen = g

\* The operand is gone, and nothing that is stale or running brings it back:
\* the cache and the running pass know the generation that asks for removal.
Gone ==
    /\ cr.state = "Removed" /\ cache.gen = cr.gen
    /\ pc # "idle" => orig.gen = cr.gen
    /\ dep = NoDeployment /\ ~leftover
    /\ adminOps = 0 => svm = NoSVM

RemovalInv ==
    /\ cr.there /\ \/ SaysRemoved(cr.status, cr.gen)
                   \/ SaysRemoved(cache.status, cr.gen)
                   \/ SaysRemoved(orig.status, cr.gen)
                   \/ SaysRemoved(work, cr.gen)
          => Gone
    /\ pc = "removeMigration" => dep = NoDeployment /\ ~leftover
    /\ adminOps = 0 => served \/ svm = NoSVM

\* No status of a pass that wants the operand says that it was removed.
LEMMA RemovedWork ==
    ASSUME TypeOK, MigInv, NEW g, NEW status \in StatusSet
    PROVE  /\ \A r \in FailReasons : ~SaysRemoved(Unavailable(status, r), g)
           /\ SaysRemoved(Migrated(status), g) => SaysRemoved(status, g)
           /\ SaysRemoved(UpdateBaseStatus(status), g) => SaysRemoved(status, g)
           /\ ~SaysRemoved(Advanced(status), g)
           /\ SaysRemoved([status EXCEPT !.conds = MarkRemoved(@, orig.gen)], g)
                 => orig.gen = g
<1>t. /\ orig.gen \in Nat /\ opVersion \in Versions /\ verdict \in Verdicts
      /\ pcfg \in [available : BOOLEAN, name : Names, version : Versions]
      /\ "Available" \in CondTypes \ {"Migrated"}
  BY TypeParts, CRFields
  DEF CopiesTyped, WorldTyped, PassTyped, Versions, MigInv, MigOK, CondTypes
<1>1. ASSUME NEW r \in FailReasons
      PROVE  ~SaysRemoved(Unavailable(status, r), g)
  <2>1. r \in Reasons /\ r # "Removed"
    BY DEF FailReasons, Reasons
  <2>2. Unavailable(status, r).conds["Available"] =
           [status |-> "False", reason |-> r, gen |-> orig.gen]
    BY <1>t, <2>1, UnavailableFacts
  <2>3. Unavailable(status, r).conds["Available"].reason = r
    BY <2>2
  <2> QED BY <2>1, <2>3 DEF SaysRemoved
<1>2. SaysRemoved(Migrated(status), g) => SaysRemoved(status, g)
  BY <1>t, MigratedFacts DEF SaysRemoved
<1>3. SaysRemoved(UpdateBaseStatus(status), g) => SaysRemoved(status, g)
  BY <1>t, BaseStatusFacts DEF SaysRemoved
<1>4. ~SaysRemoved(Advanced(status), g)
  <2>1. Advanced(status).conds["Available"] =
           [status |-> "True", reason |-> "Available", gen |-> orig.gen]
    BY <1>t, AdvancedFacts
  <2>2. Advanced(status).conds["Available"].reason = "Available"
    BY <2>1
  <2> QED BY <2>2 DEF SaysRemoved
<1>5. SaysRemoved([status EXCEPT !.conds = MarkRemoved(@, orig.gen)], g)
         => orig.gen = g
  <2> DEFINE c == MarkRemoved(status.conds, orig.gen)
  <2>1. status.conds \in CondMap
    BY DEF StatusSet, CondMap
  <2>2. c["Available"] = [status |-> "False", reason |-> "Removed",
                          gen |-> orig.gen]
    BY <1>t, <2>1, MarkRemovedFacts
  <2> HIDE DEF c
  <2>3. c["Available"].gen = orig.gen
    BY <2>2
  <2>4. [status EXCEPT !.conds = c].conds = c
    BY DEF StatusSet
  <2>5. SaysRemoved([status EXCEPT !.conds = c], g) => orig.gen = g
    BY <2>3, <2>4 DEF SaysRemoved
  <2> QED BY <2>5 DEF c
<1> QED BY <1>1, <1>2, <1>3, <1>4, <1>5

\* A merge says removed only if one of its two sources does.
LEMMA RemovedMerge ==
    ASSUME NEW o, NEW w, NEW c, NEW rewrite, NEW g,
           SaysRemoved(MergePatch(o, w, c, rewrite), g)
    PROVE  SaysRemoved(w, g) \/ SaysRemoved(c, g)
<1> DEFINE m == MergePatch(o, w, c, rewrite)
<1>1. m.conds = w.conds \/ m.conds = c.conds
  BY DEF MergePatch, Merge
<1> HIDE DEF m
<1>2. SaysRemoved(m, g) => SaysRemoved(w, g) \/ SaysRemoved(c, g)
  BY <1>1 DEF SaysRemoved
<1> QED BY <1>2 DEF m

\* Without an administrator the object comes only from a pass that runs the
\* migration, and is hidden from nobody.
LEMMA ObjectStep ==
    ASSUME MigInv, TypeOK, [Next]_vars, adminOps' = 0
    PROVE  /\ adminOps = 0
           /\ served => served'
           /\ \/ svm' = svm \/ svm' = NoSVM
              \/ served /\ (pc = "migrate" \/ svm # NoSVM)
<1>0. adminOps \in Nat
  BY MigrationAssumption DEF MigInv, MigOK
<1>1. CASE Admin
  BY <1>0, <1>1 DEF Admin, AdminOp
<1>2. CASE Migrator \/ Serve
  <2>1. /\ adminOps' = adminOps
        /\ \/ served' = served /\ served /\ svm # NoSVM
           \/ served' = TRUE /\ svm' = svm
    BY <1>2 DEF Migrator, Serve
  <2> QED BY <2>1, Zenon
<1>3. CASE Migrate
  <2>1. UNCHANGED <<served, adminOps>> /\ pc = "migrate"
    BY <1>3 DEF Migrate, MigStep, MigDiscover, MigGet, MigDelete, MigCreate
  <2>2. svm' = svm \/ svm' = NoSVM \/ served
    BY <1>3 DEF Migrate, MigStep, MigDiscover, MigGet, MigDelete, MigCreate
  <2> QED BY <2>1, <2>2, Zenon
<1>4. CASE OwnerCollect \/ RemoveMigration
  <2>1. UNCHANGED <<served, adminOps>>
    BY <1>4 DEF OwnerCollect, RemoveMigration
  <2>2. svm' = svm \/ svm' = NoSVM
    BY <1>4 DEF OwnerCollect, RemoveMigration, MigRemove
  <2> QED BY <2>1, <2>2, Zenon
<1>5. CASE \/ StartPass \/ RemoveOwned \/ Deploy \/ Collect \/ PatchStatus
           \/ SkipConversion \/ CheckConversion \/ MigrateDone \/ Restart
           \/ CacheSync \/ DeploymentSync \/ OtherEvent \/ EditResource
           \/ ConfigChange \/ Rollout \/ PodsDown \/ Conversion
           \/ UNCHANGED vars
  <2>1. UNCHANGED <<served, adminOps, svm>>
    BY <1>5 DEF StartPass, RemoveOwned, Deploy, Collect, PatchStatus,
        SkipConversion, CheckConversion, Advance, MigEnter, MigrateDone,
        Restart, MigLeave, CacheSync, DeploymentSync, OtherEvent, EditResource,
        ConfigChange, Rollout, PodsDown, Conversion, vars, migVars, migOnly
  <2> QED BY <2>1, Zenon
<1> QED BY <1>1, <1>2, <1>3, <1>4, <1>5, Zenon
        DEF Next, Pass, World, MigrationWorld

\* While there is no operand only a pass that deploys brings one.
LEMMA OperandStep ==
    ASSUME TypeOK, [Next]_vars, dep = NoDeployment, ~leftover,
           pc # "deploy"
    PROVE  dep' = NoDeployment /\ ~leftover'
<1>1. dep.rev = "" /\ dep.pod = ""
  BY DEF NoDeployment
<1>2. dep' = NoDeployment
  BY <1>1
  DEF Next, Pass, World, StartPass, RemoveOwned, RemoveMigration, Deploy,
      Collect, SkipConversion, CheckConversion, Migrate, MigrateDone,
      PatchStatus, CacheSync, DeploymentSync, OtherEvent, EditResource,
      OwnerCollect, ConfigChange, Rollout, PodsDown, Conversion, Restart,
      MigrationWorld, vars, worldVars
<1>3. \/ leftover' = leftover \/ leftover' = FALSE
      \/ leftover' = (leftover \/ dep.rev # "")
  BY Zenon
  DEF Next, Pass, World, StartPass, RemoveOwned, RemoveMigration, Deploy,
      Collect, Swept, SweepFails, SkipConversion, CheckConversion, Migrate,
      MigrateDone, PatchStatus, CacheSync, DeploymentSync, OtherEvent,
      EditResource, OwnerCollect, ConfigChange, Rollout, PodsDown,
      Conversion, Restart, MigrationWorld, vars, worldVars
<1>4. ~leftover'
  BY <1>1, <1>3
<1> QED BY <1>2, <1>4

\* Once gone, the operand stays gone while the generation lasts.
LEMMA GoneNext ==
    ASSUME MigInv, TypeOK, OrderInv, [Next]_vars, cr.there, Gone,
           cr'.gen = cr.gen, cr'.state = cr.state
    PROVE  Gone'
<1>1. pc # "deploy" /\ pc # "migrate"
  BY DEF Gone, OrderInv
<1>2. dep' = NoDeployment /\ ~leftover'
  BY <1>1, OperandStep DEF Gone
<1>3. adminOps' = 0 => svm' = NoSVM
  BY <1>1, ObjectStep DEF Gone
<1>4. cache'.gen = cr.gen /\ (pc' # "idle" => orig'.gen = cr.gen)
  <2>1. CASE Quiet
    <3>1. pc = "idle" => pc' = "idle"
      BY <2>1 DEF Quiet, RemoveOwned, Conclude, Migrate, DeploymentSync,
           OtherEvent, OwnerCollect, ConfigChange, Rollout, PodsDown,
           Conversion, MigrationWorld, vars, passVars
    <3> QED BY <2>1, <3>1, QuietFacts DEF Gone
  <2>2. CASE StartPass
    BY <2>2, StartPassFacts DEF Gone, passVars
  <2>3. CASE \/ RemoveMigration \/ Deploy \/ Collect \/ SkipConversion
             \/ CheckConversion \/ MigrateDone
    BY <2>3 DEF RemoveMigration, Deploy, Collect, SkipConversion,
                CheckConversion, MigrateDone, crVars, Gone
  <2>4. CASE PatchStatus
    BY <2>4, PatchStatusFacts DEF Idle, Gone
  <2>5. CASE CacheSync \/ EditResource
    BY <2>5 DEF CacheSync, EditResource, passVars, Gone
  <2>6. CASE Restart
    BY <2>6 DEF Restart, Idle
  <2> QED BY <2>1, <2>2, <2>3, <2>4, <2>5, <2>6, NextCases
<1> QED BY <1>2, <1>3, <1>4 DEF Gone

\* Every step keeps what is said of a removal true.
LEMMA RemovalNext ==
    ASSUME MigInv, TypeOK, OrderInv, ReadyInv, RemovalInv, [Next]_vars
    PROVE  RemovalInv'
<1>t. CopiesTyped /\ PassTyped /\ WorldTyped
  BY TypeParts
<1>s. /\ cr.status \in StatusSet /\ orig.status \in StatusSet
      /\ cache.status \in StatusSet /\ work \in StatusSet
      /\ cr.gen \in Nat /\ cache.gen \in Nat /\ orig.gen \in Nat
  BY <1>t, CRFields DEF CopiesTyped
<1>1. pc' = "removeMigration" => dep' = NoDeployment /\ ~leftover'
  <2>1. CASE pc = "removeMigration"
    BY <2>1, OperandStep DEF RemovalInv
  <2>2. CASE pc # "removeMigration"
    <3>1. pc' = "removeMigration"
             => RemoveOwned /\ dep' = NoDeployment /\ leftover' = FALSE
      BY <2>2
      DEF Next, Pass, World, StartPass, RemoveOwned, RemoveMigration, Deploy,
        Collect, SkipConversion, CheckConversion, Advance, Conclude, Migrate,
        MigrateDone, PatchStatus, Idle, CacheSync, DeploymentSync, OtherEvent,
        EditResource, OwnerCollect, ConfigChange, Rollout, PodsDown,
        Conversion, Restart, MigrationWorld, vars, passVars
    <3> QED BY <3>1
  <2> QED BY <2>1, <2>2
<1>2. adminOps' = 0 => served' \/ svm' = NoSVM
  BY ObjectStep DEF RemovalInv
<1>3. ASSUME cr'.there,
             \/ SaysRemoved(cr'.status, cr'.gen)
             \/ SaysRemoved(cache'.status, cr'.gen)
             \/ SaysRemoved(orig'.status, cr'.gen)
             \/ SaysRemoved(work', cr'.gen)
      PROVE  Gone'
  <2>t. cr.there
    BY <1>3, GenerationStep
  <2>1. CASE EditResource /\ cr'.gen = cr.gen + 1 /\ cr'.status = cr.status
    <3>1. UNCHANGED <<cache, orig, work>>
      BY <2>1 DEF EditResource, passVars
    <3>2. \A s \in {cr.status, cache.status, orig.status, work} :
             s \in StatusSet /\ s.conds["Available"].gen <= cr.gen
      BY <1>s, <2>t DEF ReadyInv, DatedBy
    <3>3. \A s \in StatusSet : s.conds["Available"].gen \in Nat
      BY DEF StatusSet, ConditionSet, CondTypes
    <3>4. \A s \in {cr.status, cache.status, orig.status, work} :
             ~SaysRemoved(s, cr.gen + 1)
      BY <1>s, <3>2, <3>3 DEF SaysRemoved
    <3> QED BY <1>3, <2>1, <3>1, <3>4
  <2>2. CASE cr'.gen = cr.gen /\ cr'.state = cr.state
    <3> DEFINE Says(s) == SaysRemoved(s, cr.gen)
               Said == \/ Says(cr.status) \/ Says(cache.status)
                       \/ Says(orig.status) \/ Says(work)
    <3>k. Said => Gone'
      BY <2>t, <2>2, GoneNext DEF RemovalInv
    <3>n. ~Says(EmptyStatus) /\ ~Says(NoCR.status)
      <4>1. EmptyStatus.conds["Available"].reason = "None"
        BY EmptyFacts DEF CondTypes
      <4> QED BY <4>1, EmptyFacts DEF SaysRemoved
    <3>g. \/ Says(cr'.status) \/ Says(cache'.status)
          \/ Says(orig'.status) \/ Says(work')
      BY <1>3, <2>2
    <3>w. /\ \A r \in FailReasons : ~Says(Unavailable(work, r))
          /\ Says(Migrated(work)) => Says(work)
          /\ Says(UpdateBaseStatus(work)) => Says(work)
          /\ ~Says(Advanced(work))
          /\ Says([work EXCEPT !.conds = MarkRemoved(@, orig.gen)])
                => orig.gen = cr.gen
      BY <1>s, RemovedWork
    <3>a. ~Says(Advanced(Verify(work)))
      <4>1. Verify(work) \in StatusSet
        BY <1>s, VerifyFacts
      <4> QED BY <4>1, RemovedWork
    <3> HIDE DEF Says
    <3>1. CASE Quiet
      BY <3>1, <3>g, <3>k, QuietFacts
    <3>2. CASE StartPass
      BY <3>2, <3>g, <3>k, StartPassFacts DEF passVars
    <3>3. CASE RemoveMigration
      <4> DEFINE removed == [work EXCEPT !.conds = MarkRemoved(@, orig.gen)]
      <4>1. CASE work' = work
        <5>1. UNCHANGED <<cr, cache, orig>>
          BY <3>3 DEF RemoveMigration, crVars
        <5> QED BY <3>g, <3>k, <4>1, <5>1
      <4>2. CASE MigRemove /\ work' = removed
        <5>1. /\ UNCHANGED <<cr, cache, orig, dep, leftover, adminOps>>
              /\ pc = "removeMigration" /\ pc' = "patch"
          BY <3>3 DEF RemoveMigration, Conclude, crVars, worldVars
        <5>2. Said \/ orig.gen = cr.gen
          BY <3>g, <3>w, <4>2, <5>1
        <5>3. ASSUME orig.gen = cr.gen PROVE Gone'
          <6>1. cr.state = "Removed" /\ cache.gen = cr.gen
            BY <1>s, <2>t, <5>1, <5>3 DEF OrderInv
          <6>2. dep = NoDeployment /\ ~leftover
            BY <5>1 DEF RemovalInv
          <6>3. adminOps = 0 => svm' = NoSVM
            BY <4>2 DEF RemovalInv, MigRemove
          <6> QED BY <5>1, <5>3, <6>1, <6>2, <6>3 DEF Gone
        <5> QED BY <3>k, <5>2, <5>3
      <4> QED BY <3>3, <4>1, <4>2 DEF RemoveMigration, Conclude
    <3>4. CASE Deploy \/ Collect
      BY <3>4, <3>g, <3>k, <3>w, FailingSteps
    <3>5. CASE SkipConversion
      <4>1. UNCHANGED <<cr, cache, orig>> /\ work' = Advanced(work)
        BY <3>5 DEF SkipConversion, Advance, Advanced, crVars
      <4> QED BY <3>g, <3>k, <3>w, <4>1
    <3>6. CASE CheckConversion
      <4>1. "ConversionCheckFailed" \in FailReasons
        BY DEF FailReasons
      <4> QED BY <3>6, <3>g, <3>k, <3>w, <3>a, <4>1, GateSteps
    <3>7. CASE MigrateDone
      <4>1. UNCHANGED <<cr, cache, orig>> /\ work' = Migrated(work)
        BY <3>7 DEF MigrateDone, Conclude, crVars
      <4> QED BY <3>g, <3>k, <3>w, <4>1
    <3>8. CASE PatchStatus
      <4>1. orig' = NoCR /\ work' = EmptyStatus /\ cache' = cache
        BY <3>8, PatchStatusFacts DEF Idle
      <4>2. ASSUME NEW rewrite \in BOOLEAN,
                   cr' = [cr EXCEPT !.status = MergePatch(orig.status,
                             UpdateBaseStatus(work), cr.status, rewrite)]
            PROVE  Says(cr'.status) => Said
        <5>1. UpdateBaseStatus(work) \in StatusSet
          BY <1>s, <1>t, BaseStatusFacts DEF WorldTyped, Versions
        <5> DEFINE m == MergePatch(orig.status, UpdateBaseStatus(work),
                                   cr.status, rewrite)
        <5>2. m \in StatusSet
          BY <1>s, <5>1, MergePatchFacts
        <5>3. Says(m) => Says(UpdateBaseStatus(work)) \/ Says(cr.status)
          BY RemovedMerge DEF Says
        <5> HIDE DEF m
        <5>4. cr' = [cr EXCEPT !.status = m]
          BY <4>2 DEF m
        <5>5. cr'.status = m
          BY <1>t, <5>2, <5>4, WithStatus DEF CopiesTyped
        <5> QED BY <3>w, <5>3, <5>5
      <4>3. Says(cr'.status) => Said
        BY <3>8, <4>2, PatchStatusFacts
      <4> QED BY <3>g, <3>k, <3>n, <4>1, <4>3
    <3>9. CASE CacheSync
      BY <3>9, <3>g, <3>k DEF CacheSync, passVars
    <3>10. CASE EditResource
      <4>1. UNCHANGED <<cache, orig, work>>
        BY <3>10 DEF EditResource, passVars
      <4>2. cr'.status = cr.status
        BY <1>3, <3>10, <1>t, EditFacts, EmptyFacts DEF EditResource, CopiesTyped
      <4> QED BY <3>g, <3>k, <4>1, <4>2
    <3>11. CASE Restart
      <4>1. orig' = NoCR /\ work' = EmptyStatus /\ cache' = cr /\ cr' = cr
        BY <3>11 DEF Restart, Idle
      <4> QED BY <3>g, <3>k, <3>n, <4>1
    <3> QED BY <3>1, <3>2, <3>3, <3>4, <3>5, <3>6, <3>7, <3>8, <3>9, <3>10,
               <3>11, NextCases
  <2> QED BY <1>3, <2>1, <2>2, GenerationStep
<1> QED BY <1>1, <1>2, <1>3 DEF RemovalInv

\* The invariant of the removal, with what it rests on.
LEMMA RemovalInvariant ==
    Spec => [](MigInv /\ TypeOK /\ OrderInv /\ ReadyInv /\ RemovalInv)
<1> DEFINE I == MigInv /\ TypeOK /\ OrderInv /\ ReadyInv /\ RemovalInv
<1>1. Init => I
  <2> SUFFICES ASSUME Init PROVE RemovalInv
    BY InitTyped, OrderInit
  <2>1. InheritedStatus.conds["Available"] =
           [status |-> "True", reason |-> "Available", gen |-> 1]
    BY InheritedFacts DEF Init
  <2>2. InheritedStatus.conds["Available"].reason = "Available"
    BY <2>1
  <2>3. EmptyStatus.conds["Available"].reason = "None"
    BY EmptyFacts DEF CondTypes
  <2>4. ~SaysRemoved(EmptyStatus, 1) /\ ~SaysRemoved(cr.status, 1)
    BY <2>2, <2>3, InitFacts DEF SaysRemoved
  <2>5. svm = NoSVM /\ pc = "idle"
    BY DEF Init, MigInit
  <2> QED BY <2>4, <2>5, InitFacts, EmptyFacts DEF RemovalInv
<1>2. I /\ [Next]_vars => I'
  BY NextTyped, OrderNext, ReadyNext, RemovalNext
<1> QED BY <1>1, <1>2, PTL DEF Spec

\* A reported removal has taken place, as long as no administrator has touched
\* the migration objects: what they apply by hand, or hide by uninstalling the
\* migrator, handleRemoved can neither foresee nor reach.
THEOREM RemovalHonest == Spec => [](adminOps = 0 => RemovedMeansGone)
<1>1. RemovalInv => (adminOps = 0 => RemovedMeansGone)
  BY DEF RemovalInv, SaysRemoved, Gone, RemovedMeansGone
<1> QED BY <1>1, RemovalInvariant, PTL

\* The operand itself is gone whatever an administrator does.
OperandRemoved ==
    cr.there /\ SaysRemoved(cr.status, cr.gen)
        => cr.state = "Removed" /\ dep = NoDeployment /\ ~leftover

\* Once reported for a generation, the removal of the operand holds for it.
THEOREM OperandRemovalHonest == Spec => []OperandRemoved
<1>1. RemovalInv => OperandRemoved
  BY DEF RemovalInv, Gone, OperandRemoved
<1> QED BY <1>1, RemovalInvariant, PTL

-----------------------------------------------------------------------------
(* What a pass may write, and what it may not take back                     *)

\* A status that names a release names the version of a distribution.
Released(s) == s.releases.platform # "" => s.version # ""

\* What a status keeps, of the durable conditions and of the two versions, when
\* the pass passes any verdict on it.
KeptBy(s, status) ==
    /\ \A t \in {"Migrated", "Verified"} :
          IsTrue(status.conds, t) => IsTrue(s.conds, t)
    /\ status.version # "" => s.version # ""
    /\ Released(status) =>
          /\ Released(s)
          /\ status.releases.platform # "" => s.releases.platform # ""

\* The pass keeps what its copy says is settled, the server keeps a version
\* that any copy has seen, and a pass that found the migration settled does
\* not touch it.
DurableInv ==
    /\ KeptBy(work, orig.status)
    /\ pc = "migrate" /\ IsTrue(work.conds, "Migrated")
          => verdict = Skipped /\ mpc = "done"
    /\ pcfg.available => pcfg.version # ""
    /\ cr.there => /\ cache.status.version # "" => cr.status.version # ""
                   /\ orig.status.version # "" => cr.status.version # ""
    /\ Released(cr.status) /\ Released(cache.status) /\ Released(orig.status)

\* No verdict but the migration's own takes anything back.
LEMMA KeptWork ==
    ASSUME TypeOK, MigInv, NEW status \in StatusSet,
           pcfg.available => pcfg.version # ""
    PROVE  /\ \A r \in Reasons : KeptBy(Unavailable(status, r), status)
           /\ KeptBy(Advanced(status), status)
           /\ KeptBy(Verify(status), status)
           /\ KeptBy([status EXCEPT !.conds = MarkRemoved(@, orig.gen)], status)
           /\ KeptBy(UpdateBaseStatus(status), status)
           /\ (IsTrue(status.conds, "Migrated") => verdict = Skipped)
                 => KeptBy(Migrated(status), status)
<1> USE DEF KeptBy, Released, IsTrue
<1>t. /\ orig.gen \in Nat /\ opVersion \in Versions /\ verdict \in Verdicts
      /\ pcfg \in [available : BOOLEAN, name : Names, version : Versions]
      /\ "Verified" \in CondTypes \ {"Migrated"}
      /\ "Migrated" \in CondTypes \ {"Verified"}
  BY TypeParts, CRFields
  DEF CopiesTyped, WorldTyped, PassTyped, Versions, MigInv, MigOK, CondTypes
<1>1. ASSUME NEW r \in Reasons PROVE KeptBy(Unavailable(status, r), status)
  <2> DEFINE s == Unavailable(status, r)
  <2>1. /\ s.version = status.version /\ s.releases = status.releases
        /\ \A u \in {"Verified", "Migrated"} : s.conds[u] = status.conds[u]
    BY <1>t, UnavailableFacts DEF SameButConds
  <2> HIDE DEF s
  <2>2. KeptBy(s, status)
    BY <2>1
  <2> QED BY <2>2 DEF s
<1>2. KeptBy(Advanced(status), status)
  BY <1>t, AdvancedFacts
<1>3. KeptBy(Verify(status), status)
  BY <1>t, VerifyFacts DEF SameButConds
<1>4. KeptBy([status EXCEPT !.conds = MarkRemoved(@, orig.gen)], status)
  <2> DEFINE c == MarkRemoved(status.conds, orig.gen)
  <2>1. status.conds \in CondMap
    BY DEF StatusSet, CondMap
  <2>2. \A u \in {"Verified", "Migrated"} : c[u] = status.conds[u]
    BY <1>t, <2>1, MarkRemovedFacts
  <2> HIDE DEF c
  <2>3. KeptBy([status EXCEPT !.conds = c], status)
    BY <2>2 DEF StatusSet
  <2> QED BY <2>3 DEF c
<1>5. KeptBy(UpdateBaseStatus(status), status)
  BY <1>t, BaseStatusFacts
<1>6. (IsTrue(status.conds, "Migrated") => verdict = Skipped)
         => KeptBy(Migrated(status), status)
  <2> DEFINE s == Migrated(status)
  <2>1. /\ s.version = status.version /\ s.releases = status.releases
        /\ s.conds["Verified"] = status.conds["Verified"]
        /\ verdict = Skipped => s = status
    BY <1>t, MigratedFacts DEF SameButConds
  <2> HIDE DEF s
  <2>2. (IsTrue(status.conds, "Migrated") => verdict = Skipped)
           => KeptBy(s, status)
    BY <2>1
  <2> QED BY <2>2 DEF s
<1> QED BY <1>1, <1>2, <1>3, <1>4, <1>5, <1>6

\* A status that names a version keeps naming one through a merge, and the
\* merged status names a version if it names a release.
LEMMA KeptMerge ==
    ASSUME NEW o \in StatusSet, NEW w \in StatusSet, NEW c \in StatusSet,
           NEW rewrite \in BOOLEAN,
           o.version # "" => w.version # "", o.version # "" => c.version # "",
           Released(w), Released(c)
    PROVE  LET m == MergePatch(o, w, c, rewrite)
           IN  /\ c.version # "" => m.version # ""
               /\ Released(m)
<1> DEFINE m == MergePatch(o, w, c, rewrite)
<1>1. /\ m.releases = w.releases \/ m.releases = c.releases
      /\ m.version = IF w.version # o.version THEN w.version ELSE c.version
  BY DEF MergePatch, Merge
<1> HIDE DEF m
<1>2. c.version # "" => m.version # ""
  BY <1>1
<1>3. w.version # "" => m.version # ""
  BY <1>1
<1>4. Released(m)
  BY <1>1, <1>2, <1>3 DEF Released
<1> QED BY <1>2, <1>4 DEF m

\* Keeping is transitive.
LEMMA KeptTransitive ==
    ASSUME NEW a, NEW b, NEW c, KeptBy(a, b), KeptBy(b, c)
    PROVE  KeptBy(a, c)
BY DEF KeptBy

\* Every step keeps what is durable.
LEMMA DurableNext ==
    ASSUME MigInv, TypeOK, DurableInv, [Next]_vars
    PROVE  DurableInv'
<1>t. CopiesTyped /\ PassTyped /\ WorldTyped
  BY TypeParts
<1>s. /\ cr.status \in StatusSet /\ orig.status \in StatusSet
      /\ work \in StatusSet /\ orig.gen \in Nat /\ opVersion \in Versions
  BY <1>t, CRFields DEF CopiesTyped, WorldTyped, Versions
<1>p. pcfg \in [available : BOOLEAN, name : Names, version : Versions]
  BY <1>t DEF PassTyped
<1>e. /\ NoCR.status = EmptyStatus /\ ~NoCR.there
      /\ EmptyStatus.version = "" /\ Released(EmptyStatus)
      /\ KeptBy(EmptyStatus, EmptyStatus) /\ ~NoConfig.available
  BY EmptyFacts DEF Released, KeptBy, NoConfig
<1>f. FailReasons \subseteq Reasons /\ "ConversionCheckFailed" \in Reasons
  BY DEF FailReasons, Reasons
<1>w. /\ \A r \in Reasons : KeptBy(Unavailable(work, r), work)
      /\ KeptBy(Advanced(work), work) /\ KeptBy(Verify(work), work)
      /\ KeptBy([work EXCEPT !.conds = MarkRemoved(@, orig.gen)], work)
      /\ KeptBy(UpdateBaseStatus(work), work)
      /\ (IsTrue(work.conds, "Migrated") => verdict = Skipped)
            => KeptBy(Migrated(work), work)
  BY <1>s, KeptWork DEF DurableInv
\* The pass goes on: it changes its own status only, and that by a verdict.
<1>k. ASSUME UNCHANGED <<cr, cache, orig, pcfg>>,
             work' = work \/ KeptBy(work', work),
             pc' = "migrate" /\ IsTrue(work'.conds, "Migrated")
                => verdict' = Skipped /\ mpc' = "done"
      PROVE  DurableInv'
  <2>1. KeptBy(work', orig.status)
    BY <1>k, KeptTransitive DEF DurableInv
  <2> QED BY <1>k, <2>1 DEF DurableInv
\* The pass is over, and the cache knows no more than the server.
<1>i. ASSUME Idle,
             cr'.there => (cache'.status.version # "" => cr'.status.version # ""),
             Released(cr'.status), Released(cache'.status)
      PROVE  DurableInv'
  BY <1>e, <1>i DEF Idle, DurableInv
<1>1. CASE Quiet
  <2>1. UNCHANGED <<cr, cache, orig, work, pcfg>>
    BY <1>1, QuietFacts
  <2>2. pc' = "migrate" => pc = "migrate"
    BY <1>1 DEF Quiet, RemoveOwned, Conclude, Migrate, DeploymentSync,
         OtherEvent, OwnerCollect, ConfigChange, Rollout, PodsDown, Conversion,
         MigrationWorld, vars, passVars
  <2>3. mpc = "done" => UNCHANGED <<verdict, mpc>>
    BY <1>1 DEF Quiet, RemoveOwned, Migrate, MigStep, MigDiscover, MigGet,
         MigDelete, MigCreate, DeploymentSync, OtherEvent, OwnerCollect,
         ConfigChange, Rollout, PodsDown, Conversion, MigrationWorld, Migrator,
         Serve, Admin, vars, migVars, migOnly
  <2> QED BY <1>k, <2>1, <2>2, <2>3 DEF DurableInv
<1>2. CASE StartPass
  <2>1. UNCHANGED <<cr, cache, verdict, mpc>>
    BY <1>2 DEF StartPass, crVars, migOnly
  <2>2. CASE UNCHANGED passVars
    BY <1>k, <2>1, <2>2 DEF passVars, DurableInv
  <2>3. CASE /\ orig' = cache /\ work' = cache.status
             /\ pc' = IF WantsRemoval(cache) THEN "removeOwned" ELSE "deploy"
             /\ pcfg' \in {PlatformConfig, NoConfig}
    <3>1. pcfg'.available => pcfg'.version # ""
      BY <1>t, <1>e, <2>3, PlatformConfigFacts DEF WorldTyped
    <3>2. KeptBy(cache.status, cache.status)
      BY DEF KeptBy
    <3> QED BY <2>1, <2>3, <3>1, <3>2 DEF DurableInv
  <2> QED BY <1>2, <2>2, <2>3, StartPassFacts
<1>3. CASE RemoveMigration
  <2>1. /\ UNCHANGED <<cr, cache, orig, pcfg>> /\ pc' = "patch"
        /\ work' \in {work, [work EXCEPT !.conds = MarkRemoved(@, orig.gen)]}
    BY <1>3 DEF RemoveMigration, Conclude, crVars
  <2> QED BY <1>k, <1>w, <2>1
<1>4. CASE Deploy \/ Collect
  <2>1. pc' # "migrate"
    BY <1>4 DEF Deploy, Collect, Conclude
  <2> QED BY <1>4, <1>f, <1>k, <1>w, <2>1, FailingSteps
<1>5. CASE SkipConversion
  <2>1. /\ UNCHANGED <<cr, cache, orig, pcfg>> /\ work' = Advanced(work)
        /\ MigEnter(IsTrue(work.conds, "Migrated"))
    BY <1>5 DEF SkipConversion, Advance, Advanced, crVars
  <2>2. work'.conds["Migrated"] = work.conds["Migrated"]
    BY <1>s, <1>p, <2>1, AdvancedFacts
  <2>3. IsTrue(work'.conds, "Migrated") => verdict' = Skipped /\ mpc' = "done"
    BY <2>1, <2>2 DEF IsTrue, MigEnter, Decide
  <2> QED BY <1>k, <1>w, <2>1, <2>3
<1>6. CASE CheckConversion
  <2>1. CASE work' = Unavailable(work, "ConversionCheckFailed") /\ pc' = "patch"
    BY <1>6, <1>f, <1>k, <1>w, <2>1, GateSteps
  <2>2. CASE /\ work' = Advanced(Verify(work))
             /\ MigEnter(IsTrue(Verify(work).conds, "Migrated"))
    <3> DEFINE v == Verify(work)
    <3>1. v \in StatusSet /\ KeptBy(v, work)
      BY <1>s, <1>w, VerifyFacts
    <3> HIDE DEF v
    <3>2. work' = Advanced(v) /\ MigEnter(IsTrue(v.conds, "Migrated"))
      BY <2>2 DEF v
    <3>3. KeptBy(Advanced(v), v)
      BY <3>1, KeptWork DEF DurableInv
    <3>4. KeptBy(work', work)
      BY <3>1, <3>2, <3>3, KeptTransitive
    <3>5. work'.conds["Migrated"] = v.conds["Migrated"]
      BY <1>s, <1>p, <3>1, <3>2, AdvancedFacts
    <3>6. IsTrue(work'.conds, "Migrated")
             => verdict' = Skipped /\ mpc' = "done"
      BY <3>2, <3>5 DEF IsTrue, MigEnter, Decide
    <3> QED BY <1>6, <1>k, <3>4, <3>6, GateSteps
  <2> QED BY <1>6, <2>1, <2>2, GateSteps
<1>7. CASE MigrateDone
  <2>1. /\ UNCHANGED <<cr, cache, orig, pcfg>> /\ work' = Migrated(work)
        /\ pc = "migrate" /\ pc' = "patch"
    BY <1>7 DEF MigrateDone, Conclude, crVars
  <2> QED BY <1>k, <1>w, <2>1 DEF DurableInv
<1>8. CASE PatchStatus
  <2>1. Idle /\ cache' = cache
    BY <1>8, PatchStatusFacts
  <2>2. CASE cr' = cr
    BY <1>i, <2>1, <2>2 DEF DurableInv
  <2>3. ASSUME cr.there, NEW rewrite \in BOOLEAN,
               cr' = [cr EXCEPT !.status = MergePatch(orig.status,
                         UpdateBaseStatus(work), cr.status, rewrite)]
        PROVE  DurableInv'
    <3> DEFINE w == UpdateBaseStatus(work)
               m == MergePatch(orig.status, w, cr.status, rewrite)
    <3>1. w \in StatusSet /\ KeptBy(w, orig.status)
      BY <1>s, <1>w, BaseStatusFacts, KeptTransitive DEF DurableInv
    <3>2. /\ orig.status.version # "" => w.version # ""
          /\ Released(w) /\ Released(cr.status)
          /\ orig.status.version # "" => cr.status.version # ""
      <4> HIDE DEF w
      <4> QED BY <2>3, <3>1 DEF KeptBy, DurableInv
    <3>3. /\ m \in StatusSet /\ Released(m)
          /\ cr.status.version # "" => m.version # ""
      <4> HIDE DEF w
      <4>1. rewrite \in BOOLEAN
        BY <2>3
      <4>2. m \in StatusSet
        BY <1>s, <3>1 DEF MergePatch, Merge, StatusSet
      <4>3. Released(m) /\ (cr.status.version # "" => m.version # "")
        BY <1>s, <3>1, <3>2, <4>1, KeptMerge, Zenon
      <4> QED BY <4>2, <4>3
    <3> HIDE DEF m
    <3>4. cr' = [cr EXCEPT !.status = m]
      BY <2>3 DEF m
    <3>5. cr'.status = m
      BY <1>t, <3>3, <3>4, WithStatus DEF CopiesTyped
    <3>6. /\ cache.status.version # "" => cr'.status.version # ""
          /\ Released(cr'.status) /\ Released(cache.status)
      BY <2>3, <3>3, <3>5 DEF DurableInv
    <3> QED BY <1>i, <2>1, <3>6
  <2> QED BY <1>8, <2>2, <2>3, PatchStatusFacts
<1>9. CASE CacheSync
  <2>1. UNCHANGED <<cr, orig, work, pcfg, pc, verdict, mpc>> /\ cache' = cr
    BY <1>9 DEF CacheSync, passVars, migVars
  <2> QED BY <2>1 DEF DurableInv
<1>10. CASE EditResource
  <2>1. UNCHANGED <<cache, orig, work, pcfg, pc, verdict, mpc>>
    BY <1>10 DEF EditResource, passVars, migVars
  <2>2. /\ cr'.there => cr.there /\ cr'.status = cr.status
        /\ Released(cr'.status)
    BY <1>10, <1>t, <1>e, EditFacts DEF EditResource, CopiesTyped, DurableInv
  <2> QED BY <2>1, <2>2 DEF DurableInv
<1>11. CASE Restart
  <2>1. Idle /\ cache' = cr /\ cr' = cr
    BY <1>11 DEF Restart
  <2> QED BY <1>i, <2>1 DEF DurableInv
<1> QED BY <1>1, <1>2, <1>3, <1>4, <1>5, <1>6, <1>7, <1>8, <1>9, <1>10, <1>11,
           NextCases


\* A behaviour starts with nothing durable, or with an inherited version.
LEMMA DurableInit == Init => DurableInv
<1> SUFFICES ASSUME Init PROVE DurableInv
  OBVIOUS
<1>1. /\ config \in ConfigMaps /\ opVersion \in {OldVersion, NewVersion}
      /\ opVersion = OldVersion /\ pcfg = NoConfig
  BY DEF Init
<1>2. Released(EmptyStatus) /\ KeptBy(EmptyStatus, EmptyStatus)
  BY EmptyFacts DEF Released, KeptBy
<1>3. Released(InheritedStatus)
  BY <1>1, InheritedFacts DEF Released
<1>4. ~NoConfig.available
  BY DEF NoConfig
<1> QED BY <1>1, <1>2, <1>3, <1>4, InitFacts, EmptyFacts DEF DurableInv

\* What is durable is kept throughout.
LEMMA DurableInvariant == Spec => [](MigInv /\ TypeOK /\ DurableInv)
<1>1. Init => MigInv /\ TypeOK /\ DurableInv
  BY InitTyped, DurableInit
<1>2. (MigInv /\ TypeOK /\ DurableInv) /\ [Next]_vars
         => (MigInv /\ TypeOK /\ DurableInv)'
  BY NextTyped, DurableNext
<1> QED BY <1>1, <1>2, PTL DEF Spec

\* A pass whose copy is the server's sends all it has worked out: the merge
\* loses nothing, whether or not a message changed.
LEMMA FreshMerge ==
    ASSUME NEW o \in StatusSet, NEW w \in StatusSet, NEW rewrite
    PROVE  MergePatch(o, w, o, rewrite) = w
<1> DEFINE m == MergePatch(o, w, o, rewrite)
<1>1. m = [conds |-> w.conds, obs |-> w.obs, phase |-> w.phase,
           releases |-> w.releases, name |-> w.name, version |-> w.version]
  BY DEF MergePatch, Merge
<1>2. w = [conds |-> w.conds, obs |-> w.obs, phase |-> w.phase,
           releases |-> w.releases, name |-> w.name, version |-> w.version]
  BY DEF StatusSet
<1> QED BY <1>1, <1>2

\* A pass that ends with a fresh copy writes exactly its own status, or nothing.
LEMMA FreshPatchFacts ==
    ASSUME TypeOK, [Next]_vars, FreshPatch
    PROVE  cr' = cr \/ cr'.status = UpdateBaseStatus(work)
<1>1. pc = "patch" /\ pc' = "idle" /\ cr.there /\ orig.status = cr.status
  BY DEF FreshPatch
<1>2. PatchStatus \/ cr' = cr
  <2>1. CASE Quiet
    BY <2>1, QuietFacts
  <2>2. CASE ~Quiet
    BY <1>1, <2>2, NextCases
    DEF StartPass, RemoveMigration, Deploy, Collect, SkipConversion,
        CheckConversion, MigrateDone, CacheSync, EditResource, Restart, passVars
  <2> QED BY <2>1, <2>2
<1>3. CASE PatchStatus /\ cr' # cr
  <2>1. PICK rewrite \in BOOLEAN :
           cr' = [cr EXCEPT !.status = MergePatch(orig.status,
                     UpdateBaseStatus(work), cr.status, rewrite)]
    BY <1>3, PatchStatusFacts
  <2>2. /\ cr \in CRSet /\ cr.status \in StatusSet /\ work \in StatusSet
        /\ orig.gen \in Nat /\ opVersion \in Versions
    BY TypeParts, CRFields DEF CopiesTyped, WorldTyped, Versions
  <2> DEFINE w == UpdateBaseStatus(work)
  <2>3. w \in StatusSet
    BY <2>2, BaseStatusFacts
  <2> HIDE DEF w
  <2>4. MergePatch(orig.status, w, cr.status, rewrite) = w
    BY <1>1, <2>2, <2>3, FreshMerge
  <2>5. cr' = [cr EXCEPT !.status = w]
    BY <2>1, <2>4 DEF w
  <2>6. cr'.status = w
    BY <2>2, <2>3, <2>5, WithStatus
  <2> QED BY <2>6 DEF w
<1> QED BY <1>2, <1>3

\* A pass with the latest status never takes back completion, the marker, the
\* platform version or the platform release.
THEOREM FreshKeeps == Spec => DurableUnlessStale
<1>1. MigInv /\ TypeOK /\ DurableInv /\ [Next]_vars =>
         [FreshPatch =>
             /\ \A t \in {"Migrated", "Verified"} :
                   IsTrue(cr.status.conds, t) => IsTrue(cr'.status.conds, t)
             /\ cr.status.version # "" => cr'.status.version # ""
             /\ cr.status.releases.platform # "" =>
                   cr'.status.releases.platform # ""]_vars
  <2> SUFFICES ASSUME MigInv, TypeOK, DurableInv, [Next]_vars, FreshPatch
               PROVE  /\ \A t \in {"Migrated", "Verified"} :
                            IsTrue(cr.status.conds, t)
                               => IsTrue(cr'.status.conds, t)
                      /\ cr.status.version # "" => cr'.status.version # ""
                      /\ cr.status.releases.platform # "" =>
                            cr'.status.releases.platform # ""
    OBVIOUS
  <2>1. CASE cr' = cr
    BY <2>1
  <2>2. CASE cr' # cr
    <3>1. cr'.status = UpdateBaseStatus(work)
      BY <2>2, FreshPatchFacts
    <3>2. work \in StatusSet /\ orig.status = cr.status
      BY TypeParts DEF CopiesTyped, FreshPatch
    <3>3. KeptBy(UpdateBaseStatus(work), work)
      BY <3>2, KeptWork DEF DurableInv
    <3>4. KeptBy(UpdateBaseStatus(work), cr.status)
      BY <3>2, <3>3, KeptTransitive DEF DurableInv
    <3>5. KeptBy(cr'.status, cr.status) /\ Released(cr.status)
      BY <3>1, <3>4 DEF DurableInv
    <3> QED BY <3>5 DEF KeptBy
  <2> QED BY <2>1, <2>2
<1> QED BY <1>1, DurableInvariant, PTL DEF Spec, DurableUnlessStale


-----------------------------------------------------------------------------
(* The loop implements the gated handshake                                  *)

\* The status a pass builds names the version it read, or the one its copy
\* names; it moves to the former past the gate only.  A pass that could not
\* read the config works towards nothing.
TargetInv ==
    /\ work.version # orig.status.version
          => pcfg.available /\ work.version = pcfg.version /\ listed
    /\ ~pcfg.available => pcfg.version = ""

LEMMA NoConfigFacts == ~NoConfig.available /\ NoConfig.version = ""
BY DEF NoConfig

\* Only Advanced changes the version.
LEMMA VersionWork ==
    ASSUME TypeOK, MigInv, NEW status \in StatusSet
    PROVE  /\ \A r \in Reasons : Unavailable(status, r).version = status.version
           /\ Verify(status).version = status.version
           /\ Migrated(status).version = status.version
           /\ [status EXCEPT !.conds = MarkRemoved(@, orig.gen)].version
                 = status.version
           /\ Advanced(status).version =
                 IF pcfg.available THEN pcfg.version ELSE status.version
<1>t. /\ orig.gen \in Nat /\ verdict \in Verdicts
      /\ pcfg \in [available : BOOLEAN, name : Names, version : Versions]
  BY TypeParts, CRFields DEF CopiesTyped, PassTyped, MigInv, MigOK
<1>1. \A r \in Reasons : Unavailable(status, r).version = status.version
  BY DEF Unavailable, StatusSet
<1>2. Verify(status).version = status.version
  BY DEF Verify, StatusSet
<1>3. Migrated(status).version = status.version
  BY DEF Migrated, StatusSet
<1>4. [status EXCEPT !.conds = MarkRemoved(@, orig.gen)].version = status.version
  BY DEF StatusSet
<1>5. Advanced(status).version =
         IF pcfg.available THEN pcfg.version ELSE status.version
  BY <1>t, AdvancedFacts
<1> QED BY <1>1, <1>2, <1>3, <1>4, <1>5

\* Every step keeps the pass on its target.
LEMMA TargetNext ==
    ASSUME MigInv, TypeOK, GateInv, TargetInv, [Next]_vars
    PROVE  TargetInv'
<1>t. CopiesTyped /\ PassTyped /\ WorldTyped /\ HistoryTyped
  BY TypeParts
<1>s. work \in StatusSet
  BY <1>t DEF CopiesTyped
<1>l. listed => listed'
  BY HistoryStep DEF historyVars
<1>f. FailReasons \subseteq Reasons /\ "ConversionCheckFailed" \in Reasons
  BY DEF FailReasons, Reasons
\* The pass goes on with the version it has.
<1>k. ASSUME UNCHANGED <<orig, pcfg>>, work'.version = work.version
      PROVE  TargetInv'
  BY <1>k, <1>l DEF TargetInv
\* The pass goes on past the gate.
<1>a. ASSUME UNCHANGED <<orig, pcfg>>, listed', NEW status \in StatusSet,
             status.version = work.version, work' = Advanced(status)
      PROVE  TargetInv'
  <2>1. work'.version = IF pcfg.available THEN pcfg.version ELSE work.version
    BY <1>a, VersionWork
  <2> QED BY <1>a, <2>1 DEF TargetInv
\* The pass is over.
<1>i. Idle => TargetInv'
  BY EmptyFacts, NoConfigFacts DEF Idle, TargetInv
<1>1. CASE Quiet
  BY <1>1, <1>k, QuietFacts
<1>2. CASE StartPass
  <2>1. CASE UNCHANGED passVars
    BY <1>k, <2>1 DEF passVars
  <2>2. CASE orig' = cache /\ work' = cache.status
             /\ pcfg' \in {PlatformConfig, NoConfig}
    <3>1. ~pcfg'.available => pcfg'.version = ""
      BY <1>t, <2>2, PlatformConfigFacts, NoConfigFacts DEF WorldTyped
    <3> QED BY <2>2, <3>1 DEF TargetInv
  <2> QED BY <1>2, <2>1, <2>2, StartPassFacts
<1>3. CASE RemoveMigration
  <2>1. /\ UNCHANGED <<orig, pcfg>>
        /\ work' \in {work, [work EXCEPT !.conds = MarkRemoved(@, orig.gen)]}
    BY <1>3 DEF RemoveMigration, Conclude
  <2>2. work'.version = work.version
    BY <1>s, <2>1, VersionWork
  <2> QED BY <1>k, <2>1, <2>2
<1>4. CASE Deploy \/ Collect
  <2>1. work'.version = work.version
    BY <1>4, <1>s, <1>f, FailingSteps, VersionWork
  <2> QED BY <1>4, <1>k, <2>1, FailingSteps
<1>5. CASE SkipConversion
  <2>1. /\ UNCHANGED <<orig, pcfg, listed>> /\ work' = Advanced(work)
        /\ IsTrue(work.conds, "Verified")
    BY <1>5 DEF SkipConversion, Advance, Advanced, HandshakeSettled, historyVars
  <2>2. listed
    BY <2>1 DEF GateInv, GatedBy
  <2> QED BY <1>a, <1>s, <2>1, <2>2
<1>6. CASE CheckConversion
  <2>1. CASE work' = Unavailable(work, "ConversionCheckFailed")
    <3>1. work'.version = work.version
      BY <1>s, <1>f, <2>1, VersionWork
    <3> QED BY <1>6, <1>k, <3>1, GateSteps
  <2>2. CASE work' = Advanced(Verify(work)) /\ listed' = TRUE
    <3>1. /\ Verify(work) \in StatusSet
          /\ Verify(work).version = work.version
      BY <1>s, <1>t, CRFields, VerifyFacts, VersionWork DEF CopiesTyped
    <3> QED BY <1>6, <1>a, <2>2, <3>1, GateSteps
  <2> QED BY <1>6, <2>1, <2>2, GateSteps
<1>7. CASE MigrateDone
  <2>1. UNCHANGED <<orig, pcfg>> /\ work' = Migrated(work)
    BY <1>7 DEF MigrateDone, Conclude
  <2>2. work'.version = work.version
    BY <1>s, <2>1, VersionWork
  <2> QED BY <1>k, <2>1, <2>2
<1>8. CASE PatchStatus \/ Restart
  BY <1>8, <1>i DEF PatchStatus, Restart
<1>9. CASE CacheSync \/ EditResource
  BY <1>9, <1>k DEF CacheSync, EditResource, passVars
<1> QED BY <1>1, <1>2, <1>3, <1>4, <1>5, <1>6, <1>7, <1>8, <1>9, NextCases

\* A pass that publishes moves the recorded version to its target, or not at
\* all, and publishes nothing that was not verified.
LEMMA PublishStep ==
    ASSUME MigInv, TypeOK, GateInv, DurableInv, TargetInv, GateInv', PatchStatus
    PROVE  Gate!Publish
<1>s. /\ cr \in CRSet /\ cr.status \in StatusSet /\ orig.status \in StatusSet
      /\ work \in StatusSet /\ orig.gen \in Nat /\ opVersion \in Versions
  BY TypeParts, CRFields DEF CopiesTyped, WorldTyped, Versions
<1>1. /\ pcfg' = NoConfig /\ NoConfig.version = ""
      /\ UNCHANGED <<config, opVersion, conv, verified, listed>>
  BY DEF PatchStatus, Idle, NoConfig, worldVars, historyVars
<1>2. /\ cr'.status.version \in verified
      /\ cr'.status.releases.platform \in verified
      /\ IsTrue(cr'.status.conds, "Verified") => listed
  BY <1>1 DEF GateInv, GatedBy
<1>3. \/ cr'.status.version = cr.status.version
      \/ /\ cr'.status.version = pcfg.version /\ pcfg.version # "" /\ listed
  <2>1. CASE cr' = cr
    BY <2>1
  <2>2. ASSUME NEW rewrite \in BOOLEAN,
               cr' = [cr EXCEPT !.status = MergePatch(orig.status,
                         UpdateBaseStatus(work), cr.status, rewrite)]
        PROVE  \/ cr'.status.version = cr.status.version
               \/ /\ cr'.status.version = pcfg.version /\ pcfg.version # ""
                  /\ listed
    <3> DEFINE w == UpdateBaseStatus(work)
               m == MergePatch(orig.status, w, cr.status, rewrite)
    <3>1. w \in StatusSet /\ w.version = work.version
      BY <1>s, BaseStatusFacts
    <3> HIDE DEF w
    <3>2. m.version = IF w.version # orig.status.version THEN w.version
                                                         ELSE cr.status.version
      BY DEF MergePatch, Merge
    <3>4. m \in StatusSet
      BY <1>s, <3>1 DEF MergePatch, Merge, StatusSet
    <3> HIDE DEF m
    <3>3. cr'.status = m
      <4>1. cr' = [cr EXCEPT !.status = m]
        BY <2>2 DEF m, w
      <4> QED BY <1>s, <3>4, <4>1, WithStatus
    <3> QED BY <3>1, <3>2, <3>3 DEF TargetInv, DurableInv
  <2> QED BY <2>1, <2>2, PatchStatusFacts
<1>4. PlatformConfig' = PlatformConfig
  BY <1>1 DEF PlatformConfig
<1> QED BY <1>1, <1>2, <1>3, <1>4 DEF Gate!Publish

\* Every step of the loop is a step of the handshake, or none.
LEMMA HandshakeStep ==
    ASSUME MigInv, TypeOK, GateInv, DurableInv, TargetInv, GateInv', [Next]_vars
    PROVE  Gate!HandshakeNext
<1>t. CopiesTyped /\ PassTyped /\ WorldTyped
  BY TypeParts
\* The pass goes on, or ends without a word; the status is as it was.
<1>o. ASSUME cr'.status = cr.status, pcfg' \in {pcfg, NoConfig},
             UNCHANGED historyVars
      PROVE  Gate!HandshakeNext
  <2>1. /\ cr'.status.version = cr.status.version
        /\ cr'.status.releases.platform = cr.status.releases.platform
        /\ IsTrue(cr'.status.conds, "Verified")
              = IsTrue(cr.status.conds, "Verified")
    BY <1>o
  <2>2. pcfg'.version \in {pcfg.version, ""}
    BY <1>o, NoConfigFacts
  <2>3. Gate!Outside
    BY <1>o, <2>1, <2>2 DEF Gate!Outside, Gate!statusVars, historyVars
  <2> QED BY <2>3 DEF Gate!HandshakeNext
<1>1. CASE CheckConversion
  <2>1. CASE UNCHANGED historyVars
    BY <1>1, <1>o, <2>1, GateSteps
  <2>2. CASE ~UNCHANGED historyVars
    <3>1. /\ conv = "ok" /\ listed' = TRUE
          /\ verified' = verified \union
                (IF pcfg.available THEN {pcfg.version} ELSE {})
          /\ UNCHANGED <<cr, pcfg, config, opVersion, conv>>
      BY <1>1, <2>2 DEF CheckConversion, crVars, worldVars
    <3>2. verified' = verified \union {pcfg.version}
      BY <3>1 DEF GateInv, TargetInv
    <3>3. PlatformConfig' = PlatformConfig
      BY <3>1 DEF PlatformConfig
    <3>4. Gate!Verified
      BY <3>1, <3>2, <3>3 DEF Gate!Verified, Gate!statusVars
    <3> QED BY <3>4 DEF Gate!HandshakeNext
  <2> QED BY <2>1, <2>2
<1>h. CASE ~CheckConversion
  <2>h. UNCHANGED historyVars
    BY <1>h, HistoryStep
  <2>1. CASE \/ Quiet \/ RemoveMigration \/ Deploy \/ Collect \/ SkipConversion
             \/ MigrateDone \/ CacheSync \/ Restart
    <3>1. cr' = cr /\ pcfg' \in {pcfg, NoConfig}
      BY <2>1, QuietFacts
      DEF RemoveMigration, Deploy, Collect, SkipConversion, MigrateDone,
          CacheSync, Restart, Idle, crVars, passVars
    <3> QED BY <1>o, <2>h, <3>1
  <2>2. CASE StartPass
    <3>1. UNCHANGED <<cr, config, opVersion, conv>>
      BY <2>2 DEF StartPass, crVars, worldVars
    <3>2. CASE pcfg' = pcfg
      BY <1>o, <2>h, <3>1, <3>2
    <3>3. CASE pcfg' \in {PlatformConfig, NoConfig}
      <4>1. pcfg'.version \in {PlatformConfig.version, ""}
        BY <3>3, NoConfigFacts
      <4>2. PlatformConfig' = PlatformConfig
        BY <3>1 DEF PlatformConfig
      <4>3. Gate!Ask
        BY <2>h, <3>1, <4>1, <4>2
        DEF Gate!Ask, Gate!statusVars, historyVars
      <4> QED BY <4>3 DEF Gate!HandshakeNext
    <3> QED BY <2>2, <3>2, <3>3, StartPassFacts DEF passVars
  <2>3. CASE PatchStatus
    BY <2>3, PublishStep DEF Gate!HandshakeNext
  <2>4. CASE EditResource
    <3>1. UNCHANGED <<pcfg, config, opVersion, conv>>
      BY <2>4 DEF EditResource, passVars, worldVars
    <3>2. CASE cr' = NoCR
      <4>1. /\ cr'.status.version = "" /\ cr'.status.releases.platform = ""
            /\ IsTrue(cr'.status.conds, "Verified") = FALSE
        BY <3>2, EmptyFacts DEF CondTypes, IsTrue
      <4>2. PlatformConfig' = PlatformConfig
        BY <3>1 DEF PlatformConfig
      <4>3. Gate!Forget
        BY <2>h, <3>1, <4>1, <4>2 DEF Gate!Forget, historyVars
      <4> QED BY <4>3 DEF Gate!HandshakeNext
    <3>3. CASE cr' # NoCR
      <4>1. cr'.status = cr.status
        BY <1>t, <2>4, <3>3, EditFacts DEF EditResource, CopiesTyped
      <4> QED BY <1>o, <2>h, <3>1, <4>1
    <3> QED BY <3>2, <3>3
  <2> QED BY <1>h, <2>1, <2>2, <2>3, <2>4, NextCases
<1> QED BY <1>1, <1>h

\* The reconcile loop implements the handshake the platform operator relies
\* on, for every ConfigMap content, operator version, inherited status and
\* number of faults: its recorded version moves only to the version that the
\* pass found asked for, only once a LIST has verified it (reconcile,
\* conversionHandshakeSettled, setDistributionStatus, setReleases, patchStatus).
THEOREM LoopIsHandshake == Spec => ImplementsHandshake
<1> DEFINE I == MigInv /\ TypeOK /\ GateInv /\ DurableInv /\ TargetInv
<1>1. ASSUME Init PROVE I /\ Gate!HandshakeInit
  <2>1. MigInv /\ TypeOK /\ GateInv /\ DurableInv
    BY <1>1, InitTyped, GateInit, DurableInit
  <2>2. /\ orig = NoCR /\ work = EmptyStatus /\ pcfg = NoConfig
        /\ verified = {"", cr.status.version} /\ listed = FALSE
    BY <1>1 DEF Init
  <2>3. TargetInv
    BY <2>2, EmptyFacts DEF TargetInv, NoConfig
  <2>4. /\ cr.status.releases.platform \in verified
        /\ IsTrue(cr.status.conds, "Verified") => listed
    BY <2>1 DEF GateInv, GatedBy
  <2>5. Gate!HandshakeInit
    BY <2>2, <2>4 DEF Gate!HandshakeInit, NoConfig, IsTrue
  <2> QED BY <2>1, <2>3, <2>5
<1>2. I /\ [Next]_vars => I'
  BY NextTyped, GateNext, DurableNext, TargetNext
<1>3. I /\ I' /\ [Next]_vars => [Gate!HandshakeNext]_(Gate!handshakeVars)
  BY HandshakeStep
<1> HIDE DEF I
<1> QED BY <1>1, <1>2, <1>3, PTL
        DEF Spec, ImplementsHandshake, Gate!HandshakeSpec


-----------------------------------------------------------------------------
(* The migration inside the whole loop                                      *)

\* The retry budget holds in the whole loop, where the count is also lost to a
\* removal, to the collection of what a deleted resource owned, and to passes
\* that end early (storage_migration.go: maxStorageMigrationRetries).
THEOREM LoopRetriesBounded == Spec => []RetryBudget
<1>1. MigInv => RetryBudget
  BY MigInvBudget
<1> QED BY <1>1, RecTyped, PTL

\* No step of the pass or of the cluster comes between Get and Delete but
\* those of the migration's own world, a removal and a collection.
LEMMA RecRetryNext ==
    ASSUME MigInv, RetryInv, [Next]_vars
    PROVE  RetryInv'
<1>1. CASE Migrate
  BY <1>1, RetryMigStep DEF Migrate
<1>2. CASE MigrationWorld
  BY <1>2, RetryWorld DEF MigrationWorld
<1>3. CASE SkipConversion \/ MigrateDone \/ Restart
  <2>1. mpc' # "delete"
    BY <1>3 DEF SkipConversion, Advance, MigEnter, Decide, MigrateDone, Restart,
                MigLeave
  <2> QED BY <2>1 DEF RetryInv, RetryDeletesFailed, RetryTarget
<1>4. CASE CheckConversion
  <2>1. CASE Advance(Verify(work))
    <3>1. mpc' # "delete"
      BY <2>1 DEF Advance, MigEnter, Decide
    <3> QED BY <3>1 DEF RetryInv, RetryDeletesFailed, RetryTarget
  <2>2. CASE UNCHANGED migOnly
    BY <2>2, RetryElsewhere DEF migOnly
  <2> QED BY <1>4, <2>1, <2>2 DEF CheckConversion
<1>5. CASE RemoveMigration \/ OwnerCollect
  <2>1. mpc' = mpc /\ svm' \in {svm, NoSVM}
    BY <1>5 DEF RemoveMigration, MigRemove, OwnerCollect
  <2> QED BY <2>1, RetryElsewhere
<1>6. CASE \/ StartPass \/ RemoveOwned \/ Deploy \/ Collect \/ PatchStatus
           \/ CacheSync \/ DeploymentSync \/ OtherEvent \/ EditResource
           \/ ConfigChange \/ Rollout \/ PodsDown \/ Conversion
           \/ UNCHANGED vars
  <2>1. mpc' = mpc /\ svm' = svm
    BY <1>6 DEF StartPass, RemoveOwned, Deploy, Collect, PatchStatus,
        CacheSync, DeploymentSync, OtherEvent, EditResource, ConfigChange,
        Rollout, PodsDown, Conversion, vars, migVars, migOnly
  <2> QED BY <2>1, RetryElsewhere
<1> QED BY <1>1, <1>2, <1>3, <1>4, <1>5, <1>6 DEF Next, Pass, World

\* It holds throughout.
LEMMA RecRetryInvariant == Spec => [](MigInv /\ TypeOK /\ RetryInv)
<1>1. Init => MigInv /\ TypeOK /\ RetryInv
  <2>1. Init => mpc = "out"
    BY DEF Init, MigInit
  <2> QED BY <2>1, InitTyped DEF RetryInv, RetryDeletesFailed, RetryTarget
<1>2. (MigInv /\ TypeOK /\ RetryInv) /\ [Next]_vars
         => (MigInv /\ TypeOK /\ RetryInv)'
  BY NextTyped, RecRetryNext
<1> QED BY <1>1, <1>2, PTL DEF Spec

\* In the whole loop, too, a retry deletes a failed migration or one that an
\* administrator applied after Get, across removals, collections, restarts and
\* upgrades (observeStorageMigration).
THEOREM LoopRetriesOnlyFailed == Spec => []RetryDeletesFailed
<1>1. RetryInv => RetryDeletesFailed
  BY DEF RetryInv
<1> QED BY <1>1, RecRetryInvariant, PTL

\* What takes a failed object of a spent budget away.
EvidenceTaken ==
    \/ adminOps' # adminOps       \* an administrator
    \/ pc = "removeMigration"     \* handleRemoved
    \/ ~cr.there                  \* Kubernetes, with the resource

LEMMA RecEvidenceStep ==
    ASSUME MigInv, RetryInv, [Next]_vars,
           svm.phase = "Failed", svm.attempt >= MaxRetries, svm' # svm
    PROVE  EvidenceTaken
<1>1. ~Migrate
  BY SpentObjectKept DEF Migrate
<1>2. CASE MigrationWorld
  <2>1. Admin
    BY <1>2 DEF MigrationWorld, Migrator, Serve
  <2>2. adminOps \in Nat
    BY MigrationAssumption DEF MigInv, MigOK
  <2> QED BY <2>1, <2>2 DEF Admin, AdminOp, EvidenceTaken
<1>3. CASE RemoveMigration \/ OwnerCollect
  BY <1>3 DEF RemoveMigration, OwnerCollect, EvidenceTaken
<1>4. ~(\/ StartPass \/ RemoveOwned \/ Deploy \/ Collect \/ PatchStatus
        \/ SkipConversion \/ CheckConversion \/ MigrateDone \/ Restart
        \/ CacheSync \/ DeploymentSync \/ OtherEvent \/ EditResource
        \/ ConfigChange \/ Rollout \/ PodsDown \/ Conversion
        \/ UNCHANGED vars)
  BY DEF StartPass, RemoveOwned, Deploy, Collect, PatchStatus,
         SkipConversion, CheckConversion, Advance, MigEnter, MigrateDone,
         Restart, MigLeave, CacheSync, DeploymentSync, OtherEvent, EditResource,
         ConfigChange, Rollout, PodsDown, Conversion, vars, migVars, migOnly
<1> QED BY <1>1, <1>2, <1>3, <1>4 DEF Next, Pass, World

\* The evidence of a spent budget outlives passes, restarts and upgrades: only
\* an administrator, a removal or the deletion of the resource takes it away
\* (the failed object that observeStorageMigration leaves in place).
THEOREM LoopEvidenceStays ==
    Spec => [][svm.phase = "Failed" /\ svm.attempt >= MaxRetries /\ svm' # svm
                  => EvidenceTaken]_vars
<1>1. MigInv /\ TypeOK /\ RetryInv /\ [Next]_vars =>
         [svm.phase = "Failed" /\ svm.attempt >= MaxRetries /\ svm' # svm
             => EvidenceTaken]_vars
  BY RecEvidenceStep
<1> QED BY <1>1, RecRetryInvariant, PTL DEF Spec

\* A status asserts completion only if d.
GroundedBy(s, d) == IsTrue(s.conds, "Migrated") => d

\* Every copy of the status is grounded in a success, because any of them may
\* be patched onto the server's or end the migration of a later pass.
LoopCompletionHonest ==
    \A s \in {cr.status, cache.status, orig.status, work} :
        IsTrue(s.conds, "Migrated") => succeeded

\* Only the verdict Completed turns the condition True.
LEMMA GroundedWork ==
    ASSUME TypeOK, MigInv, NEW d, NEW status \in StatusSet,
           GroundedBy(status, d)
    PROVE  /\ \A r \in Reasons : GroundedBy(Unavailable(status, r), d)
           /\ GroundedBy(Advanced(status), d)
           /\ GroundedBy(Verify(status), d)
           /\ GroundedBy(UpdateBaseStatus(status), d)
           /\ (verdict = Completed => d) => GroundedBy(Migrated(status), d)
           /\ GroundedBy([status EXCEPT !.conds = MarkRemoved(@, orig.gen)], d)
<1> USE DEF GroundedBy, IsTrue
<1>t. /\ orig.gen \in Nat /\ opVersion \in Versions /\ verdict \in Verdicts
      /\ pcfg \in [available : BOOLEAN, name : Names, version : Versions]
      /\ "Migrated" \in CondTypes \ {"Verified"}
  BY TypeParts, CRFields
  DEF CopiesTyped, WorldTyped, PassTyped, Versions, MigInv, MigOK, CondTypes
<1>c. status.conds \in CondMap
  BY DEF StatusSet, CondMap
<1>1. \A r \in Reasons : GroundedBy(Unavailable(status, r), d)
  BY <1>t, UnavailableFacts
<1>2. GroundedBy(Advanced(status), d)
  BY <1>t, AdvancedFacts
<1>3. GroundedBy(Verify(status), d)
  BY <1>t, VerifyFacts
<1>4. GroundedBy(UpdateBaseStatus(status), d)
  BY <1>t, BaseStatusFacts
<1>5. ASSUME verdict = Completed => d PROVE GroundedBy(Migrated(status), d)
  <2>1. CASE verdict = Skipped
    BY <2>1 DEF Migrated
  <2>2. CASE verdict # Skipped
    <3> DEFINE c == SetCondition(status.conds, orig.gen, "Migrated",
                                 verdict.status, verdict.reason)
    <3>1. c["Migrated"].status = verdict.status
      BY <1>c, <1>t DEF SetCondition, CondMap
    <3>2. verdict.status = "True" => verdict = Completed
      BY <1>t, <2>2
      DEF Verdicts, Verdict, Pending, Running, Failed, GaveUp, Completed
    <3>3. Migrated(status) = [status EXCEPT !.conds = c]
      BY <2>2 DEF Migrated
    <3> HIDE DEF c
    <3>4. Migrated(status).conds = c
      BY <3>3 DEF StatusSet
    <3> QED BY <1>5, <3>1, <3>2, <3>4
  <2> QED BY <2>1, <2>2
<1>6. GroundedBy([status EXCEPT !.conds = MarkRemoved(@, orig.gen)], d)
  <2> DEFINE c == MarkRemoved(status.conds, orig.gen)
  <2>1. c["Migrated"] = status.conds["Migrated"]
    BY <1>t, <1>c, MarkRemovedFacts
  <2> HIDE DEF c
  <2>2. GroundedBy([status EXCEPT !.conds = c], d)
    BY <2>1 DEF StatusSet
  <2> QED BY <2>2 DEF c
<1> QED BY <1>1, <1>2, <1>3, <1>4, <1>5, <1>6


\* A success is not forgotten.
LEMMA SuccessKept ==
    ASSUME [Next]_vars, succeeded
    PROVE  succeeded'
BY DEF Next, Pass, World, StartPass, RemoveOwned, RemoveMigration, Deploy,
       Collect, SkipConversion, CheckConversion, Advance, MigEnter, Migrate,
       MigStep, MigDiscover, MigGet, MigDelete, MigCreate, MigrateDone,
       MigLeave, PatchStatus, CacheSync, DeploymentSync, OtherEvent,
       EditResource, OwnerCollect, ConfigChange, Rollout, PodsDown, Conversion,
       Restart, MigrationWorld, Migrator, Serve, Admin, vars, migVars, migOnly

\* Every step keeps every copy grounded.
LEMMA HonestNext ==
    ASSUME MigInv, TypeOK, LoopCompletionHonest, [Next]_vars
    PROVE  LoopCompletionHonest'
<1>t. CopiesTyped /\ PassTyped /\ WorldTyped
  BY TypeParts
<1>s. /\ cr.status \in StatusSet /\ orig.status \in StatusSet
      /\ work \in StatusSet /\ orig.gen \in Nat /\ opVersion \in Versions
  BY <1>t, CRFields DEF CopiesTyped, WorldTyped, Versions
<1> DEFINE Keeps(s) == GroundedBy(s, succeeded')
<1>o. /\ Keeps(cr.status) /\ Keeps(cache.status) /\ Keeps(orig.status)
      /\ Keeps(work)
  BY SuccessKept DEF LoopCompletionHonest, GroundedBy
<1>n. Keeps(EmptyStatus) /\ NoCR.status = EmptyStatus
  BY EmptyFacts DEF GroundedBy, CondTypes
<1>v. verdict = Completed => succeeded'
  BY SuccessKept DEF MigInv, SuccessObserved
<1> HIDE DEF Keeps
<1>w. /\ \A r \in Reasons : Keeps(Unavailable(work, r))
      /\ Keeps(Advanced(work)) /\ Keeps(Verify(work))
      /\ Keeps(UpdateBaseStatus(work)) /\ Keeps(Migrated(work))
      /\ Keeps([work EXCEPT !.conds = MarkRemoved(@, orig.gen)])
  BY <1>s, <1>o, <1>v, GroundedWork DEF Keeps
<1> SUFFICES /\ Keeps(cr'.status) /\ Keeps(cache'.status)
             /\ Keeps(orig'.status) /\ Keeps(work')
  BY DEF LoopCompletionHonest, Keeps, GroundedBy
<1>1. CASE Quiet
  BY <1>1, <1>o, QuietFacts
<1>2. CASE StartPass
  BY <1>2, <1>o, StartPassFacts DEF passVars
<1>3. CASE RemoveMigration
  <2>1. /\ UNCHANGED <<cr, cache, orig>>
        /\ work' \in {work, [work EXCEPT !.conds = MarkRemoved(@, orig.gen)]}
    BY <1>3 DEF RemoveMigration, Conclude, crVars
  <2> QED BY <1>o, <1>w, <2>1
<1>4. CASE Deploy \/ Collect
  <2>1. FailReasons \subseteq Reasons
    BY DEF FailReasons, Reasons
  <2> QED BY <1>4, <1>o, <1>w, <2>1, FailingSteps
<1>5. CASE SkipConversion
  <2>1. UNCHANGED <<cr, cache, orig>> /\ work' = Advanced(work)
    BY <1>5 DEF SkipConversion, Advance, Advanced, crVars
  <2> QED BY <1>o, <1>w, <2>1
<1>6. CASE CheckConversion
  <2>1. "ConversionCheckFailed" \in Reasons
    BY DEF Reasons
  <2>2. Verify(work) \in StatusSet
    BY <1>s, VerifyFacts
  <2>3. Keeps(Advanced(Verify(work)))
    BY <1>w, <2>2, GroundedWork DEF Keeps
  <2> QED BY <1>6, <1>o, <1>w, <2>1, <2>3, GateSteps
<1>7. CASE MigrateDone
  <2>1. UNCHANGED <<cr, cache, orig>> /\ work' = Migrated(work)
    BY <1>7 DEF MigrateDone, Conclude, crVars
  <2> QED BY <1>o, <1>w, <2>1
<1>8. CASE PatchStatus
  <2>1. orig' = NoCR /\ work' = EmptyStatus /\ cache' = cache
    BY <1>8, PatchStatusFacts DEF Idle
  <2>2. ASSUME NEW rewrite \in BOOLEAN,
               cr' = [cr EXCEPT !.status = MergePatch(orig.status,
                         UpdateBaseStatus(work), cr.status, rewrite)]
        PROVE  Keeps(cr'.status)
    <3> DEFINE w == UpdateBaseStatus(work)
               m == MergePatch(orig.status, w, cr.status, rewrite)
    <3>1. w \in StatusSet /\ Keeps(w)
      BY <1>s, <1>w, BaseStatusFacts
    <3>2. m \in StatusSet /\ (m.conds = w.conds \/ m.conds = cr.status.conds)
      <4> HIDE DEF w
      <4>1. m \in StatusSet
        BY <1>s, <3>1 DEF MergePatch, Merge, StatusSet
      <4>2. m.conds = w.conds \/ m.conds = cr.status.conds
        BY DEF MergePatch, Merge
      <4> QED BY <4>1, <4>2
    <3> HIDE DEF m, w
    <3>3. Keeps(m)
      BY <1>o, <3>1, <3>2 DEF Keeps, GroundedBy
    <3>4. cr' = [cr EXCEPT !.status = m]
      BY <2>2 DEF m, w
    <3>5. cr'.status = m
      BY <1>t, <3>2, <3>4, WithStatus DEF CopiesTyped
    <3> QED BY <3>3, <3>5
  <2>3. Keeps(cr'.status)
    BY <1>8, <1>o, <2>2, PatchStatusFacts
  <2> QED BY <1>n, <1>o, <2>1, <2>3
<1>9. CASE CacheSync
  BY <1>9, <1>o DEF CacheSync, passVars
<1>10. CASE EditResource
  <2>1. cr'.status = cr.status \/ cr'.status = EmptyStatus
    BY <1>10, <1>t, EditFacts, EmptyFacts DEF EditResource, CopiesTyped
  <2>2. UNCHANGED <<cache, orig, work>>
    BY <1>10 DEF EditResource, passVars
  <2> QED BY <1>n, <1>o, <2>1, <2>2
<1>11. CASE Restart
  <2>1. /\ orig' = NoCR /\ work' = EmptyStatus
        /\ cache' = cr /\ cr' = cr
    BY <1>11 DEF Restart, Idle
  <2> QED BY <1>n, <1>o, <2>1
<1> QED BY <1>1, <1>2, <1>3, <1>4, <1>5, <1>6, <1>7, <1>8, <1>9, <1>10, <1>11,
           NextCases

\* No copy of the status, on the server, in the cache or in a pass, says that
\* the stored objects are migrated before a migration has succeeded: not after
\* stale merges, restarts, upgrades or an inherited status (storage_migration.go,
\* storageMigrationSucceeded; mcplifecycleoperator_reconciler.go, patchStatus).
THEOREM LoopNoFalseCompletion == Spec => []LoopCompletionHonest
<1>1. Init => LoopCompletionHonest
  <2> SUFFICES ASSUME Init PROVE LoopCompletionHonest
    OBVIOUS
  <2>1. config \in ConfigMaps /\ opVersion = OldVersion
    BY DEF Init
  <2>2. ~IsTrue(EmptyStatus.conds, "Migrated")
    BY EmptyFacts DEF CondTypes
  <2>3. ~IsTrue(InheritedStatus.conds, "Migrated")
    BY <2>1, InheritedFacts
  <2> QED BY <2>2, <2>3, InitFacts, EmptyFacts DEF LoopCompletionHonest
<1>2. (MigInv /\ TypeOK /\ LoopCompletionHonest) /\ [Next]_vars
         => (MigInv /\ TypeOK /\ LoopCompletionHonest)'
  BY NextTyped, HonestNext
<1>3. Init => MigInv /\ TypeOK
  BY InitTyped
<1> QED BY <1>1, <1>2, <1>3, PTL DEF Spec

-----------------------------------------------------------------------------
(* The operator rests only when its work is done                            *)

\* What a status says of an operand that is up and verified, and of a
\* migration that has ended.
Serving(s) == \A t \in {"Available", "Ready", "Verified"} : IsTrue(s.conds, t)

MigrationOver(s) ==
    \/ IsTrue(s.conds, "Migrated")
    \/ s.conds["Migrated"].reason = "StorageMigrationFailed"

Current == dep.rev = opVersion /\ ~leftover

\* A status that reports generation g done, and is right about the operand.
\* What the pass saw of the pods holds for as long as no event says otherwise.
Finished(s, g, state) ==
    \/ state = "Removed" /\ SaysRemoved(s, g)
    \/ /\ state = "Managed" /\ Serving(s) /\ MigrationOver(s)
       /\ cr.there => Current
       /\ ~queued => depSeen = "Available"

\* While nothing is queued, the cache is the copy that the pass works from.
CopyHeld == pc # "idle" /\ ~queued => cache = orig

\* What the pass has done so far.
OperandHeld ==
    /\ pc \in {"collect", "convert", "migrate"} /\ cr.there
          => dep.rev = opVersion
    /\ pc \in {"convert", "migrate"} =>
          /\ cr.there => ~leftover
          /\ ~queued => depSeen = "Available"

WorkHeld ==
    pc = "migrate" =>
        /\ Serving(work)
        /\ mpc = "done" /\ verdict = Skipped => IsTrue(work.conds, "Migrated")

\* A pass that asks for no other has finished.
Concluded ==
    pc = "patch" /\ result = "none" => Finished(work, orig.gen, orig.state)

\* Nothing is running or queued, and the cache is up to date.
Still == pc = "idle" /\ ~queued /\ cache = cr /\ cr.there

Rested ==
    Still => /\ cr.status.obs = cr.gen
             /\ cr.status.phase = Phase(cr.status.conds)
             /\ Finished(cr.status, cr.gen, cr.state)

RestInv == CopyHeld /\ OperandHeld /\ WorkHeld /\ Concluded /\ Rested

\* A step after which nothing is queued delivers no event; only the start of
\* a pass takes the request out of the queue.
LEMMA SilentStep ==
    ASSUME TypeOK, [Next]_vars, ~queued'
    PROVE  /\ UNCHANGED <<cache, depSeen, config, opVersion>>
           /\ StartPass \/ ~queued
<1>1. queued \in BOOLEAN
  BY DEF TypeOK
<1>2. CASE \/ RemoveOwned \/ RemoveMigration \/ Deploy \/ Collect
           \/ SkipConversion \/ CheckConversion \/ Migrate \/ MigrateDone
           \/ EditResource \/ OwnerCollect \/ Rollout \/ PodsDown \/ Conversion
           \/ MigrationWorld \/ UNCHANGED vars
  <2>1. UNCHANGED <<cache, depSeen, config, opVersion>> /\ queued' = queued
    BY <1>2
    DEF RemoveOwned, RemoveMigration, Deploy, Collect, SkipConversion,
        CheckConversion, Migrate, MigrateDone, EditResource, OwnerCollect,
        Rollout, PodsDown, Conversion, MigrationWorld, vars, crVars, worldVars
  <2> QED BY <2>1, Zenon
<1>3. CASE StartPass
  BY <1>3 DEF StartPass, crVars, worldVars
<1>4. CASE PatchStatus
  <2>1. UNCHANGED <<cache, depSeen, config, opVersion>>
    BY <1>4 DEF PatchStatus, worldVars
  <2>2. queued' = (queued \/ Requeues) \/ queued' = TRUE
    BY <1>4 DEF PatchStatus
  <2> QED BY <1>1, <2>1, <2>2
<1>5. CASE CacheSync \/ DeploymentSync \/ OtherEvent \/ ConfigChange \/ Restart
  BY <1>5 DEF CacheSync, DeploymentSync, OtherEvent, ConfigChange, Restart
<1> QED BY <1>2, <1>3, <1>4, <1>5 DEF Next, Pass, World

\* Outside the steps that apply or delete it, the operand stays current unless
\* the process ends, which queues the request.
LEMMA CurrentKept ==
    ASSUME MigInv, TypeOK, [Next]_vars, cr'.there, pc' # "idle" \/ ~queued',
           pc \in {"idle", "collect", "convert", "migrate", "patch"}
    PROVE  /\ cr.there
           /\ dep.rev = opVersion => dep'.rev = opVersion'
           /\ ~leftover => ~leftover'
<1>1. cr.there
  BY GenerationStep
<1>2. dep \in DeploymentSet /\ leftover \in BOOLEAN
  BY TypeParts DEF WorldTyped
<1>3. CASE \/ StartPass \/ SkipConversion \/ CheckConversion \/ Migrate
           \/ MigrateDone \/ PatchStatus \/ CacheSync \/ DeploymentSync
           \/ OtherEvent \/ EditResource \/ ConfigChange \/ Conversion
           \/ MigrationWorld \/ UNCHANGED vars
  <2>1. dep' = dep /\ leftover' = leftover /\ opVersion' = opVersion
    BY <1>3
    DEF StartPass, SkipConversion, CheckConversion, Migrate, MigrateDone,
        PatchStatus, CacheSync, DeploymentSync, OtherEvent, EditResource,
        ConfigChange, Conversion, MigrationWorld, vars, worldVars
  <2> QED BY <1>1, <2>1, Zenon
<1>4. CASE Collect
  <2>1. /\ dep' = dep /\ opVersion' = opVersion
        /\ leftover' = leftover \/ leftover' = FALSE
    BY <1>4 DEF Collect, Swept, SweepFails
  <2>2. ~leftover => ~leftover'
    BY <1>2, <2>1
  <2>3. dep.rev = opVersion => dep'.rev = opVersion'
    BY <2>1
  <2> QED BY <1>1, <2>2, <2>3
<1>5. CASE Rollout \/ PodsDown
  <2>1. UNCHANGED <<leftover, opVersion>> /\ dep'.rev = dep.rev
    BY <1>2, <1>5 DEF Rollout, PodsDown, DeploymentSet
  <2> QED BY <1>1, <2>1
<1>6. CASE RemoveOwned \/ RemoveMigration \/ Deploy
  BY <1>6 DEF RemoveOwned, RemoveMigration, Deploy
<1>7. CASE OwnerCollect
  BY <1>1, <1>7 DEF OwnerCollect
<1>8. CASE Restart
  BY <1>8 DEF Restart, Idle
<1> QED BY <1>3, <1>4, <1>5, <1>6, <1>7, <1>8 DEF Next, Pass, World

\* A patch that leaves the server with the copy the pass read changes nothing.
LEMMA NothingPatched ==
    ASSUME NEW o \in StatusSet, NEW w \in StatusSet, NEW c \in StatusSet,
           NEW rewrite \in BOOLEAN, MergePatch(o, w, c, rewrite) = o
    PROVE  w = o
<1> DEFINE m == MergePatch(o, w, c, rewrite)
<1>1. /\ m.conds = o.conds => w.conds = o.conds
      /\ m.obs = o.obs => w.obs = o.obs
      /\ m.phase = o.phase => w.phase = o.phase
      /\ m.releases = o.releases => w.releases = o.releases
      /\ m.name = o.name => w.name = o.name
      /\ m.version = o.version => w.version = o.version
  BY DEF MergePatch, Merge
<1>2. m = o
  OBVIOUS
<1> HIDE DEF m
<1>3. /\ w.conds = o.conds /\ w.obs = o.obs /\ w.phase = o.phase
      /\ w.releases = o.releases /\ w.name = o.name /\ w.version = o.version
  BY <1>1, <1>2
<1>4. /\ w = [conds |-> w.conds, obs |-> w.obs, phase |-> w.phase,
              releases |-> w.releases, name |-> w.name, version |-> w.version]
      /\ o = [conds |-> o.conds, obs |-> o.obs, phase |-> o.phase,
              releases |-> o.releases, name |-> o.name, version |-> o.version]
  BY DEF StatusSet
<1> QED BY <1>3, <1>4

\* A verdict that asks for no requeue ends the migration.
LEMMA MigrationEnded ==
    ASSUME NEW status \in StatusSet, orig.gen \in Nat, verdict \in Verdicts,
           ~verdict.requeue,
           verdict = Skipped => IsTrue(status.conds, "Migrated")
    PROVE  MigrationOver(Migrated(status))
<1>1. verdict \in {Skipped, GaveUp, Completed}
  BY DEF Verdicts, Verdict, Skipped, Pending, Running, Failed, GaveUp, Completed
<1>2. CASE verdict = Skipped
  BY <1>2 DEF Migrated, MigrationOver
<1>3. CASE verdict # Skipped
  <2> DEFINE marked == SetCondition(status.conds, orig.gen, "Migrated",
                                    verdict.status, verdict.reason)
             s == Migrated(status)
  <2>1. status.conds \in CondMap
    BY DEF StatusSet, CondMap
  <2>2. verdict.status = "True" \/ verdict.reason = "StorageMigrationFailed"
    BY <1>1, <1>3 DEF GaveUp, Completed, Verdict
  <2>3. /\ marked["Migrated"].status = verdict.status
        /\ marked["Migrated"].reason = verdict.reason
    BY <2>1 DEF SetCondition, CondMap, CondTypes
  <2>4. s = [status EXCEPT !.conds = marked]
    BY <1>3 DEF Migrated
  <2> HIDE DEF marked
  <2>5. s.conds = marked
    BY <2>4 DEF StatusSet
  <2> HIDE DEF s
  <2>6. MigrationOver(s)
    BY <2>2, <2>3, <2>5 DEF MigrationOver, IsTrue
  <2> QED BY <2>6 DEF s
<1> QED BY <1>2, <1>3

\* While nothing is queued the cache is the running pass's copy.
LEMMA CopyNext ==
    ASSUME MigInv, TypeOK, CopyHeld, [Next]_vars
    PROVE  CopyHeld'
<1> SUFFICES ASSUME pc' # "idle", ~queued' PROVE cache' = orig'
  BY DEF CopyHeld
<1>1. UNCHANGED cache /\ (StartPass \/ ~queued)
  BY SilentStep
<1>2. CASE StartPass
  BY <1>2, StartPassFacts DEF passVars, StartPass
<1>3. CASE ~queued /\ ~StartPass
  <2>1. pc # "idle" /\ orig' = orig
    BY <1>3
    DEF Next, Pass, World, RemoveOwned, RemoveMigration, Deploy,
        Collect, SkipConversion, CheckConversion, Migrate, MigrateDone,
        PatchStatus, Idle, CacheSync, DeploymentSync, OtherEvent, EditResource,
        OwnerCollect, ConfigChange, Rollout, PodsDown, Conversion, Restart,
        MigrationWorld, vars, passVars
  <2> QED BY <1>1, <1>3, <2>1 DEF CopyHeld
<1> QED BY <1>1, <1>2, <1>3

\* The operand a pass has applied, swept and found available stays so.
LEMMA OperandNext ==
    ASSUME MigInv, TypeOK, OperandHeld, [Next]_vars
    PROVE  OperandHeld'
<1>t. dep \in DeploymentSet /\ opVersion \in {OldVersion, NewVersion}
  BY TypeParts DEF WorldTyped
<1>1. CASE Deploy
  <2>1. /\ opVersion' = opVersion
        /\ \/ pc' = "collect" /\ dep' = Applied
           \/ pc' = "patch"
    BY <1>1 DEF Deploy, Conclude
  <2>2. Applied.rev = opVersion
    BY <1>t DEF Applied, DeploymentSet
  <2> QED BY <2>1, <2>2 DEF OperandHeld
<1>2. CASE Collect
  <2>1. /\ UNCHANGED <<cr, dep, depSeen, opVersion>> /\ pc = "collect"
        /\ \/ pc' = "patch"
           \/ pc' = "convert" /\ leftover' = FALSE /\ depSeen = "Available"
    BY <1>2 DEF Collect, Swept, OperandAvailable, Conclude, crVars
  <2> QED BY <2>1 DEF OperandHeld
<1>3. CASE ~Deploy /\ ~Collect
  <2> SUFFICES ASSUME pc' \in {"collect", "convert", "migrate"}
               PROVE  OperandHeld'
    BY DEF OperandHeld
  <2>1. /\ pc \in {"collect", "convert", "migrate"}
        /\ pc' = "collect" => pc = "collect"
        /\ pc' \in {"convert", "migrate"} => pc \in {"convert", "migrate"}
        /\ ~StartPass
    BY <1>3
    DEF Next, Pass, World, StartPass, RemoveOwned, RemoveMigration, Conclude,
        SkipConversion, CheckConversion, Advance, Migrate, MigrateDone,
        PatchStatus, Idle, CacheSync, DeploymentSync, OtherEvent, EditResource,
        OwnerCollect, ConfigChange, Rollout, PodsDown, Conversion, Restart,
        MigrationWorld, vars, passVars
  <2>2. cr'.there => /\ cr.there
                     /\ dep.rev = opVersion => dep'.rev = opVersion'
                     /\ ~leftover => ~leftover'
    BY <2>1, CurrentKept
  <2>3. ~queued' => ~queued /\ depSeen' = depSeen
    BY <2>1, SilentStep
  <2> QED BY <2>1, <2>2, <2>3 DEF OperandHeld
<1> QED BY <1>1, <1>2, <1>3

\* The status of a pass that runs the migration reports the operand, and the
\* migration is skipped only if it is over.
LEMMA WorkNext ==
    ASSUME MigInv, TypeOK, WorkHeld, [Next]_vars
    PROVE  WorkHeld'
<1>t. /\ work \in StatusSet /\ orig.gen \in Nat
      /\ pcfg \in [available : BOOLEAN, name : Names, version : Versions]
  BY TypeParts, CRFields DEF CopiesTyped, PassTyped
<1> SUFFICES ASSUME pc' = "migrate" PROVE WorkHeld'
  BY DEF WorkHeld
<1>1. ASSUME NEW s \in StatusSet, Advance(s), IsTrue(s.conds, "Verified")
      PROVE  WorkHeld'
  <2>1. work' = Advanced(s) /\ MigEnter(IsTrue(s.conds, "Migrated"))
    BY <1>1 DEF Advance, Advanced
  <2>2. /\ IsTrue(Advanced(s).conds, "Available")
        /\ IsTrue(Advanced(s).conds, "Ready")
        /\ \A u \in {"Verified", "Migrated"} :
              Advanced(s).conds[u] = s.conds[u]
    BY <1>t, AdvancedFacts
  <2>3. Serving(work')
    BY <1>1, <2>1, <2>2 DEF Serving, IsTrue
  <2>4. mpc' = "done" => IsTrue(work'.conds, "Migrated")
    BY <2>1, <2>2 DEF MigEnter, Decide, IsTrue
  <2> QED BY <2>3, <2>4 DEF WorkHeld
<1>2. CASE SkipConversion
  <2>1. Advance(work) /\ IsTrue(work.conds, "Verified")
    BY <1>2 DEF SkipConversion, HandshakeSettled
  <2> QED BY <1>t, <1>1, <2>1
<1>3. CASE CheckConversion
  <2>1. Advance(Verify(work))
    BY <1>3 DEF CheckConversion, Conclude
  <2>2. Verify(work) \in StatusSet /\ IsTrue(Verify(work).conds, "Verified")
    BY <1>t, VerifyFacts
  <2> QED BY <1>1, <2>1, <2>2
<1>4. CASE Migrate
  <2>1. work' = work /\ pc = "migrate"
    BY <1>4 DEF Migrate, passVars
  <2>2. mpc' = "done" => verdict' # Skipped
    BY <1>4
    DEF Migrate, MigStep, MigDiscover, MigGet, MigDelete, MigCreate, Observe,
        Decide, Skipped, Pending, Running, Failed, GaveUp, Completed, Verdict
  <2> QED BY <2>1, <2>2 DEF WorkHeld
<1>5. CASE ~SkipConversion /\ ~CheckConversion /\ ~Migrate
  <2>1. UNCHANGED <<pc, work, mpc, verdict>>
    BY <1>5
    DEF Next, Pass, World, StartPass, RemoveOwned, RemoveMigration, Deploy,
        Collect, Conclude, MigrateDone, PatchStatus, Idle, CacheSync,
        DeploymentSync, OtherEvent, EditResource, OwnerCollect, ConfigChange,
        Rollout, PodsDown, Conversion, Restart, MigrationWorld, Migrator,
        Serve, Admin, vars, passVars, migVars, migOnly
  <2> QED BY <2>1 DEF WorkHeld
<1> QED BY <1>2, <1>3, <1>4, <1>5

\* What a finished status says of the operand lasts until an event comes.
LEMMA FinishedKept ==
    ASSUME MigInv, TypeOK, [Next]_vars, pc \in {"idle", "patch"},
           pc' # "idle" \/ ~queued', ~StartPass
    PROVE  /\ cr'.there => cr.there /\ (Current => Current')
           /\ ~queued' => ~queued /\ depSeen' = depSeen
BY CurrentKept, SilentStep DEF Current

\* A pass that asks for no other has finished what its copy asks for.
LEMMA ConcludedNext ==
    ASSUME MigInv, TypeOK, OrderInv, OperandHeld, WorkHeld, Concluded,
           [Next]_vars
    PROVE  Concluded'
<1>t. /\ work \in StatusSet /\ orig.gen \in Nat /\ verdict \in Verdicts
      /\ queued \in BOOLEAN
  BY TypeParts, CRFields DEF CopiesTyped, PassTyped, MigInv, MigOK
<1> SUFFICES ASSUME pc' = "patch", result' = "none"
             PROVE  Finished(work, orig.gen, orig.state)'
  BY DEF Concluded
<1>1. CASE RemoveMigration
  <2>1. /\ orig' = orig /\ orig.state = "Removed"
        /\ work' = [work EXCEPT !.conds = MarkRemoved(@, orig.gen)]
    BY <1>1 DEF RemoveMigration, Conclude, OrderInv
  <2>2. work.conds \in CondMap
    BY <1>t DEF StatusSet, CondMap
  <2>3. /\ work'.conds["Available"].reason = "Removed"
        /\ work'.conds["Available"].gen = orig.gen
    <3> DEFINE marked == MarkRemoved(work.conds, orig.gen)
    <3>1. marked["Available"] = [status |-> "False", reason |-> "Removed",
                                 gen |-> orig.gen]
      BY <1>t, <2>2, MarkRemovedFacts
    <3>2. work' = [work EXCEPT !.conds = marked]
      BY <2>1
    <3> HIDE DEF marked
    <3>3. work'.conds = marked
      BY <1>t, <3>2 DEF StatusSet
    <3> QED BY <3>1, <3>3
  <2> QED BY <2>1, <2>3 DEF Finished, SaysRemoved
<1>2. CASE MigrateDone
  <2>1. /\ pc = "migrate" /\ mpc = "done" /\ work' = Migrated(work)
        /\ orig' = orig /\ orig.state = "Managed"
    BY <1>2 DEF MigrateDone, Conclude, OrderInv
  <2>2. ~verdict.requeue
    BY <1>2 DEF MigrateDone, Conclude
  <2>3. MigrationOver(work')
    BY <1>t, <2>1, <2>2, MigrationEnded DEF WorkHeld
  <2>4. \A u \in CondTypes \ {"Migrated"} :
           Migrated(work).conds[u] = work.conds[u]
    BY <1>t, MigratedFacts
  <2>5. Serving(work')
    BY <2>1, <2>4 DEF WorkHeld, Serving, IsTrue, CondTypes
  <2>6. UNCHANGED <<cr, dep, depSeen, leftover, opVersion, queued>>
    BY <1>2 DEF MigrateDone, crVars, worldVars
  <2>7. (cr'.there => Current') /\ (~queued' => depSeen' = "Available")
    BY <2>1, <2>6 DEF OperandHeld, Current
  <2> QED BY <2>1, <2>3, <2>5, <2>7 DEF Finished
<1>3. CASE ~RemoveMigration /\ ~MigrateDone
  <2>1. pc = "patch" /\ UNCHANGED <<work, orig, result>>
    BY <1>3
    DEF Next, Pass, World, StartPass, WantsRemoval, RemoveOwned, Deploy,
        Collect, SkipConversion, CheckConversion, Advance, Conclude, Migrate,
        PatchStatus, Idle, CacheSync, DeploymentSync, OtherEvent, EditResource,
        OwnerCollect, ConfigChange, Rollout, PodsDown, Conversion, Restart,
        MigrationWorld, vars, passVars
  <2>2. Finished(work, orig.gen, orig.state)
    BY <2>1 DEF Concluded
  <2>3. ~StartPass
    BY <2>1 DEF StartPass
  <2>4. /\ cr'.there => cr.there /\ (Current => Current')
        /\ ~queued' => ~queued /\ depSeen' = depSeen
    BY <2>1, <2>3, FinishedKept
  <2> QED BY <2>1, <2>2, <2>4 DEF Finished
<1> QED BY <1>1, <1>2, <1>3

\* A step that leaves the operator still is the end of a pass that found its
\* status already in place, or one that changes nothing of the resource.
LEMMA StillStep ==
    ASSUME MigInv, TypeOK, OrderInv, CopyHeld, [Next]_vars, Still'
    PROVE  /\ ~StartPass
           /\ \/ Still /\ cr' = cr
              \/ /\ pc = "patch" /\ result = "none" /\ ~queued /\ cr.there
                 /\ cr' = orig /\ UpdateBaseStatus(work) = orig.status
                 /\ UNCHANGED <<dep, leftover, opVersion>>
<1>t. /\ cr \in CRSet /\ orig \in CRSet /\ work \in StatusSet
      /\ opVersion \in Versions /\ queued \in BOOLEAN
  BY TypeParts DEF CopiesTyped, WorldTyped, PassTyped, Versions
<1>c. /\ cr.status \in StatusSet /\ orig.status \in StatusSet
      /\ orig.gen \in Nat /\ cr.gen \in Nat /\ cache.gen \in Nat
  BY <1>t, TypeParts, CRFields DEF CopiesTyped
<1>s. /\ pc' = "idle" /\ ~queued' /\ cache' = cr' /\ cr'.there
  BY DEF Still
<1>1. cache' = cache /\ (StartPass \/ ~queued) /\ cr.there
  BY <1>s, SilentStep, GenerationStep
<1>2. ~StartPass
  <2>1. ASSUME StartPass PROVE FALSE
    BY <1>s, <1>1, <2>1 DEF StartPass, WantsRemoval
  <2> QED BY <2>1
<1>3. CASE PatchStatus
  <2>1. /\ pc = "patch" /\ result = "none"
        /\ \E rewrite \in BOOLEAN : cr' = PatchedCR(rewrite)
    <3>1. FreeText(work.conds) \in BOOLEAN
      BY DEF FreeText
    <3> QED BY <1>s, <1>3, <3>1 DEF PatchStatus, Requeues
  <2>2. cr' = orig
    BY <1>s, <1>1, <1>2, <2>1 DEF CopyHeld
  <2>3. PICK rewrite \in BOOLEAN : cr' = PatchedCR(rewrite)
    BY <2>1
  <2>4. UpdateBaseStatus(work) \in StatusSet
    BY <1>t, <1>c, BaseStatusFacts
  <2> DEFINE m == MergePatch(orig.status, UpdateBaseStatus(work), cr.status,
                             rewrite)
  <2>5. m \in StatusSet
    BY <1>c, <2>4, MergePatchFacts
  <2>6. cr' = [cr EXCEPT !.status = m]
    BY <2>3 DEF PatchedCR
  <2> HIDE DEF m
  <2>7. m = orig.status
    BY <1>t, <2>2, <2>5, <2>6, WithStatus
  <2>8. UpdateBaseStatus(work) = orig.status
    BY <1>c, <2>4, <2>7, NothingPatched DEF m
  <2>9. UNCHANGED <<dep, leftover, opVersion>>
    BY <1>3 DEF PatchStatus, worldVars
  <2> QED BY <1>1, <1>2, <2>1, <2>2, <2>8, <2>9
<1>4. CASE EditResource
  <2>1. cr'.gen = cr.gen + 1
    BY <1>t, <1>s, <1>4, EditFacts, EmptyFacts DEF EditResource
  <2>2. cache.gen <= cr.gen
    BY <1>1 DEF OrderInv
  <2> QED BY <1>s, <1>1, <1>c, <2>1, <2>2
<1>5. CASE ~PatchStatus /\ ~EditResource
  <2>1. cr' = cr /\ pc = "idle"
    BY <1>2, <1>5, <1>s
    DEF Next, Pass, World, RemoveOwned, RemoveMigration, Deploy,
        Collect, SkipConversion, CheckConversion, Advance, Conclude, Migrate,
        MigrateDone, CacheSync, DeploymentSync, OtherEvent,
        OwnerCollect, ConfigChange, Rollout, PodsDown, Conversion, Restart,
        MigrationWorld, vars, passVars, crVars
  <2> QED BY <1>s, <1>1, <1>2, <2>1 DEF Still
<1> QED BY <1>3, <1>4, <1>5

\* The operator comes to rest only with a finished status, and stays so.
LEMMA RestedNext ==
    ASSUME MigInv, TypeOK, OrderInv, CopyHeld, Concluded, Rested, [Next]_vars
    PROVE  Rested'
<1>t. /\ work \in StatusSet /\ orig.gen \in Nat /\ opVersion \in Versions
  BY TypeParts, CRFields DEF CopiesTyped, WorldTyped, Versions
<1> SUFFICES ASSUME Still'
             PROVE  /\ cr'.status.obs = cr'.gen
                    /\ cr'.status.phase = Phase(cr'.status.conds)
                    /\ Finished(cr.status, cr.gen, cr.state)'
  BY DEF Rested
<1>s. ~queued' /\ cr'.there /\ ~StartPass
  BY StillStep DEF Still
<1>1. CASE Still /\ cr' = cr
  <2>1. /\ Current => Current' /\ ~queued /\ cr.there
        /\ depSeen' = depSeen
    BY <1>1, <1>s, FinishedKept DEF Still
  <2> QED BY <1>1, <1>s, <2>1 DEF Rested, Finished
<1>2. CASE /\ pc = "patch" /\ result = "none" /\ ~queued /\ cr.there
           /\ cr' = orig /\ UpdateBaseStatus(work) = orig.status
           /\ UNCHANGED <<dep, leftover, opVersion>>
  <2> DEFINE s == UpdateBaseStatus(work)
  <2>1. /\ s.conds = work.conds /\ s.obs = orig.gen
        /\ s.phase = Phase(work.conds)
    BY <1>t, BaseStatusFacts
  <2>2. s = cr'.status
    BY <1>2
  <2> HIDE DEF s
  <2>3. /\ cr'.status.obs = cr'.gen
        /\ cr'.status.phase = Phase(cr'.status.conds)
    BY <1>2, <2>1, <2>2
  <2>4. Finished(work, orig.gen, orig.state)
    BY <1>2 DEF Concluded
  <2>5. /\ Current => Current' /\ depSeen' = depSeen
    BY <1>2, <1>s, FinishedKept
  <2>6. /\ SaysRemoved(work, orig.gen) => SaysRemoved(cr'.status, cr'.gen)
        /\ Serving(work) => Serving(cr'.status)
        /\ MigrationOver(work) => MigrationOver(cr'.status)
        /\ cr'.state = orig.state
    BY <1>2, <2>1, <2>2 DEF SaysRemoved, Serving, MigrationOver
  <2> QED BY <1>2, <1>s, <2>3, <2>4, <2>5, <2>6 DEF Finished
<1> QED BY <1>1, <1>2, StillStep

\* The invariant of rest, with what it rests on.
LEMMA RestInvariant ==
    Spec => [](MigInv /\ TypeOK /\ OrderInv /\ RestInv)
<1> DEFINE I == MigInv /\ TypeOK /\ OrderInv /\ RestInv
<1>1. Init => I
  <2> SUFFICES ASSUME Init PROVE RestInv
    BY InitTyped, OrderInit
  <2>1. pc = "idle" /\ queued = TRUE
    BY DEF Init
  <2> QED BY <2>1 DEF RestInv, CopyHeld, OperandHeld, WorkHeld, Concluded,
                      Rested, Still
<1>2. I /\ [Next]_vars => I'
  <2> SUFFICES ASSUME I, [Next]_vars PROVE I'
    OBVIOUS
  <2>1. (MigInv /\ TypeOK /\ OrderInv)'
    BY NextTyped, OrderNext
  <2>2. RestInv'
    BY CopyNext, OperandNext, WorkNext, ConcludedNext, RestedNext DEF RestInv
  <2> QED BY <2>1, <2>2
<1> QED BY <1>1, <1>2, PTL DEF Spec

\* No wake-up is lost, for every number of faults, edits and outages: while
\* nothing is queued the cache is the copy that the pass read, so a patch that
\* the cache will not report as an event has changed nothing, and the status
\* it found in place is one that a finished pass writes.
THEOREM RestDone == Spec => []RestsWhenDone
<1>1. TypeOK /\ RestInv /\ RemovalInv => RestsWhenDone
  <2> SUFFICES ASSUME TypeOK, RestInv, RemovalInv, AtRest, cr.there
               PROVE  /\ cr.status.obs = cr.gen
                      /\ cr.status.phase = Phase(cr.status.conds)
                      /\ cr.state = "Removed" => RemovalDone
                      /\ cr.state = "Managed" => DeploymentDone
    BY DEF RestsWhenDone
  <2>1. Still /\ depSeen = Readiness(dep)
    BY DEF AtRest, Still
  <2>2. /\ cr.status.obs = cr.gen
        /\ cr.status.phase = Phase(cr.status.conds)
        /\ Finished(cr.status, cr.gen, cr.state)
    BY <2>1 DEF RestInv, Rested
  <2>3. cr.state = "Removed" => RemovalDone
    BY <2>2 DEF Finished, RemovalInv, Gone, SaysRemoved, RemovalDone
  <2>4. cr.state = "Managed" => DeploymentDone
    <3>1. depSeen = "Available" => dep.pod # ""
      BY <2>1 DEF Readiness
    <3> QED BY <2>1, <2>2, <3>1
            DEF Still, Finished, Current, Serving, MigrationOver,
                DeploymentDone
  <2> QED BY <2>2, <2>3, <2>4
<1> QED BY <1>1, RestInvariant, RemovalInvariant, PTL

-----------------------------------------------------------------------------
(* At rest the status is in line with the platform ConfigMap                *)

\* The running pass could read the ConfigMap.
Known == pc # "idle" => pcfg.available

Distributed(s, p) == s.version = p.version /\ s.name = p.name

\* While nothing is queued the pass holds the latest config; what it builds
\* carries that config from the gate on, and a still operator's status does.
ConfigHeld ==
    /\ pc # "idle" /\ ~queued => pcfg = PlatformConfig
    /\ pc = "migrate" => Distributed(work, pcfg)
    /\ pc = "patch" /\ result = "none" /\ orig.state = "Managed"
          => Distributed(work, pcfg)
    /\ Still /\ cr.state = "Managed" =>
          /\ Distributed(cr.status, PlatformConfig)
          /\ cr.status.releases = Releases(cr.status)

\* Every step keeps it, as long as the ConfigMap can be read.
LEMMA ConfigNext ==
    ASSUME MigInv, TypeOK, OrderInv, CopyHeld, ConfigHeld, Known,
           [Next]_vars, Known'
    PROVE  ConfigHeld'
<1>t. /\ work \in StatusSet /\ orig.gen \in Nat /\ verdict \in Verdicts
      /\ opVersion \in Versions
      /\ pcfg \in [available : BOOLEAN, name : Names, version : Versions]
  BY TypeParts, CRFields
  DEF CopiesTyped, PassTyped, WorldTyped, MigInv, MigOK, Versions
<1>p. ~queued' => PlatformConfig' = PlatformConfig
  BY SilentStep DEF PlatformConfig
<1>1. pc' # "idle" /\ ~queued' => pcfg' = PlatformConfig'
  <2> SUFFICES ASSUME pc' # "idle", ~queued' PROVE pcfg' = PlatformConfig
    BY <1>p
  <2>1. CASE StartPass
    <3>1. pcfg' \in {PlatformConfig, NoConfig}
      BY <2>1, StartPassFacts DEF passVars, StartPass
    <3> QED BY <3>1, NoConfigFacts DEF Known
  <2>2. CASE ~StartPass
    <3>1. ~queued
      BY <2>2, SilentStep
    <3>2. pc # "idle" /\ pcfg' = pcfg
      BY <2>2
      DEF Next, Pass, World, RemoveOwned, RemoveMigration, Deploy,
          Collect, SkipConversion, CheckConversion, Migrate, MigrateDone,
          PatchStatus, Idle, CacheSync, DeploymentSync, OtherEvent,
          EditResource, OwnerCollect, ConfigChange, Rollout, PodsDown,
          Conversion, Restart, MigrationWorld, vars, passVars
    <3> QED BY <3>1, <3>2 DEF ConfigHeld
  <2> QED BY <2>1, <2>2
<1>2. pc' = "migrate" => Distributed(work', pcfg')
  <2> SUFFICES ASSUME pc' = "migrate" PROVE Distributed(work', pcfg')
    OBVIOUS
  <2>1. ASSUME NEW s \in StatusSet, work' = Advanced(s), pcfg' = pcfg
        PROVE  Distributed(work', pcfg')
    <3>1. pcfg.available
      BY <2>1 DEF Known
    <3> QED BY <1>t, <2>1, <3>1, AdvancedFacts DEF Distributed
  <2>2. CASE SkipConversion
    <3>1. work' = Advanced(work) /\ pcfg' = pcfg
      BY <2>2 DEF SkipConversion, Advance, Advanced
    <3> QED BY <1>t, <2>1, <3>1
  <2>3. CASE CheckConversion
    <3>1. work' = Advanced(Verify(work)) /\ pcfg' = pcfg
      BY <2>3, GateSteps
    <3>2. Verify(work) \in StatusSet
      BY <1>t, VerifyFacts
    <3> QED BY <2>1, <3>1, <3>2
  <2>4. CASE ~SkipConversion /\ ~CheckConversion
    <3>1. UNCHANGED <<pc, work, pcfg>>
      BY <2>4
      DEF Next, Pass, World, StartPass, WantsRemoval, RemoveOwned,
          RemoveMigration, Deploy, Collect, Conclude, Migrate, MigrateDone,
          PatchStatus, Idle, CacheSync, DeploymentSync, OtherEvent,
          EditResource, OwnerCollect, ConfigChange, Rollout, PodsDown,
          Conversion, Restart, MigrationWorld, vars, passVars
    <3> QED BY <3>1 DEF ConfigHeld
  <2> QED BY <2>2, <2>3, <2>4
<1>3. pc' = "patch" /\ result' = "none" /\ orig'.state = "Managed"
         => Distributed(work', pcfg')
  <2> SUFFICES ASSUME pc' = "patch", result' = "none", orig'.state = "Managed"
               PROVE  Distributed(work', pcfg')
    OBVIOUS
  <2>1. CASE MigrateDone
    <3>1. pc = "migrate" /\ work' = Migrated(work) /\ pcfg' = pcfg
      BY <2>1 DEF MigrateDone, Conclude
    <3>2. SameButConds(Migrated(work), work)
      BY <1>t, MigratedFacts
    <3> QED BY <3>1, <3>2 DEF ConfigHeld, Distributed, SameButConds
  <2>2. CASE RemoveMigration
    BY <2>2 DEF RemoveMigration, OrderInv
  <2>3. CASE ~MigrateDone /\ ~RemoveMigration
    <3>1. UNCHANGED <<pc, work, pcfg, orig, result>>
      BY <2>3
      DEF Next, Pass, World, StartPass, WantsRemoval, RemoveOwned, Deploy,
          Collect, SkipConversion, CheckConversion, Advance, Conclude, Migrate,
          PatchStatus, Idle, CacheSync, DeploymentSync, OtherEvent,
          EditResource, OwnerCollect, ConfigChange, Rollout, PodsDown,
          Conversion, Restart, MigrationWorld, vars, passVars
    <3> QED BY <3>1 DEF ConfigHeld
  <2> QED BY <2>1, <2>2, <2>3
<1>4. Still' /\ cr'.state = "Managed" =>
         /\ Distributed(cr'.status, PlatformConfig')
         /\ cr'.status.releases = Releases(cr.status)'
  <2>0. Still' => PlatformConfig' = PlatformConfig /\ opVersion' = opVersion
    BY <1>p, SilentStep DEF Still
  <2> SUFFICES ASSUME Still', cr'.state = "Managed"
               PROVE  /\ Distributed(cr'.status, PlatformConfig)
                      /\ cr'.status.releases =
                            [module |-> opVersion,
                             platform |-> cr'.status.version]
    BY <2>0 DEF Releases
  <2>1. CASE Still /\ cr' = cr
    BY <2>1 DEF ConfigHeld, Releases
  <2>2. CASE /\ pc = "patch" /\ result = "none" /\ ~queued
             /\ cr' = orig /\ UpdateBaseStatus(work) = orig.status
    <3> DEFINE s == UpdateBaseStatus(work)
    <3>1. pcfg.available /\ pcfg = PlatformConfig
      BY <2>2 DEF Known, ConfigHeld
    <3>2. /\ s.name = work.name /\ s.version = work.version
          /\ s.releases = Releases(work)
      BY <1>t, <3>1, BaseStatusFacts
    <3>3. s = cr'.status /\ orig.state = "Managed"
      BY <2>2
    <3> HIDE DEF s
    <3>4. Distributed(work, PlatformConfig)
      BY <2>2, <3>1, <3>3 DEF ConfigHeld
    <3> QED BY <3>2, <3>3, <3>4 DEF Distributed, Releases
  <2> QED BY <2>1, <2>2, StillStep
<1> QED BY <1>1, <1>2, <1>3, <1>4 DEF ConfigHeld

\* With a ConfigMap that every pass could read, the operator rests over a
\* Managed resource only when the status names the ConfigMap's release and the
\* running operator's, which is what the platform operator waits for: neither
\* a change of the ConfigMap nor an upgrade is slept through.
THEOREM RestAligned ==
    Spec /\ ConfigReadable
        => [](AtRest /\ cr.there /\ cr.state = "Managed" => Aligned)
<1> DEFINE I == MigInv /\ TypeOK /\ OrderInv /\ RestInv
           A == AtRest /\ cr.there /\ cr.state = "Managed" => Aligned
<1>1. Init => ConfigHeld
  BY DEF Init, ConfigHeld, Still
<1>2. I /\ Known /\ ConfigHeld /\ [Next]_vars /\ Known' => ConfigHeld'
  BY ConfigNext DEF RestInv
<1>3. I /\ ConfigHeld => A
  <2> SUFFICES ASSUME I, ConfigHeld, AtRest, cr.there, cr.state = "Managed"
               PROVE  Aligned
    OBVIOUS
  <2>1. Still
    BY DEF AtRest, Still
  <2>2. /\ cr.status.obs = cr.gen
        /\ cr.status.phase = Phase(cr.status.conds)
        /\ Serving(cr.status) /\ Current
    BY <2>1 DEF RestInv, Rested, Finished
  <2>3. IsTrue(cr.status.conds, "Ready") /\ cr.status.phase = "Ready"
    BY <2>2 DEF Serving, Phase
  <2>4. /\ Distributed(cr.status, PlatformConfig)
        /\ cr.status.releases = Releases(cr.status)
    BY <2>1 DEF ConfigHeld
  <2> QED BY <2>2, <2>3, <2>4 DEF Current, Distributed, Releases, Aligned
<1>4. ConfigReadable => []Known
  BY PTL DEF ConfigReadable, Known
<1> QED BY <1>1, <1>2, <1>3, <1>4, RestInvariant, PTL DEF Spec

=============================================================================
