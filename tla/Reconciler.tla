----------------------------- MODULE Reconciler -----------------------------
(***************************************************************************)
(* The reconcile loop of                                                   *)
(* internal/controller/mcplifecycleoperator_reconciler.go for the one      *)
(* MCPLifecycleOperator resource, with the storage migration as its tail.  *)
(*                                                                         *)
(* A pass reads the resource from an informer cache that may lag, acts on  *)
(* the cluster one API call per step, and ends with a JSON merge patch of  *)
(* its status against the copy it read.  Between any two steps the user,   *)
(* the platform, the cluster, an API fault or a crash may act.  There is   *)
(* one worker: controller-runtime runs one pass per resource, and the      *)
(* deployment elects a leader.                                             *)
(***************************************************************************)
EXTENDS Conditions, StorageMigration

CONSTANTS
    ConfigMaps,     \* contents the platform may give its ConfigMap
    OldVersion,     \* OPERATOR_VERSION before the operator is upgraded
    NewVersion,     \* and after
    Inherited,      \* may an ungated predecessor have written the status?
    MaxUserOps,     \* bound: edits of the resource, its deletion included
    MaxConfigOps,   \* bound: changes of the ConfigMap
    MaxGhosts,      \* bound: passes over a cached resource that is gone
    MaxOutages      \* bound: times the pods or the conversion go down

ASSUME ReconcilerAssumption ==
    /\ ConfigMaps \subseteq
          [name : STRING, version : STRING, platformVersion : STRING]
    /\ OldVersion \in STRING \ {""} /\ NewVersion \in STRING \ {""}
    /\ Inherited \in BOOLEAN
    /\ MaxUserOps \in Nat /\ MaxConfigOps \in Nat
    /\ MaxGhosts \in Nat /\ MaxOutages \in Nat

VARIABLES
    cr,         \* the resource on the API server
    cache,      \* the resource in the informer cache
    config,     \* the platform ConfigMap in the informer cache
    opVersion,  \* OPERATOR_VERSION of the running operator
    dep,        \* the operand's Deployment on the API server
    depSeen,    \* what the informer cache says of it
    leftover,   \* operand resources of an older release, no longer desired
    conv,       \* does a LIST of MCPServers at v1beta1 convert every object?
    queued,     \* the work queue holds the request
    pc,         \* what the running pass does next
    orig,       \* the copy of the resource the pass read
    work,       \* the status the pass is building
    pcfg,       \* the platform config the pass read
    retry,      \* the pass used the transient TLS fallback
    result,     \* what the pass returns to the work queue
    userOps, configOps, outages, ghosts,   \* bounded steps so far
    verified,   \* history: platform versions verified by a LIST, or inherited
    listed      \* history: this controller's LIST has passed

crVars == <<cr, cache>>
worldVars == <<config, opVersion, dep, depSeen, leftover, conv>>
passVars == <<pc, orig, work, pcfg, retry, result>>
boundVars == <<userOps, configOps, outages, ghosts>>
historyVars == <<verified, listed>>
\* All of the migration component but the fault count.
migOnly == <<svm, served, mpc, attempt, verdict, adminOps, creates, budget,
             succeeded>>

vars == <<crVars, worldVars, queued, passVars, boundVars, historyVars, migVars>>

-----------------------------------------------------------------------------
(* Data                                                                     *)

\* An absent ConfigMap and one without data resolve alike.
NoData == [name |-> "", version |-> "", platformVersion |-> ""]

NoReleases == [module |-> "", platform |-> ""]

EmptyStatus == [conds |-> EmptyConditions, obs |-> 0, phase |-> "",
                releases |-> NoReleases, name |-> "", version |-> ""]

NoCR == [there |-> FALSE, state |-> "Removed", gen |-> 0,
         status |-> EmptyStatus]

\* The template's operator version and the version the available pod runs.
NoDeployment == [rev |-> "", pod |-> ""]

\* All that checkDeploymentsReady looks at: it counts available replicas of
\* whatever template.
Readiness(d) == IF d.rev = "" THEN "NotFound"
                ELSE IF d.pod = "" THEN "NotReady" ELSE "Available"

NoConfig == [available |-> FALSE, name |-> "", version |-> ""]

FirstOf(s, t) == IF s # "" THEN s ELSE t

\* getPlatformConfig when the ConfigMap was read or is absent.
PlatformConfig ==
    [available |-> TRUE,
     name      |-> FirstOf(config.name, "Standalone"),
     version   |-> FirstOf(config.version,
                           FirstOf(config.platformVersion, opVersion))]

\* status.releases as setReleases writes it: the version of the module and
\* the platform version taken from status.distribution.
MutReleases(status) == [module |-> opVersion, platform |-> pcfg.version]
Releases(status) == [module |-> opVersion, platform |-> status.version]

\* updateBaseStatus, deferred to the end of every pass.
UpdateBaseStatus(status) ==
    [status EXCEPT
        !.obs = orig.gen,
        !.phase = Phase(status.conds),
        !.releases = IF pcfg.available THEN Releases(status) ELSE @]

\* A JSON merge patch: a field the pass changed against the copy it read
\* replaces the server's, the others are not sent.  Lists are one field each,
\* the two members of distribution are patched apart.  "rewrite" is a change
\* of the conditions that shows in a message only.
Merge(o, w, c) == IF w # o THEN w ELSE c

MergePatch(o, w, c, rewrite) ==
    [conds    |-> IF rewrite THEN w.conds ELSE Merge(o.conds, w.conds, c.conds),
     obs      |-> Merge(o.obs, w.obs, c.obs),
     phase    |-> Merge(o.phase, w.phase, c.phase),
     releases |-> Merge(o.releases, w.releases, c.releases),
     name     |-> Merge(o.name, w.name, c.name),
     version  |-> Merge(o.version, w.version, c.version)]

\* Conditions whose message carries free text.
FreeText(conds) ==
    conds["Available"].status = "False" \/ conds["Migrated"].status = "False"

MutHandshakeSettled(status, p) ==
    p.available /\ status.version = p.version /\ status.name = p.name
HandshakeSettled(status, p) ==
    /\ p.available
    /\ status.name = p.name /\ status.version = p.version
    /\ IsTrue(status.conds, "Verified")

\* setDistributionStatus
MutSetDistribution(status, p) ==
    [status EXCEPT !.name = p.name, !.version = p.version]
SetDistribution(status, p) ==
    IF p.available
      THEN [status EXCEPT !.name = p.name, !.version = p.version]
      ELSE status

-----------------------------------------------------------------------------
(* Initial states: a fresh resource, or one whose status an older, ungated  *)
(* controller has advanced to the configured version with its operand up.   *)

InheritedStatus ==
    [EmptyStatus EXCEPT
        !.conds = AggregateReady(MarkTrue(@, 1, "Available"), 1),
        !.obs = 1, !.phase = "Ready",
        !.releases = [module |-> OldVersion, platform |-> PlatformConfig.version],
        !.name = PlatformConfig.name, !.version = PlatformConfig.version]

Init ==
    /\ MigInit
    /\ config \in ConfigMaps
    /\ opVersion = OldVersion
    /\ \/ /\ ~Inherited
          /\ \E s \in {"Managed", "Removed"} :
                cr = [there |-> TRUE, state |-> s, gen |-> 1,
                      status |-> EmptyStatus]
          /\ dep = NoDeployment
       \/ /\ Inherited
          /\ cr = [there |-> TRUE, state |-> "Managed", gen |-> 1,
                   status |-> InheritedStatus]
          /\ dep = [rev |-> OldVersion, pod |-> OldVersion]
    /\ cache = cr /\ depSeen = Readiness(dep) /\ leftover = FALSE
    /\ conv \in {"ok", "broken"}
    /\ queued = TRUE
    /\ pc = "idle" /\ orig = NoCR /\ work = EmptyStatus /\ pcfg = NoConfig
    /\ retry = FALSE /\ result = "none"
    /\ userOps = 0 /\ configOps = 0 /\ outages = 0 /\ ghosts = 0
    /\ verified = {"", cr.status.version}
    /\ listed = FALSE

-----------------------------------------------------------------------------
(* The pass                                                                 *)

\* The pass ends: its work goes to the status patch.
Conclude(status, res) == pc' = "patch" /\ work' = status /\ result' = res

\* Available is False for the given reason.
Unavailable(status, reason) ==
    [status EXCEPT !.conds =
        AggregateReady(MarkFalse(@, orig.gen, "Available", reason), orig.gen)]

\* A pass over a resource that is already gone is one of a bounded number.
GhostPass ==
    IF cr.there THEN UNCHANGED ghosts
                ELSE ghosts < MaxGhosts /\ ghosts' = ghosts + 1

MutWantsRemoval(c) == c.state = "Removed" /\ ~IsTrue(c.status.conds, "Verified")
WantsRemoval(c) == c.state = "Removed"

\* Reconcile and the start of reconcile: both reads are from the cache.
StartPass ==
    /\ pc = "idle" /\ queued
    /\ \/ /\ ~cache.there /\ NoFault
          /\ queued' = FALSE
          /\ UNCHANGED <<passVars, ghosts>>
       \/ /\ Fault
          /\ UNCHANGED <<queued, passVars, ghosts>>
       \/ /\ cache.there /\ GhostPass
          /\ queued' = FALSE
          /\ pc' = IF WantsRemoval(cache) THEN "removeOwned" ELSE "deploy"
          /\ orig' = cache /\ work' = cache.status
          /\ \/ pcfg' = PlatformConfig /\ NoFault
             \/ pcfg' = NoConfig /\ Fault
          /\ UNCHANGED <<retry, result>>
    /\ UNCHANGED <<crVars, worldVars, userOps, configOps, outages, historyVars,
                   migOnly>>

\* deleteAllOwned: everything with the label goes, or the sweep stops half way.
RemoveOwned ==
    /\ pc = "removeOwned"
    /\ \/ /\ dep' = NoDeployment /\ leftover' = FALSE /\ NoFault
          /\ pc' = "removeMigration" /\ UNCHANGED <<work, result>>
       \/ /\ dep' \in {dep, NoDeployment} /\ leftover' \in {leftover, FALSE}
          /\ Fault
          /\ Conclude(work, "error")
    /\ UNCHANGED <<crVars, config, opVersion, depSeen, conv, queued, orig,
                   pcfg, retry, boundVars, historyVars, migOnly>>

\* The conditions of a completed removal; Verified and Migrated stay.
MarkRemoved(conds, gen) ==
    MarkFalse(MarkFalse(MarkFalse(MarkFalse(conds,
        gen, "Available", "Removed"),
        gen, "Ready", "Removed"),
        gen, "Provisioning", "Removed"),
        gen, "Degraded", "NotDegraded")

\* The rest of handleRemoved.  An error may hide a deletion that took place.
MutRemoveMigration ==
    /\ pc = "removeMigration"
    /\ NoFault /\ UNCHANGED <<svm, budget>>
    /\ Conclude([work EXCEPT !.conds = MarkRemoved(@, orig.gen)], "none")
    /\ UNCHANGED <<crVars, worldVars, queued, orig, pcfg, retry, boundVars,
                   historyVars, served, mpc, attempt, verdict, adminOps,
                   creates, succeeded>>
RemoveMigration ==
    /\ pc = "removeMigration"
    /\ \/ /\ MigRemove /\ NoFault
          /\ Conclude([work EXCEPT !.conds = MarkRemoved(@, orig.gen)], "none")
       \/ /\ MigRemove \/ UNCHANGED <<svm, budget>>
          /\ Fault
          /\ Conclude(work, "error")
    /\ UNCHANGED <<crVars, worldVars, queued, orig, pcfg, retry, boundVars,
                   historyVars, served, mpc, attempt, verdict, adminOps,
                   creates, succeeded>>

\* The operand at the running operator's version; pods of an older template
\* stay available until the rollout replaces them.
Applied == [dep EXCEPT !.rev = opVersion]

\* ResolveTLSConfig (which may fall back for a transient error), the rendering
\* of the manifests and applyResources, whose failure may come before or
\* after the Deployment.  DeployFailed stands for TLSConfigFetchFailed and
\* ManifestRenderFailed too: the pass reacts alike.
Deploy ==
    /\ pc = "deploy"
    /\ \/ /\ dep' = Applied
          /\ pc' = "collect" /\ UNCHANGED <<work, result>>
          /\ \/ retry' = FALSE /\ NoFault
             \/ retry' = TRUE /\ Fault
       \/ /\ Conclude(Unavailable(work, "DeployFailed"), "error")
          /\ dep' \in {dep, Applied}
          /\ Fault /\ UNCHANGED retry
    /\ UNCHANGED <<crVars, config, opVersion, depSeen, leftover, conv, queued,
                   orig, pcfg, boundVars, historyVars, migOnly>>

MutOperandAvailable == depSeen # "NotFound"
OperandAvailable == depSeen = "Available"

\* collectGarbage: what is labelled and no longer desired goes; a sweep that
\* fails may have done so too.
Swept == leftover' = FALSE

SweepFails == leftover' \in {leftover, FALSE} /\ Fault

\* The sweep, and then checkDeploymentsReady on the cache; the two share a
\* step because nobody else sees the first one's effect.  DeploymentNotReady
\* stands for DeploymentNotFound too.
Collect ==
    /\ pc = "collect"
    /\ \/ /\ Swept /\ OperandAvailable /\ NoFault
          /\ pc' = "convert" /\ UNCHANGED <<work, result>>
       \/ /\ Swept
          /\ IF OperandAvailable THEN Fault ELSE NoFault
          /\ Conclude(Unavailable(work, "DeploymentNotReady"), "requeue")
       \/ /\ SweepFails
          /\ Conclude(Unavailable(work, "GarbageCollectionFailed"), "error")
    /\ UNCHANGED <<crVars, config, opVersion, dep, depSeen, conv, queued, orig,
                   pcfg, retry, boundVars, historyVars, migOnly>>

\* The operand is available: Available, Ready and, if the config was read,
\* the distribution.  The migration comes next.
Advance(status) ==
    /\ pc' = "migrate"
    /\ work' = SetDistribution(
                  [status EXCEPT !.conds = AggregateReady(
                      MarkTrue(@, orig.gen, "Available"), orig.gen)], pcfg)
    /\ MigEnter(IsTrue(status.conds, "Migrated"))
    /\ UNCHANGED result

Verify(status) ==
    [status EXCEPT !.conds = MarkTrueWithReason(@, orig.gen, "Verified",
                                                "ConversionVerified")]

\* The conversion gate: a settled handshake skips the LIST.
SkipConversion ==
    /\ pc = "convert" /\ HandshakeSettled(work, pcfg)
    /\ Advance(work)
    /\ UNCHANGED <<crVars, worldVars, queued, orig, pcfg, retry, boundVars,
                   historyVars>>

\* checkConversionHealth.  ConversionCheckFailed stands for
\* ConversionCheckPending (not served, or page tokens keep expiring) too.
CheckConversion ==
    /\ pc = "convert" /\ ~HandshakeSettled(work, pcfg)
    /\ \/ /\ conv = "ok"
          /\ Advance(Verify(work))
          /\ listed' = TRUE
          /\ verified' = verified \union
                (IF pcfg.available THEN {pcfg.version} ELSE {})
       \/ /\ IF conv = "ok" THEN Fault ELSE NoFault
          /\ Conclude(Unavailable(work, "ConversionCheckFailed"), "requeue")
          /\ UNCHANGED <<historyVars, migOnly>>
    /\ UNCHANGED <<crVars, worldVars, queued, orig, pcfg, retry, boundVars>>

Migrate ==
    /\ pc = "migrate" /\ MigStep
    /\ UNCHANGED <<crVars, worldVars, queued, passVars, boundVars, historyVars>>

\* reconcileStorageMigration returns.
Migrated(status) ==
    IF verdict = Skipped THEN status
    ELSE [status EXCEPT !.conds = SetCondition(@, orig.gen, "Migrated",
                                               verdict.status, verdict.reason)]

MigrateDone ==
    /\ pc = "migrate" /\ mpc = "done"
    /\ MigLeave /\ NoFault
    /\ Conclude(Migrated(work),
                IF verdict.requeue \/ retry THEN "requeue" ELSE "none")
    /\ UNCHANGED <<crVars, worldVars, queued, orig, pcfg, retry, boundVars,
                   historyVars>>

\* The pass's variables between passes.
Idle ==
    /\ pc' = "idle" /\ orig' = NoCR /\ work' = EmptyStatus
    /\ pcfg' = NoConfig /\ retry' = FALSE /\ result' = "none"

MutRequeues == result = "error"
Requeues == result # "none"

\* patchStatus, and the result handed to the work queue.  A failed call may
\* have been carried out.
PatchedCR(rewrite) ==
    [cr EXCEPT !.status =
        MergePatch(orig.status, UpdateBaseStatus(work), @, rewrite)]

PatchStatus ==
    /\ pc = "patch"
    /\ \/ /\ cr.there
          /\ \E rewrite \in {FALSE, FreeText(work.conds)} :
                cr' = PatchedCR(rewrite)
          /\ \/ NoFault /\ queued' = (queued \/ Requeues)
             \/ Fault /\ queued' = TRUE
       \/ /\ IF cr.there THEN Fault ELSE NoFault
          /\ queued' = TRUE
          /\ UNCHANGED cr
    /\ Idle
    /\ UNCHANGED <<cache, worldVars, boundVars, historyVars, migOnly>>

-----------------------------------------------------------------------------
(* The world                                                                *)

\* The informers deliver the resource or the Deployment; each is an event.
MutCacheSync ==
    /\ cache # cr
    /\ cache' = cr /\ queued' = (queued \/ cache.gen # cr.gen)
    /\ UNCHANGED <<cr, worldVars, passVars, boundVars, historyVars, migVars>>
CacheSync ==
    /\ cache # cr
    /\ cache' = cr /\ queued' = TRUE
    /\ UNCHANGED <<cr, worldVars, passVars, boundVars, historyVars, migVars>>

DeploymentSync ==
    /\ depSeen # Readiness(dep)
    /\ depSeen' = Readiness(dep) /\ queued' = TRUE
    /\ UNCHANGED <<crVars, config, opVersion, dep, leftover, conv, passVars, boundVars,
                   historyVars, migVars>>

\* Another watched object changes.  (During a pass this is no different from
\* a change right after it.)
OtherEvent ==
    /\ pc = "idle"
    /\ ~queued /\ queued' = TRUE
    /\ UNCHANGED <<crVars, worldVars, passVars, boundVars, historyVars, migVars>>

\* A user flips managementState, or deletes the resource for good.
EditResource ==
    /\ cr.there
    /\ userOps < MaxUserOps /\ userOps' = userOps + 1
    /\ \/ cr' = [cr EXCEPT
                   !.state = IF @ = "Managed" THEN "Removed" ELSE "Managed",
                   !.gen = @ + 1]
       \/ cr' = NoCR
    /\ UNCHANGED <<cache, worldVars, queued, passVars, configOps, outages,
                   ghosts, historyVars, migVars>>

\* Kubernetes collects what the deleted resource owned.
OwnerCollect ==
    /\ ~cr.there
    /\ dep # NoDeployment \/ leftover \/ Owned(svm)
    /\ dep' = NoDeployment /\ leftover' = FALSE
    /\ svm' = (IF Owned(svm) THEN NoSVM ELSE svm)
    /\ CountLost(Owned(svm))
    /\ UNCHANGED <<crVars, config, opVersion, depSeen, conv, queued, passVars,
                   boundVars, historyVars, served, mpc, attempt, verdict,
                   faults, adminOps, creates, succeeded>>

\* The platform operator changes its ConfigMap, and the informer delivers it.
ConfigChange ==
    /\ configOps < MaxConfigOps /\ configOps' = configOps + 1
    /\ config' \in ConfigMaps \ {config}
    /\ queued' = TRUE
    /\ UNCHANGED <<crVars, opVersion, dep, depSeen, leftover, conv, passVars,
                   userOps, outages, ghosts, historyVars, migVars>>

\* The rollout of the current template completes, or the pods go down.
Rollout ==
    /\ dep.rev # "" /\ dep.pod # dep.rev
    /\ dep' = [dep EXCEPT !.pod = dep.rev]
    /\ UNCHANGED <<crVars, config, opVersion, depSeen, leftover, conv, queued, passVars,
                   boundVars, historyVars, migVars>>

OutageStarts == outages < MaxOutages /\ outages' = outages + 1

PodsDown ==
    /\ dep.pod # "" /\ OutageStarts
    /\ dep' = [dep EXCEPT !.pod = ""]
    /\ UNCHANGED <<crVars, config, opVersion, depSeen, leftover, conv, queued, passVars,
                   userOps, configOps, ghosts, historyVars, migVars>>

\* The CRD, the conversion webhook or its certificate goes or comes.
Conversion ==
    /\ \/ conv # "ok" /\ conv' = "ok" /\ UNCHANGED outages
       \/ conv = "ok" /\ conv' = "broken" /\ OutageStarts
    /\ UNCHANGED <<crVars, config, opVersion, dep, depSeen, leftover, queued, passVars,
                   userOps, configOps, ghosts, historyVars, migVars>>

\* The process ends, in a crash or to be replaced by the upgraded operator
\* (whose operand may drop resources); the next one starts from fresh lists.
Restart ==
    /\ \/ Fault /\ UNCHANGED <<opVersion, leftover>>
       \/ /\ NoFault /\ opVersion # NewVersion
          /\ opVersion' = NewVersion
          /\ leftover' = (leftover \/ dep.rev # "")
    /\ MigLeave /\ Idle
    /\ cache' = cr /\ depSeen' = Readiness(dep) /\ queued' = TRUE
    /\ UNCHANGED <<cr, config, dep, conv, boundVars, historyVars>>

MigrationWorld ==
    /\ Migrator \/ Serve \/ Admin
    /\ UNCHANGED <<crVars, worldVars, queued, passVars, boundVars, historyVars>>

Pass ==
    \/ StartPass \/ RemoveOwned \/ RemoveMigration \/ Deploy \/ Collect
    \/ SkipConversion \/ CheckConversion
    \/ Migrate \/ MigrateDone \/ PatchStatus

World ==
    \/ CacheSync \/ DeploymentSync \/ OtherEvent \/ EditResource
    \/ OwnerCollect \/ ConfigChange \/ Rollout \/ PodsDown \/ Conversion
    \/ Restart \/ MigrationWorld

Next == Pass \/ World

Spec == Init /\ [][Next]_vars

\* The worker keeps stepping, the informers keep delivering, Kubernetes
\* collects what has lost its owner, and the migrator works.
Fairness ==
    /\ WF_vars(Pass)
    /\ WF_vars(CacheSync) /\ WF_vars(DeploymentSync)
    /\ WF_vars(OwnerCollect)
    /\ WF_vars(Migrator /\ UNCHANGED <<crVars, worldVars, queued, passVars,
                                       boundVars, historyVars>>)

FairSpec == Spec /\ Fairness

-----------------------------------------------------------------------------
(* Properties                                                               *)

Reasons ==
    {"None", "Available", "NotDegraded", "Removed", "OperandDeploymentFailed",
     "DeployFailed", "DeploymentNotReady", "GarbageCollectionFailed",
     "ConversionCheckFailed", "ConversionVerified", "StorageMigrationPending",
     "StorageMigrationRunning", "StorageMigrationFailed",
     "StorageMigrationSucceeded"}

\* What the two operators and the ConfigMap contents bring with them.
Versions == {"", OldVersion, NewVersion}
            \union {c.version : c \in ConfigMaps}
            \union {c.platformVersion : c \in ConfigMaps}

Names == {"", "Standalone"} \union {c.name : c \in ConfigMaps}

ConditionSet ==
    [status : {"Absent", "True", "False"}, reason : Reasons, gen : Nat]

StatusSet ==
    [conds : [CondTypes -> ConditionSet], obs : Nat, phase : {"", "Ready", "NotReady"},
     releases : [module : Versions, platform : Versions],
     name : Names, version : Versions]

CRSet == [there : BOOLEAN, state : {"Managed", "Removed"}, gen : Nat,
          status : StatusSet]

DeploymentSet == [rev : Versions, pod : Versions]

Steps == {"idle", "removeOwned", "removeMigration", "deploy",
          "collect", "convert", "migrate", "patch"}

\* Every variable keeps its type: no condition is ever Unknown, a version or a
\* name comes from the ConfigMap or from an operator, and the migration's calls
\* are made only inside the pass's last part.
TypeOK ==
    /\ MigOK
    /\ cr \in CRSet /\ cache \in CRSet /\ orig \in CRSet
    /\ work \in StatusSet
    /\ config \in ConfigMaps
    /\ opVersion \in {OldVersion, NewVersion}
    /\ dep \in DeploymentSet
    /\ depSeen \in {"NotFound", "NotReady", "Available"}
    /\ conv \in {"ok", "broken"} /\ leftover \in BOOLEAN
    /\ queued \in BOOLEAN /\ retry \in BOOLEAN /\ listed \in BOOLEAN
    /\ pc \in Steps
    /\ pcfg \in [available : BOOLEAN, name : Names, version : Versions]
    /\ result \in {"none", "requeue", "error"}
    /\ userOps \in 0..MaxUserOps /\ configOps \in 0..MaxConfigOps
    /\ outages \in 0..MaxOutages /\ ghosts \in 0..MaxGhosts
    /\ verified \subseteq Versions
    /\ mpc # "out" => pc = "migrate"

\* The handshake is gated: the platform version in status.distribution and
\* in status.releases, which the platform operator reads to see an upgrade
\* completed, is one whose pass listed the stored objects, or was there
\* before this controller, whatever was stale, torn or retried since.
UpgradeGated ==
    /\ cr.status.version \in verified
    /\ cr.status.releases.platform \in verified

Gate == INSTANCE Handshake
        WITH desired <- PlatformConfig.version, convertible <- conv = "ok",
             target <- pcfg.version,
             version <- cr.status.version,
             release <- cr.status.releases.platform,
             marker <- IsTrue(cr.status.conds, "Verified")

\* The whole loop is the gated handshake that the platform operator relies
\* on: the recorded version moves only to one that the platform asked for at
\* the start of the pass and that a LIST has verified, across stale reads,
\* merge patches, failed calls, restarts and operator upgrades.
ImplementsHandshake == Gate!HandshakeSpec

\* Nothing this controller verified is taken on trust from its predecessor:
\* it declares the operand available, or carries the Verified marker, only
\* once a LIST of its own has passed.
ConversionChecked ==
    \/ pc = "migrate"
    \/ IsTrue(cr.status.conds, "Verified") \/ IsTrue(cache.status.conds, "Verified")
    => listed

\* A removal that is reported for the current generation has taken place:
\* no operand, nothing left over, no migration object.
RemovedMeansGone ==
    /\ cr.there /\ cr.state = "Removed"
    /\ cr.status.conds["Available"].reason = "Removed"
    /\ cr.status.conds["Available"].gen = cr.gen
    => dep = NoDeployment /\ ~leftover /\ svm = NoSVM

\* Ready=True observed at the current generation means that generation asks
\* for the operand, and a resource is never observed ahead of itself.
ReadyMeansManaged ==
    cr.there =>
        /\ cr.status.obs <= cr.gen
        /\ IsTrue(cr.status.conds, "Ready")
           /\ cr.status.conds["Ready"].gen = cr.gen => cr.state = "Managed"

\* No pass is running or asked for, and there is no event left to deliver.
AtRest ==
    pc = "idle" /\ ~queued /\ cache = cr /\ depSeen = Readiness(dep)

\* The removal is complete, and reported for the current generation.
RemovalDone ==
    /\ dep = NoDeployment /\ ~leftover
    /\ cr.status.conds["Available"].reason = "Removed"
    /\ cr.status.conds["Available"].gen = cr.gen

\* The operand of the running operator is up and verified, nothing of an
\* older release is left, and the migration has ended one way or the other.
DeploymentDone ==
    /\ dep.rev = opVersion /\ dep.pod # "" /\ ~leftover
    /\ \A t \in {"Available", "Ready", "Verified"} : IsTrue(cr.status.conds, t)
    /\ \/ IsTrue(cr.status.conds, "Migrated")
       \/ cr.status.conds["Migrated"].reason = "StorageMigrationFailed"

\* No wake-up is lost: the operator rests only when its work is done and the
\* status says so.  A status that a stale pass or a failed removal has torn, an
\* edit, an outage or an upgrade that came during a pass, and a pass that gave
\* up half way all leave a request in the queue or an event to be delivered.
RestsWhenDone ==
    AtRest /\ cr.there =>
        /\ cr.status.obs = cr.gen
        /\ cr.status.phase = Phase(cr.status.conds)
        /\ cr.state = "Removed" => RemovalDone
        /\ cr.state = "Managed" => DeploymentDone

\* The end of a pass whose copy of the status is still the server's.
FreshPatch ==
    pc = "patch" /\ pc' = "idle" /\ cr.there /\ orig.status = cr.status

\* What is durable is lost only to a stale read: a pass whose copy was the
\* latest never takes back completion, the marker or the platform version.
DurableUnlessStale ==
    [][FreshPatch =>
          /\ \A t \in {"Migrated", "Verified"} :
                IsTrue(cr.status.conds, t) => IsTrue(cr'.status.conds, t)
          /\ cr.status.version # "" => cr'.status.version # ""
          /\ cr.status.releases.platform # "" =>
                cr'.status.releases.platform # ""]_vars

\* The resource stays Managed and the operand healthy.
Healthy == cr.there /\ cr.state = "Managed" /\ conv = "ok" /\ dep.pod # ""

\* The status tells the platform operator that its release is in place.
Aligned ==
    /\ cr.status.version = PlatformConfig.version
    /\ cr.status.name = PlatformConfig.name
    /\ cr.status.releases = [module |-> opVersion,
                             platform |-> PlatformConfig.version]
    /\ IsTrue(cr.status.conds, "Ready") /\ cr.status.phase = "Ready"
    /\ cr.status.obs = cr.gen
    /\ dep.rev = opVersion /\ ~leftover

\* Every pass could read the platform ConfigMap.  (A pass that could not ends
\* without error, and is run again only if something else asks for it.)
ConfigReadable == [](pc # "idle" => pcfg.available)

\* An upgrade completes: on a cluster that stays healthy the status ends up,
\* and stays, in line with the ConfigMap, whatever was stale, failed or torn
\* on the way.
UpgradeCompletes == ConfigReadable /\ <>[]Healthy => <>[]Aligned

\* A removal completes: once Removed is asked for and kept, the operand is
\* deleted, stays so, and the status says it.
RemovalCompletes ==
    <>[](cr.there /\ cr.state = "Removed") =>
        <>[](/\ dep = NoDeployment /\ ~leftover /\ svm = NoSVM
             /\ cr.status.conds["Available"].reason = "Removed"
             /\ cr.status.phase = "NotReady")

\* An outage is noticed: while the operand's pods stay down, or the platform
\* waits for a version the conversion does not allow, the status ends up not
\* Ready.
OutageReported ==
    /\ <>[](cr.there /\ cr.state = "Managed" /\ dep.pod = "")
          => <>[]~IsTrue(cr.status.conds, "Ready")
    /\ ConfigReadable
       /\ <>[](cr.there /\ cr.state = "Managed" /\ conv = "broken"
               /\ cr.status.version # PlatformConfig.version)
          => <>[]~IsTrue(cr.status.conds, "Ready")

\* A deleted resource leaves nothing behind, although passes over its cached
\* copy may still recreate the operand for a while.
UninstallClean ==
    <>[]~cr.there => <>[](dep = NoDeployment /\ ~leftover /\ svm = NoSVM)

-----------------------------------------------------------------------------
(* What a comment of the code says, and what it does                        *)

\* setDistributionStatus tracks upgrade completion: a version is recorded
\* when the operand's pods run the template of that upgrade.
RecordedAfterRollout ==
    [][cr'.there /\ cr'.status.version # cr.status.version
          => dep.pod = dep.rev]_vars

=============================================================================
