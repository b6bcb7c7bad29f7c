# TLA+ models of the MCP lifecycle module operator

The operator (`cmd/main.go`, `internal/`, `api/`) watches one cluster-scoped
`MCPLifecycleOperator` resource, installs the MCP lifecycle operator (the
*operand*) for it, reports to the platform through `status`, migrates stored
`MCPServer` objects to the new storage version, and discovers MCP gateways.  A
release tool, `tools/source-update`, replaces the operand's committed manifests
and verifies that they are from one source commit.

Contents: [inventory](#inventory) · [modules](#modules-and-how-they-correspond-to-the-code) ·
[runs](#runs) · [fairness](#fairness) · [proofs](#proofs) ·
[findings](#where-comments-and-code-differ) · [not modelled](#what-is-not-modelled) ·
[plan](#plan)

## Inventory

| Component | State it keeps | Operations | What makes it correct |
| --- | --- | --- | --- |
| Reconcile loop (`mcplifecycleoperator_reconciler.go`) | none between passes; the resource's `status` on the API server | one pass: read from the cache, remove **or** deploy, collect garbage, check readiness, conversion gate, distribution, migration, status patch, requeue | status is true of the generation it names; an upgrade is recorded only when verified, and ends up recorded; removal and uninstall leave nothing |
| Conversion gate, platform handshake (same file) | `status.distribution`, `status.releases`, the condition `MCPServerConversionVerified` | paged LIST of MCPServers at v1beta1, restarted when its token expires; skip when settled | the platform version never passes the gate unverified, also over a status written by a controller that had no gate; the pages together answer for every object; a call does bounded work |
| Storage migration (`storage_migration.go`) | one `StorageVersionMigration` of a fixed name, with the attempt number in an annotation; the condition `MCPServerStorageMigrated` | discovery, Get, observe, Delete, Create; removal | no false completion, bounded retries, evidence of a spent budget kept, always decided |
| Conditions (`mcplifecycleoperator_lifecycle.go`) | the conditions array | MarkTrue/False, AggregateReady, Phase | Ready and phase follow from the dependents |
| Gateway discovery (`gateway_discovery.go`) | two `sync.Once`s and dynamic informers; `status.availableMCPGateways` | list extensions, resolve their Gateways' listeners, register watches late | a failure never truncates the list; the list follows the cluster |
| Manager (`cmd/main.go`), TLS policy (`tls.go`) | per process: the environment, the metrics listener, the policy it was built from, the watches | TLS bootstrap with retries under a deadline, set-up, end when the policy changes; every pass resolves again for the operand | fails closed; listener and operand follow the policy through restarts, fallbacks and changes at any moment |
| Manifest rendering (`internal/manifests`) | none | load, place in the namespace, set image, TLS variables and arguments | resources that refer to each other still do after the rewrite; one coherent TLS policy |
| source-update (`tools/source-update`) | working tree: `go.mod`/`go.sum`, configuration, installer, image record, the CI workflow's output file | `update`: resolve a ref, its Go version and its image, generate, pin, append, swap by rename, roll back; `verify`: regenerate and compare | everything from one commit, with an image built from it; all or nothing, or an error that says what is not restored; no original lost; no mixture verified |

How they interact.  The work queue runs one pass at a time (one resource, one
worker, leader election).  A pass reads the resource, the ConfigMap and the
Deployment from informer caches, everything about the migration and the
gateways live, and writes to the API server with one call after another.  Its
last write is a JSON merge patch of `status` computed against the copy it read,
without a resourceVersion.  Events of the resource, the operand, the ConfigMap,
CRDs, and, once registered, extensions and Gateways put the request back into
the queue.  The migration is called at the end of a pass and shares its cached
conditions.  The TLS policy is read live by the bootstrap, before there is a
manager, and through a cache by the profile watcher and by every pass; what a
pass resolves are the parameters of the manifests it renders and applies.

What is hard here: stale caches under blind patches; a crash or a lost answer
between two calls (above all between Delete and Create of the migration);
edits, deletions and ConfigMap changes during a pass; a pass that ends without
asking for a requeue; watches registered after the first read; a LIST in pages
over a changing cluster; a policy that changes while the process starts; a ref,
a proxy and a tag that move between requests; failures of the rollback itself.
`PROJECT.json` lists these hazards at their lines with the properties aimed at
each.

## Modules and how they correspond to the code

| Module | Models |
| --- | --- |
| `StorageMigration` | `reconcileStorageMigration` and what it calls, one action per API call, as a component other modules drive (`MigEnter` ... `MigLeave`); the migrator and administrators |
| `MigrationLoop` | the migration alone with the smallest caller: start from a cached condition, publish the outcome, requeue, crash |
| `Conditions` | the conditions manager, as operators on a function from condition types to status, reason and generation |
| `Reconciler` | the whole pass over one resource, with `StorageMigration` as its tail, and its environment |
| `Handshake` | what the platform operator relies on: a version is asked for, verified, then published; implemented by `Reconciler` |
| `GatewayDiscovery` | discovery call by call, the late watches and their informers, the publication of the list |
| `ConversionGate` | what the conversion check promises the handshake: one answer to one call |
| `ConversionCheck` | `checkConversionHealth`, one action per LIST request, which implements `ConversionGate` |
| `TLSPolicy` | `tls.go`, the set-up of `main.go` around it, and the part of a pass that brings the policy to the operand |
| `Rendering` | `KustomizeProvider.Manifests`, one operator per transformer, and the embedded resources it works on |
| `PolicyRollout` | `TLSPolicy` and `Rendering` composed: the manifests on the cluster at every moment |
| `ImageResolve` | `resolveOperandImageAt`, one action per registry request |
| `SourceUpdate` | `applyUpdate`, `installOutputs` and their rollbacks, one action per file operation |
| `SourceSync` | `update` and `verify`: `ImageResolve`, generation and `SourceUpdate` composed |
| `...Proofs` | the proofs: `StorageMigration`, `Migration`(`Loop`), `Reconciler`, `ConversionCheck`, `GatewayDiscovery`, `TLSPolicy` (with `Rendering` and `PolicyRollout`), `SourceUpdate`, `SourceSync` (with `ImageResolve`) |
| `MC...` | values for TLC |

Definitions named `Mut...` stand before the definition they distort.  They are
plausible bugs, used to see that a property notices them, and no specification
refers to them.

**StorageMigration, MigrationLoop.** `svm` is the migration object (its attempt
number, its phase), `served` whether its API group is there, `mpc` the call the
running pass makes next.  A call may fail, be carried out with its answer lost,
or be preceded by a crash; each uses up one of `MaxFaults`.  The code deletes by
name, so `MigDelete` takes away whatever has the name by then.  A 404 is read as
an absent object, also when the group itself has gone.  `creates` and `budget`
are history: `budget` grows by `MaxRetries` whenever an attempt count is lost
with the object that carries it (`ObjectCounts`) or with the pass that is to
create the next one (`PassCounts`; a first attempt has no count to lose), which is what the code can promise (`RetryBudget`), and `creates`
alone is what its comment promises (`BudgetSurvivesRecreate`).  `Verdict` pairs a
condition with the requeue the code returns for it.

**Reconciler.** `cr` is the resource on the server, `cache` the informer's
copy, `orig` the copy a pass read and `work` the status it builds.  `MergePatch`
is the JSON merge patch: only fields that differ between `orig` and `work` are
sent, lists as a whole, onto whatever is there by then.  `Deploy` joins TLS
policy, rendering and apply, which `PolicyRollout` takes apart; `CheckConversion`
is the whole LIST, which `ConversionCheck` takes apart.  The Deployment is
its template's version and the version of the available pod, since
`checkDeploymentsReady` sees nothing else.  `leftover` stands for resources of an
older release that garbage collection removes.  A deleted resource may linger in
the cache: passes over it are bounded by `MaxGhosts`.  Condition reasons that
no later step distinguishes share a name (DeployFailed, DeploymentNotReady,
ConversionCheckFailed each stand for several).  Messages are left out except
that some carry free text, so that equal conditions may still differ in the patch.

`Gate` maps this state to `Handshake`: what is asked for is the version of
`PlatformConfig`, the target is the version the running pass read
(`pcfg.version`), and the published version, release and marker are those of
the resource's status on the server.  The abstract `Publish` lets the release
go back to a version verified earlier, because a merge patch from a stale copy
can; the distribution's version stays or moves to the target.

**GatewayDiscovery.** `crdSeen` and `seen` are caches, `once` the consumed
Onces, `informer` the state of the dynamic informers, `dirty` the kinds with an
undelivered event.  An extension is its target and readiness, or `Malformed`;
a Gateway is a set of listeners, each a kind of hostname and a protocol, or
`Undecodable`.
`InformerStart` is the informer's first list: objects deleted between the pass's
own LIST and that list raise no event.

**ConversionGate, ConversionCheck.** `token` is what is left of the snapshot a
continue token names, so the first page, with an empty token, lists what is
stored by then and later pages do not see newer objects.  `compacting` makes
tokens expire.  An object is convertible or not at the moment its page is
answered.  `steady` and `okOnce` are history: the objects stored ever since the
call began, and those convertible at some moment of it.  The gate promises that
"healthy" means steady objects are among the latter, not that all were
convertible at one moment, which no paged LIST can say.

**TLSPolicy, Rendering, PolicyRollout.** `policy` is the profile and adherence
of the APIServer resource; `Load` and `Strict` are the ODH framework's loader
and its strict conversion, modelled from the outcomes `tls.go` distinguishes.
`proc` is the process: `boot` while `resolveMetricsTLSConfig` retries, `wired`
from the listener's options to `mgr.Start`, `up`, and `down` until the kubelet
starts it again.  `watcher` is the raw policy the SecurityProfileWatcher was
seeded with: it compares its cached copy with it, which is how a change between
the bootstrap's read and the first list is noticed.  `operand` holds the
parameters of the last apply, and `Applied` the manifests rendered from them.
In `Rendering` a resource is its namespace and the places that refer to another
namespace or host; a DNS name is a service and a namespace.

**ImageResolve, SourceSync.** A body is known by its digest, and `Content` says
what it decodes to; the registry answers any request with any body and any
digest header, which includes a moving tag.  `sourceCommit`, `moduleVersion` and
`generate` take any commit or version as their answer, and the code's checks are
their guards.  Two assumptions are the outside world's: a Go version names one
commit for ever (the checksum database), and generation is a function of commit
and image (the versions of its tools are fixed in `generatorMakeArgs`).  `verify`
is one step, as nothing else writes the tree; it does not ask the registry
again, so that `VerifiedIsProduct` rests on the image record an earlier update
wrote.

**SourceUpdate.** `target`, `backup` and `output` are what is at each output's
place and in its workspace; `backedUp` and `installed` the flags of
`installEntry`.  `reported` is set when the returned error says that something
could not be restored.  `Kill` may come between any two file operations.

## Runs

Each passing run explores its whole state space.  Bounds are per behaviour: at
most so many faults, edits or outages in all, each at any point.

| Run | Bounds | Checks |
| --- | --- | --- |
| `migration` | budget 3 (the code: 5), 2 faults, 1 administrator operation | `LoopTypeOK`, `CompletionHonest`, `RetryBudget`, `RetryDeletesFailed`, `EvidenceKept`, and with fairness `MigrationDecided`, `OutcomeReported` |
| `rec_handshake` | operator upgrade, 1 ConfigMap change, 1 outage, 1 fault, inherited status, no migrator | `TypeOK`, the refinement `ImplementsHandshake`, `ConversionChecked`, `DurableUnlessStale`, `UpgradeCompletes` |
| `rec_removal` | 2 edits of the resource, 1 fault, migrator | `RemovedMeansGone`, `ReadyMeansManaged`, `RestsWhenDone` |
| `rec_outage` | operator upgrade, 1 outage of pods or conversion, migrator, whose end stops the requeues | `OutageReported`, `UpgradeCompletes` |
| `rec_live_removal` | 1 edit or deletion, 1 fault, 1 pass over a deleted copy, inherited status, migrator | `RemovalCompletes`, `UninstallClean` |
| `gateways` | 1 extension, 1 Gateway, 3 changes, 1 fault | `DiscoveryTypeOK`, `NeverDropped`, `GatewaysReported`, `WatchesSuffice` |
| `conversion` | 3 objects in pages of 1 (the code: 500), 3 restarts as in the code, 3 changes of the cluster or failing requests | `BoundedWork`, the refinement `ImplementsGate`, and with fairness `GateOpens` |
| `policy` | 5 policies (default, honoured, not honoured, partly usable, unusable), 2 environments, 3 attempts as in the code, 2 changes, 3 faults | `PolicyTypeOK`, `FailClosed`, `WebhooksTrusted`, `ManagerCoherent`, and with fairness `ListenerFollows`, `OperandFollows` |
| `update` | 2 commits, 3 versions, indexes that are good, rebuilt, of another commit, mixed, too long, incomplete or attestations only; the code's 3 outputs and 2 module files, 3 failing operations, a kill | `UpdateTypeOK`, `OriginalKept`, `AllOrNothing`, `ResolveTypeOK`, `ImageFromSource`, `Synchronized`, `VerifiedIsProduct`, and with fairness `ResolveEnds` |

Why these bounds suffice for the cases of interest.  Three attempts have a
first, a middle and a last one; the proofs cover every budget.  One fault plus a
stale cache reaches every lost answer and crash window once; two faults in the
migration let the retry of a retry fail.  Two edits make managementState flip
there and back within one pass.  Two ConfigMaps that differ in name, version and
the key the version comes from exercise both defaults of `getPlatformConfig`.
Three changes of the world install a CRD, an extension and its Gateway, or take
one away again.  Three failing file operations cover a failing install, a
failing removal and a failing put-back in one rollback.  Three pages are a first,
a middle and a last one, and three changes can break the webhook after the first,
delete an object before the last and expire the token.  Two changes of the
policy let it move away and back while the process starts; three faults are as
many as the bootstrap has attempts, so that every read can fail.

Some properties carry hypotheses that the code needs:

* `UpgradeCompletes` and part of `OutageReported` assume `ConfigReadable`.  A
  pass that fails to read the ConfigMap ends without error; once the migration
  is settled nothing requeues it, and an upgrade waits for the next event or the
  informers' resync.  (The read is from a cache and practically never fails.)
* `GatewaysReported` assumes `Resync`, events that never stop: a deletion missed
  by a starting informer, a failed Watch whose Once is consumed, and a failed
  discovery, which is only logged, are all set right only by a later event.
  `WatchesSuffice` shows what holds without it.
* `GatewaysReported` and `WatchesSuffice` assume `AllDecode`: a Gateway that is
  named by an extension and does not unmarshal ends every discovery with an error
  for as long as it is there, and the list of all extensions stays as it was.
* `DurableUnlessStale` speaks of passes that read the latest status; a pass from a
  stale copy can take a condition back (see below).  `RestsWhenDone` is what
  remains true of those: the event of the torn status has yet to be delivered, or
  its pass to run.
* `GateOpens` assumes that conversions work and tokens stay valid from some
  point on: a cluster that compacts for ever postpones the handshake for ever.
* `ListenerFollows` and `OperandFollows` assume a policy the process can start
  from, and the watcher or the watch: both are set up once per process, only
  where the APIServer API is there by then.

`update`, `conversion` and `policy` do not check for deadlock: the tool ends; the
check rests once it is healthy; the process rests when nothing is due and the
bounds are used up.

## Fairness

All fairness is weak.  The worker's next step (`Pass`, `Start`/`Step`/`Finish`):
controller-runtime's worker takes what is queued, and every call returns or
times out.  Delivery of events (`CacheSync`, `DeploymentSync`, `Sync`,
`ResourceSync`, `CRDSync`, `InformerStart`, `InformerSync`): informers re-list
until they succeed.  `OwnerCollect`: Kubernetes collects what has lost its
owner.  `Migrator`: an installed migrator ends a migration either way.
`Start` of the policy model: the kubelet restarts a container that ended;
`BootAttempt`, `Wire`, `WatcherFires`: the process goes on, its reads have a
deadline.  `Begin` and `List` of the conversion check: every unhealthy answer
carries a requeue.  `resolveOperandImage`: the HTTP client times out after 20
seconds and the whole resolution after two minutes.  Nothing is assumed of the
git, go and make commands of source-update, which have no timeout.  Nothing
is assumed of users, administrators, the platform, rollouts, conversions or
restarts: a liveness property names what it needs of them, such as
`<>[]Healthy`.  Faults are bounded, so calls fail finitely often.

## Proofs

tlapm checks the theorems for every value of the constants under the stated
assumptions (`MigrationAssumption`, `UpdateAssumption`, `CheckAssumption`,
`TLSAssumption`: bounds are naturals, budget, outputs, page size and retries
positive, `MaxPages` pages hold all objects, a policy is a record of a profile
and an adherence; `ReconcilerAssumption`: a platform config is three strings, the
operator's two versions are not empty; `DiscoveryAssumption`: names and namespaces
are strings, the namespace of an object not empty; `ContentAssumption`,
`SyncAssumption`: what bodies decode to and what versions and old trees are).

**Migration.** `MigInv` of `StorageMigrationProofs` is inductive for each
action of the component, so that both callers, `MigrationLoop` and
`Reconciler`, use it.  Beside types it has `CountCarried` and
`SuccessObserved`.  `RetryBudget` alone is not inductive: whether one more
Create keeps within the budget depends on the count the object, or between
Delete and Create the running pass, still carries.  `CountCarried` relates the
three: with an object of attempt *a*, creates + MaxRetries <= budget + *a*; in
the delete and create positions the same with the attempt the pass holds.
`LoopInv` adds that completion is asserted, in the server's, the cached and the
pass's copy of the condition, only after a success.

* `LoopTypeCorrect`: types, with every attempt number within the budget.
* `NoFalseCompletion`: the condition, also the cached one, reads True only after
  a migration succeeded.
* `RetriesBounded`: at most MaxRetries creations per loss of the count, the first
  start included.
* `RetriesOnlyFailed`: a retry deletes a failed migration, or one an administrator
  applied after the operator's Get.
* `EvidenceStays`: the failed object of a spent budget stays until an administrator
  acts.  It needs `RetryTarget`: between Get and Delete the object on the server,
  whoever put it there, has budget left.  This invariant too is proved in
  `StorageMigrationProofs`, step by step of the component.

**Reconciler.** There are four copies of the status: the server's, the cached
one, the one the pass started from and the one it builds.  A step moves one onto
another, and the final merge patch mixes three of them, so a statement about the
server's status is inductive only when it is made of all four.  Each invariant is
therefore a predicate on a status, and the lemmas about `Unavailable`, `Advanced`,
`AggregateReady` and the merge say what each operator of the model does to it.
`MigInv` is used as proved in `StorageMigrationProofs`.

* `ReconcilerTypeCorrect`: types, over the sets of reasons, versions and names the
  code can write; the migration runs only inside the pass's last part.
* `HandshakeGated`, `MarkerEarned`, by `GateInv`: every copy names only verified
  versions and has the marker only after this controller's own LIST succeeded; the
  migration is entered only past the gate.
* `LoopIsHandshake`: every step is a step of `Handshake`, or a stutter.  Beside
  `GateInv` it needs `TargetInv`: the status a pass builds names the version of
  its own copy, or the one the pass read, and the latter only past the gate; a
  merge patch therefore sends that version or none.  `UpgradeGated`, the
  invariant this rests on, is proved as `HandshakeGated`; no run checks it
  separately.
* `ReadyHonest`, by `OrderInv` and `ReadyInv`: copies are ordered by generation and
  copies of one generation ask for the same; no copy is ahead of the resource, and
  one that says Ready at its generation belongs to a managed resource.
* `RemovalHonest`, by `RemovalInv`: if any copy reports the removal at the current
  generation, then the operand is gone and neither the cache nor the running pass
  is old enough to deploy it again.  The theorem has the hypothesis `adminOps = 0`,
  which the run states by its bound: an administrator may create a migration
  object by hand after the removal.  `OperandRemovalHonest` is what needs no
  hypothesis: the Deployment and the other owned objects are gone.
* `FreshKeeps`, by `DurableInv`: a patch from a pass whose copy is the server's
  writes exactly the status the pass built (`FreshMerge`), and takes back neither
  the migration nor the verification nor a recorded version.  A pass keeps what its own copy says is
  settled (`KeptBy`) and does not enter the migration when it is; the release needs
  that a status naming one names a version as well (`Released`).  For patches from
  a stale copy the property is false, see below.
* `RestDone`, by `RestInv` and `RemovalInv`: the operator rests only when its work
  is done.  Being finished is not a property of one action: a stale pass may tear
  the status after it was.  The argument is that while nothing is queued the cache
  is the copy the running pass started from (`CopyHeld`), so if its patch leaves
  the server equal to the cache, it has changed nothing (`NothingPatched`); the
  status was already the one that a pass which asks for no other writes
  (`Concluded`), and what that pass did to the operand stands (`OperandHeld`,
  `WorkHeld`).  Every other step that could undo it queues the request, or leaves
  the cache behind the server.
* `RestAligned`, by `ConfigHeld`: if also every pass could read the ConfigMap, a
  resting operator's status names the release of the ConfigMap and the running
  operator's version.  Without the hypothesis it is false, for the reason given
  under `UpgradeCompletes`.
* The migration's theorems again, for the whole loop, in which the condition is
  one of a list that patches overwrite, and removal or deletion takes the
  object away: `LoopRetriesBounded`, `LoopRetriesOnlyFailed`,
  `LoopEvidenceStays` (the failed object of a spent budget leaves by an
  administrator, a removal pass or the deletion of the resource, never by a
  retry) and `LoopNoFalseCompletion` (none of the four copies says Migrated
  before a migration succeeded).  `LoopCompletionHonest` and `EvidenceTaken` state
  the last two for this module.

**Gateway discovery.** `DiscoveryTypeCorrect`: types of the cluster, the caches,
the watches and every list the pass handles.  `GatewaysNeverDropped`, by `DropInv`:
at each step of a pass, an extension its list will not show is one that was
missing, malformed or not served at some moment of the pass (`lacking`), or the
list is the one it read.  Failing calls fall in the second case, edits during the
pass grow `lacking`.

**Updater.** `OriginalKept` is not inductive either: the flags in memory decide
what is removed and swept.  `OriginalsHeld` says that the flag `backedUp` agrees
with the workspaces and that every original is in its place or its workspace;
`Progress` that `installed` is the prefix the swap has come through and means the
new output is in place, until the undoing has passed it.  With that, a removal
takes away new outputs only, the sweep spares every backup, and the cleanup
starts only when all outputs are new.

* `UpdateTypeCorrect`: types; the index stays on an item.
* `OriginalsSafe`: no original is lost, for every number of outputs and failures.
* `RestoredOrReported`: `AllOrNothing`, relative to the invariant above, from
  `TrackInv`.  Its core, `OutputsTracked`, splits the items at the index of the
  rollback: those still ahead are `Undoable` (a backup if they existed before,
  untouched if neither flag is set), those behind are `Undone`, as before or
  reported.  `OthersTracked` and `ErrorTracked` do the same for the module files,
  the workflow's file and the error.

**Conversion check.** `CheckIsGate`: the paged check implements `ConversionGate`,
by `Seen`: whatever a call has converted was convertible during it, and the
steady objects it has not converted are still in the snapshot its token names,
so that the last page leaves none.  A restart throws the token away and starts
from what is stored, which holds all steady objects.  `WorkIsBounded`: by `Work`,
with *n* pages left at most, calls + *n* stays within the listings begun; a page
takes `PageLimit` objects off the snapshot (`PageShrinks`, from the library's
cardinality theorems).  `CheckTypeCorrect`: types, restarts within the cap.

**TLS policy and rendering.** `ListenerFailsClosed`: by `BootInv`, which says of a
starting process that all its answers so far were transient and that it has
retries left.  `PolicyTypeCorrect`: types, by `ResolvedInv`, that a resolved policy
has a profile to serve.  `WebhooksTrustedEverywhere`: for every namespace, image
and policy, the service the API server asks for a webhook is there under a name
that a certificate of its namespace carries, and the CA comes from the namespace
of the serving certificate.  It goes through the transformers one by one: the
policy patch changes the manager's Deployment only (`PatchedFacts`), the namespace
transformer puts each namespaced object where it belongs (`PlacedFacts`), the
rewrite of the embedded namespaces meets the Service's new home
(`RenderedFacts`); and rendering never fails, because the manager the patch looks
for is there (`ManagerThere`).

`ManagerAlwaysCoherent`: the manager on the cluster carries each setting once,
its TLS variables all from one resolution, and keeps those the manifest sets
itself.  `SourceInv` says that the parameters a pass holds and those of the
last apply each come from one resolution; a resolution always names a minimum
version, so that `injectTLSEnvVars` does not return early.  `SetEnvVarFacts` and
`SetFlagArgFacts` say what the two setters do to a list of any length that has
the name once or not at all: it then has it once, with the new value, and the
other variables keep theirs.  No induction is needed, as both are stated of positions.

**Image resolution.** `PinnedImageFromSource` and `ResolveTypeCorrect`, by
`ResolveInv`: every runnable entry before the one looked at was validated
against the digests in the index itself (`Validated`), the config asked for is
the one the entry's manifest names (`ConfigNamed`), a count above zero means such
an entry (`Counted`), and a result means that the loop is over (`LoopOver`).

**Whole tool.** `SyncSpec` implements both `SourceUpdate`'s and `ImageResolve`'s
specification (`ImplementsUpdate`, `ImplementsResolve`), so their theorems hold of
it: `SyncAllOrNothing`.  `SyncSynchronized` and `SyncVerified` add `SyncInv`: from
the moment a version is accepted it is one of `commit`, the image asked for is
that commit's, and the outputs generated so far are of both; once applying has
begun nothing of this changes, and the record in the tree is the old one or the
new one, each with an admissible image.

Only model-checked: all liveness, because fairness is outside the prover
(`MigrationDecided`, `OutcomeReported`, `UpgradeCompletes`, `OutageReported`,
`RemovalCompletes`, `UninstallClean`, `GatewaysReported`, `WatchesSuffice`,
`ResolveEnds`, `GateOpens`, `ListenerFollows`, `OperandFollows`).

## Where comments and code differ

Three runs are expected to fail; each checks what a comment says.

* `says_budget`: "the retry budget survives the delete-and-recreate"
  (`storage_migration.go:158`).  The count lives only on the object, and a crash
  or failed Create after the Delete loses it.
* `says_metrics`: `rewriteCertManagerNamespace` lists where "the operand manifests
  also embed the operand namespace" (`kustomize.go:114`) and retargets these
  places.  The ServiceMonitor's `serverName` is not among them, while the dnsNames
  of the metrics certificate are rewritten: outside the baked namespace Prometheus
  verifies a name that the certificate does not carry.
* `says_rollout`: the distribution lets the platform "track upgrade completion"
  (`mcplifecycleoperator_reconciler.go:368`).  Readiness counts available replicas
  of any template, so the version is recorded before new pods run.

Also seen, without a run:

* `MCPServerStorageMigrated` is called "the durable signal"
  (`storage_migration.go:302`).  A pass from a stale cache that changes any
  condition patches the whole list and takes it back, until a later pass sets it
  again.
* `availableMCPGateways` is "Empty when no MCPGatewayExtension CRD is installed"
  (`mcplifecycleoperator_types.go:90`).  A Removed resource keeps its last list.
* A failed removal leaves Ready=True under the new observedGeneration, until it is
  retried (`RestsWhenDone`).
* One Gateway that does not unmarshal freezes `availableMCPGateways` for all
  extensions, where one malformed extension is skipped.
* `deleteStorageMigration` has no UID precondition and can hit an object that
  replaced the failed one.
* A process started before the APIServer API was installed never follows the
  policy.

## What is not modelled

* Deletion and recreation of the resource under the same name: a late patch of the
  old one on the new one.
* Two managers at once: leader election is taken as given.
* Flags, probes and cache transforms of `main.go`.
* RBAC, schemas and other embedded resources that carry nothing but their own
  namespace.
* What `make`, kustomize and `go mod tidy` do: functions of their inputs.
* How the deployer library lists labelled resources; server-side apply conflicts.
* Generated deep-copy code.

## Plan

1. *Done*: `StorageMigration`, `MigrationLoop`, `Conditions`, `Reconciler`,
   `GatewayDiscovery`, `SourceUpdate`; the migration's and the updater's proofs.
2. *Done*: `ConversionCheck` as a refinement of `ConversionGate`; `TLSPolicy`,
   `Rendering` and their composition; `ImageResolve` and `SourceSync`, composed with
   `SourceUpdate`; their proofs.
3. *Done*: the safety invariants and action properties of `Reconciler` and
   `GatewayDiscovery`, the rest of the migration's, `PolicyTypeOK` and
   `WebhooksTrusted`.
4. *Done*: `Handshake` and its refinement, `ManagerCoherent`, the migration's
   theorems in the whole loop.
5. Left: recreation of the resource under the same name.
