-------------------------- MODULE GatewayDiscovery --------------------------
(***************************************************************************)
(* Discovery of MCP gateways, internal/controller/gateway_discovery.go: a  *)
(* pass over a Managed resource lists the MCPGatewayExtensions, reads the  *)
(* Gateway each one targets, and publishes the result in                   *)
(* status.availableMCPGateways.  It then registers, once per process, a    *)
(* watch on each of the two resources whose CRD it sees, so that their     *)
(* changes start a pass.                                                   *)
(*                                                                         *)
(* CRDs and the resource are read from caches that may lag; extensions and *)
(* Gateways are read from the API server, one call per step.  The rest of  *)
(* the pass is left to Reconciler.                                         *)
(***************************************************************************)
EXTENDS Integers, FiniteSets

CONSTANTS
    Extensions,    \* names and home namespaces: records [name, ns]
    Gateways,      \* likewise
    Specs,         \* what an extension may say: [target, ns, ready]
    ListenerSets,  \* listeners a Gateway may have: sets of [host, protocol]
    MaxFaults,     \* bound: failed calls and crashes
    MaxEdits       \* bound: changes of CRDs, extensions, Gateways, the resource

\* Definitions whose name starts with Mut are plausible bugs in the definition
\* that follows them; the specification never uses them.

Kinds == {"extension", "gateway"}

\* An extension, and a Gateway, that does not unmarshal.
Malformed == [target |-> "?", ns |-> "?", ready |-> FALSE]

Undecodable == {[host |-> "?", protocol |-> "?"]}

ASSUME DiscoveryAssumption ==
    /\ Extensions \subseteq [name : STRING, ns : STRING \ {""}]
    /\ Gateways \subseteq [name : STRING, ns : STRING \ {""}]
    /\ Specs \subseteq [target : STRING, ns : STRING, ready : BOOLEAN]
    /\ ListenerSets \subseteq
          SUBSET [host : {"none", "empty", "wildcard", "direct"},
                  protocol : {"HTTP", "HTTPS"}] \union {Undecodable}
    /\ MaxFaults \in Nat /\ MaxEdits \in Nat

VARIABLES
    crd,       \* installed CRDs
    crdSeen,   \* those the CRD informer has delivered
    exts,      \* the extensions on the API server, with their specs
    gws,       \* the Gateways on the API server, with their listeners
    cr,        \* the resource: is it Managed, and the published gateways
    seen,      \* the resource in the informer cache
    queued,    \* the work queue holds the request
    pc,        \* what the pass does next
    basis,     \* the published gateways in the copy the pass read
    items,     \* what the LIST returned and is still to be resolved
    found,     \* the list the pass is building
    published, \* the list the pass will patch into the status
    once,      \* kinds whose sync.Once is consumed
    informer,  \* state of each kind's informer: none, starting or on
    dirty,     \* changes on their way from the API server to the informers
    faults, edits,
    lacking    \* history: extensions this pass may rightly find missing

worldVars == <<crd, exts, gws>>
passVars == <<pc, basis, items, found, published>>
watchVars == <<once, informer, dirty>>
vars == <<worldVars, crdSeen, cr, seen, queued, passVars, watchVars,
          faults, edits, lacking>>

-----------------------------------------------------------------------------
(* Data: a partial function is a set of objects with their contents.        *)

Empty == <<>>

Put(f, k, v) == [x \in DOMAIN f \union {k} |-> IF x = k THEN v ELSE f[x]]

Drop(f, k) == [x \in DOMAIN f \ {k} |-> f[x]]

\* The Gateway an extension targets, in its own namespace by default.
TargetOf(e, spec) ==
    [name |-> spec.target, ns |-> IF spec.ns = "" THEN e.ns ELSE spec.ns]

\* Listeners an HTTPRoute for MCP can be attached to.
Usable(l) ==
    \/ l.host = "wildcard"
    \/ l.host = "direct" /\ l.protocol = "HTTP"

\* An absent Gateway is no obstacle, one that does not unmarshal is.
Decodes(g) == g \in DOMAIN gws => gws[g] # Undecodable

\* resolveGatewayListeners: an absent Gateway has no listeners.
Listeners(g) ==
    IF g \in DOMAIN gws THEN {l \in gws[g] : Usable(l)} ELSE {}

Info(e, spec) ==
    [ready |-> spec.ready, gateway |-> TargetOf(e, spec),
     listeners |-> Listeners(TargetOf(e, spec))]

\* Objects that do not unmarshal are left out.
WellFormed(f) == {e \in DOMAIN f : f[e] # Malformed}

Contents(k) == IF k = "extension" THEN exts ELSE gws

NoInformers == [k \in Kinds |-> "none"]

-----------------------------------------------------------------------------
Fault == faults < MaxFaults /\ faults' = faults + 1

NoFault == UNCHANGED faults

Edit == edits < MaxEdits /\ edits' = edits + 1

Init ==
    /\ crd \in SUBSET Kinds /\ crdSeen = crd
    /\ exts = Empty /\ gws = Empty
    /\ cr = [managed |-> TRUE, list |-> Empty] /\ seen = cr
    /\ queued = TRUE
    /\ pc = "idle" /\ basis = Empty /\ items = Empty /\ found = Empty
    /\ published = Empty
    /\ once = {} /\ informer = NoInformers /\ dirty = {}
    /\ faults = 0 /\ edits = 0 /\ lacking = {}

\* Extensions no pass could list now.
Missing == IF "extension" \in crdSeen THEN Extensions \ WellFormed(exts)
                                      ELSE Extensions

-----------------------------------------------------------------------------
(* The pass                                                                 *)

\* Discovery returns: its list replaces the one in the status, and an error
\* leaves that one alone.
Discovered(list) == published' = list /\ pc' = "watch"

Preserved == Discovered(basis)

\* The pass begins.  A Removed resource is not scanned; without the extension
\* CRD in the cache the list is empty.
MutNoCRD == Discovered(seen.list)
NoCRD == Discovered(Empty)

Begin ==
    /\ pc = "idle" /\ queued
    /\ queued' = FALSE
    /\ basis' = seen.list
    /\ lacking' = Missing
    /\ \/ /\ ~seen.managed /\ NoFault
          /\ pc' = "patch" /\ published' = seen.list
       \/ /\ seen.managed /\ "extension" \notin crdSeen /\ NoFault
          /\ NoCRD
       \/ /\ seen.managed /\ "extension" \in crdSeen /\ NoFault
          /\ pc' = "list" /\ UNCHANGED published
       \/ /\ seen.managed /\ Fault
          /\ Discovered(seen.list)
    /\ UNCHANGED <<worldVars, crdSeen, cr, seen, items, found, watchVars, edits>>

List ==
    /\ pc = "list"
    /\ \/ /\ "extension" \in crd /\ NoFault
          /\ items' = [e \in WellFormed(exts) |-> exts[e]]
          /\ found' = Empty /\ pc' = "resolve" /\ UNCHANGED published
       \/ /\ IF "extension" \in crd THEN Fault ELSE NoFault
          /\ Preserved /\ UNCHANGED <<items, found>>
    /\ UNCHANGED <<worldVars, crdSeen, cr, seen, queued, basis, watchVars, edits,
                   lacking>>

\* The Gateway of the next item is read.  Any error but 404 gives up the
\* whole discovery, and so does a Gateway that does not unmarshal.
MutResolveFails(e) ==
    /\ IF Decodes(TargetOf(e, items[e])) THEN Fault ELSE NoFault
    /\ items' = Drop(items, e) /\ UNCHANGED <<pc, published, found>>
ResolveFails(e) ==
    /\ IF Decodes(TargetOf(e, items[e])) THEN Fault ELSE NoFault
    /\ items' = Empty /\ found' = Empty /\ Preserved

Resolve ==
    /\ pc = "resolve"
    /\ \E e \in DOMAIN items :
          \/ /\ Decodes(TargetOf(e, items[e])) /\ NoFault
             /\ found' = Put(found, e, Info(e, items[e]))
             /\ items' = Drop(items, e) /\ UNCHANGED <<pc, published>>
          \/ ResolveFails(e)
    /\ UNCHANGED <<worldVars, crdSeen, cr, seen, queued, basis, watchVars, edits,
                   lacking>>

Resolved ==
    /\ pc = "resolve" /\ items = Empty
    /\ Discovered(found) /\ found' = Empty
    /\ UNCHANGED <<worldVars, crdSeen, cr, seen, queued, basis, items, watchVars,
                   faults, edits, lacking>>

\* The kinds tryRegisterGatewayWatches would register now.
MutRegistrable == (crdSeen \intersect {"extension"}) \ once
Registrable == crdSeen \ once

\* It consumes the Once of each and starts its informer.  A Once is consumed
\* although Watch failed, and is left alone when the CRD could not be read.
MutStarted(ks) == informer' = [k \in Kinds |-> "starting"]
Started(ks) ==
    informer' = [k \in Kinds |-> IF k \in ks THEN "starting" ELSE informer[k]]

RegisterWatches ==
    /\ pc = "watch" /\ pc' = "patch"
    /\ \/ once' = once \union Registrable /\ Started(Registrable) /\ NoFault
       \/ \E tried \in SUBSET Registrable :
          \E done \in SUBSET tried :
             /\ done # Registrable /\ Fault
             /\ once' = once \union tried /\ Started(done)
    /\ UNCHANGED <<worldVars, crdSeen, cr, seen, queued, basis, items, found,
                   published, dirty, edits, lacking>>

\* The status patch carries the list if the pass changed it.
Patch ==
    /\ pc = "patch" /\ pc' = "idle"
    /\ \/ /\ cr' = [cr EXCEPT
                     !.list = IF published # basis THEN published ELSE @]
          /\ \/ NoFault /\ UNCHANGED queued
             \/ Fault /\ queued' = TRUE
       \/ Fault /\ queued' = TRUE /\ UNCHANGED cr
    /\ basis' = Empty /\ published' = Empty /\ lacking' = {}
    /\ UNCHANGED <<worldVars, crdSeen, seen, items, found, watchVars, edits>>

-----------------------------------------------------------------------------
(* Events: each starts a pass.                                              *)

ResourceSync ==
    /\ seen # cr /\ seen' = cr /\ queued' = TRUE
    /\ UNCHANGED <<worldVars, crdSeen, cr, passVars, watchVars, faults, edits,
                   lacking>>

CRDSync ==
    /\ "crd" \in dirty /\ dirty' = dirty \ {"crd"}
    /\ crdSeen' = crd /\ queued' = TRUE
    /\ lacking' = lacking \union
          (IF "extension" \in crdSeen \intersect crd THEN {} ELSE Extensions)
    /\ UNCHANGED <<worldVars, cr, seen, passVars, once, informer, faults, edits>>

\* An informer's first list: the objects in it are additions, so that there
\* is an event unless there are none.  It waits for the CRD to be served.
InformerStart ==
    /\ \E k \in crd :
          /\ informer[k] = "starting"
          /\ informer' = [informer EXCEPT ![k] = "on"]
          /\ queued' = (queued \/ Contents(k) # Empty)
    /\ UNCHANGED <<worldVars, crdSeen, cr, seen, passVars, once, dirty, faults,
                   edits, lacking>>

\* A running informer delivers changes.
InformerSync ==
    /\ \E k \in dirty \intersect Kinds : dirty' = dirty \ {k}
    /\ queued' = TRUE
    /\ UNCHANGED <<worldVars, crdSeen, cr, seen, passVars, once, informer, faults,
                   edits, lacking>>

\* Any other watched object changes, or is delivered again by the periodic
\* resync of the informers.
OtherEvent ==
    /\ pc = "idle" /\ ~queued /\ queued' = TRUE
    /\ UNCHANGED <<worldVars, crdSeen, cr, seen, passVars, watchVars, faults,
                   edits, lacking>>

-----------------------------------------------------------------------------
(* The world                                                                *)

\* Somebody changes a CRD (deleting one deletes its objects), an extension or
\* a Gateway.
World ==
    /\ Edit
    /\ \/ \E k \in Kinds \ crd :
             crd' = crd \union {k} /\ UNCHANGED <<exts, gws>>
       \/ \E k \in crd :
             /\ crd' = crd \ {k}
             /\ exts' = IF k = "extension" THEN Empty ELSE exts
             /\ gws' = IF k = "gateway" THEN Empty ELSE gws
       \/ /\ "extension" \in crd /\ UNCHANGED <<crd, gws>>
          /\ \/ \E e \in Extensions, s \in Specs : exts' = Put(exts, e, s)
             \/ \E e \in DOMAIN exts : exts' = Drop(exts, e)
       \/ /\ "gateway" \in crd /\ UNCHANGED <<crd, exts>>
          /\ \/ \E g \in Gateways, ls \in ListenerSets : gws' = Put(gws, g, ls)
             \/ \E g \in DOMAIN gws : gws' = Drop(gws, g)
    /\ dirty' = dirty
          \union (IF crd' # crd THEN {"crd"} ELSE {})
          \union {k \in Kinds :
                      informer[k] = "on" /\ Contents(k)' # Contents(k)}
    /\ lacking' = lacking \union (Extensions \ WellFormed(exts'))
    /\ UNCHANGED <<crdSeen, cr, seen, queued, passVars, once, informer, faults>>

\* A user flips managementState.
EditResource ==
    /\ Edit /\ cr' = [cr EXCEPT !.managed = ~@]
    /\ UNCHANGED <<worldVars, crdSeen, seen, queued, passVars, watchVars, faults,
                   lacking>>

\* The process dies; the next one has fresh caches and no watches.
Restart ==
    /\ Fault
    /\ pc' = "idle" /\ basis' = Empty /\ items' = Empty /\ found' = Empty
    /\ published' = Empty /\ lacking' = {}
    /\ once' = {} /\ informer' = NoInformers /\ dirty' = {}
    /\ crdSeen' = crd /\ seen' = cr /\ queued' = TRUE
    /\ UNCHANGED <<worldVars, cr, edits>>

Pass == Begin \/ List \/ Resolve \/ Resolved \/ RegisterWatches \/ Patch

Events == ResourceSync \/ CRDSync \/ InformerStart \/ InformerSync \/ OtherEvent

Next == Pass \/ Events \/ World \/ EditResource \/ Restart

Spec == Init /\ [][Next]_vars

\* The worker keeps stepping and the informers keep delivering.
Fairness ==
    WF_vars(Pass) /\ WF_vars(ResourceSync) /\ WF_vars(CRDSync)
    /\ WF_vars(InformerStart) /\ WF_vars(InformerSync)

FairSpec == Spec /\ Fairness

-----------------------------------------------------------------------------
(* Properties                                                               *)

Infos == [ready : BOOLEAN, gateway : [name : STRING, ns : STRING],
          listeners : SUBSET UNION ListenerSets]

IsList(f) == DOMAIN f \subseteq Extensions /\ \A e \in DOMAIN f : f[e] \in Infos

\* Every variable keeps its type, and an informer runs only for a kind whose
\* Once was consumed.
DiscoveryTypeOK ==
    /\ crd \subseteq Kinds /\ crdSeen \subseteq Kinds
    /\ DOMAIN exts \subseteq Extensions
    /\ \A e \in DOMAIN exts : exts[e] \in Specs
    /\ DOMAIN gws \subseteq Gateways
    /\ \A g \in DOMAIN gws : gws[g] \in ListenerSets
    /\ cr.managed \in BOOLEAN /\ IsList(cr.list)
    /\ seen.managed \in BOOLEAN /\ IsList(seen.list)
    /\ IsList(basis) /\ IsList(found) /\ IsList(published)
    /\ DOMAIN items \subseteq Extensions
    /\ \A e \in DOMAIN items : items[e] \in Specs
    /\ queued \in BOOLEAN
    /\ pc \in {"idle", "list", "resolve", "watch", "patch"}
    /\ informer \in [Kinds -> {"none", "starting", "on"}]
    /\ once \subseteq Kinds
    /\ \A k \in Kinds : informer[k] # "none" => k \in once
    /\ dirty \subseteq Kinds \union {"crd"}
    /\ faults \in 0..MaxFaults /\ edits \in 0..MaxEdits
    /\ lacking \subseteq Extensions

\* A published extension is dropped only by a pass during which it really was
\* missing, malformed or not served: no failing call, and no restart, loses
\* a gateway that is there (reconciler: "preserving prior status").
NeverDropped ==
    [][pc = "patch" /\ pc' = "idle" =>
          DOMAIN cr.list \ DOMAIN cr'.list \subseteq lacking]_vars

\* What the status should show of the cluster as it is.
Expected ==
    IF "extension" \in crd THEN [e \in WellFormed(exts) |-> Info(e, exts[e])]
                           ELSE Empty

\* Other events, at least the informers' periodic resync, never stop.
Resync == WF_vars(OtherEvent)

\* Discovery can succeed: a single Gateway that does not unmarshal stops it
\* for all extensions.
AllDecode == \A e \in WellFormed(exts) : Decodes(TargetOf(e, exts[e]))

\* While the resource is Managed, the status ends up showing what is there,
\* whatever failed on the way: after a failed read or Watch, or a missed
\* deletion, the resync brings the pass that sets it right.
GatewaysReported ==
    Resync /\ <>[](cr.managed /\ AllDecode) => <>[](cr.list = Expected)

\* Without the resync, and without faults, the watches suffice for what is
\* added or changed: an extension that is there to stay, and whose Gateway is,
\* ends up shown as it is.  (Deletions can be missed: see InformerStart.)
WatchesSuffice ==
    \A e \in Extensions :
        /\ [](faults = 0)
        /\ <>[](/\ cr.managed /\ AllDecode /\ e \in WellFormed(exts)
                /\ TargetOf(e, exts[e]) \in DOMAIN gws)
        => <>[](/\ e \in DOMAIN cr.list
                /\ e \in WellFormed(exts) /\ cr.list[e] = Info(e, exts[e]))

=============================================================================
