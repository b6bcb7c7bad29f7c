----------------------- MODULE GatewayDiscoveryProofs -----------------------
(***************************************************************************)
(* Gateway discovery for any extensions, Gateways and listeners and any    *)
(* number of failures: its types, and that a gateway that is there is      *)
(* never lost from the status.                                             *)
(***************************************************************************)
EXTENDS GatewayDiscovery, TLAPS

\* Both copies of the resource are records of two fields.
CopiesShaped ==
    /\ cr = [managed |-> cr.managed, list |-> cr.list]
    /\ seen = [managed |-> seen.managed, list |-> seen.list]

ClusterTyped ==
    /\ crd \subseteq Kinds /\ crdSeen \subseteq Kinds
    /\ DOMAIN exts \subseteq Extensions
    /\ \A e \in DOMAIN exts : exts[e] \in Specs
    /\ DOMAIN gws \subseteq Gateways
    /\ \A g \in DOMAIN gws : gws[g] \in ListenerSets

CopiesTyped ==
    /\ cr.managed \in BOOLEAN /\ IsList(cr.list)
    /\ seen.managed \in BOOLEAN /\ IsList(seen.list)

PassTyped ==
    /\ IsList(basis) /\ IsList(found) /\ IsList(published)
    /\ DOMAIN items \subseteq Extensions
    /\ \A e \in DOMAIN items : items[e] \in Specs
    /\ pc \in {"idle", "list", "resolve", "watch", "patch"}

WatchTyped ==
    /\ informer \in [Kinds -> {"none", "starting", "on"}]
    /\ once \subseteq Kinds
    /\ \A k \in Kinds : informer[k] # "none" => k \in once
    /\ dirty \subseteq Kinds \union {"crd"}

CountsTyped ==
    /\ queued \in BOOLEAN
    /\ faults \in 0..MaxFaults /\ edits \in 0..MaxEdits
    /\ lacking \subseteq Extensions

\* DiscoveryTypeOK is its parts.
LEMMA TypeParts ==
    DiscoveryTypeOK <=> /\ ClusterTyped /\ CopiesTyped /\ PassTyped
                        /\ WatchTyped /\ CountsTyped
BY Zenon DEF DiscoveryTypeOK, ClusterTyped, CopiesTyped, PassTyped, WatchTyped,
             CountsTyped

-----------------------------------------------------------------------------
(* The operators                                                            *)

\* The empty list has no entries.
LEMMA EmptyFacts == DOMAIN Empty = {} /\ IsList(Empty)
BY DEF Empty, IsList

\* A put adds or replaces one entry and leaves the others alone.
LEMMA PutFacts ==
    ASSUME NEW f, NEW k, NEW v
    PROVE  /\ DOMAIN Put(f, k, v) = DOMAIN f \union {k}
           /\ \A x \in DOMAIN f \union {k} :
                 Put(f, k, v)[x] = IF x = k THEN v ELSE f[x]
BY DEF Put

\* A drop removes one entry and leaves the others alone.
LEMMA DropFacts ==
    ASSUME NEW f, NEW k
    PROVE  /\ DOMAIN Drop(f, k) = DOMAIN f \ {k}
           /\ \A x \in DOMAIN f \ {k} : Drop(f, k)[x] = f[x]
BY DEF Drop

\* What is published of an extension has its type, whether or not its Gateway
\* is there.
LEMMA InfoTyped ==
    ASSUME ClusterTyped, NEW e \in Extensions, NEW spec \in Specs
    PROVE  Info(e, spec) \in Infos
<1>1. /\ e.ns \in STRING /\ spec.target \in STRING /\ spec.ns \in STRING
      /\ spec.ready \in BOOLEAN
  BY DiscoveryAssumption
<1>2. TargetOf(e, spec) \in [name : STRING, ns : STRING]
  BY <1>1 DEF TargetOf
<1>3. \A g : Listeners(g) \in SUBSET UNION ListenerSets
  <2>1. ASSUME NEW g, NEW l \in Listeners(g) PROVE l \in UNION ListenerSets
    <3>1. g \in DOMAIN gws /\ l \in gws[g]
      BY <2>1 DEF Listeners
    <3>2. gws[g] \in ListenerSets
      BY <3>1 DEF ClusterTyped
    <3> QED BY <3>1, <3>2
  <2> QED BY <2>1
<1> QED BY <1>1, <1>2, <1>3 DEF Info, Infos

\* A list stays one when an extension is put into it.
LEMMA PutTyped ==
    ASSUME NEW f, IsList(f), NEW e \in Extensions, NEW v \in Infos
    PROVE  IsList(Put(f, e, v))
<1> DEFINE p == Put(f, e, v)
<1>1. /\ DOMAIN p = DOMAIN f \union {e}
      /\ \A x \in DOMAIN f \union {e} : p[x] = IF x = e THEN v ELSE f[x]
  BY DEF Put
<1> HIDE DEF p
<1>2. IsList(p)
  BY <1>1 DEF IsList
<1> QED BY <1>2 DEF p

-----------------------------------------------------------------------------
(* Type correctness                                                         *)

\* A counter below its bound may be stepped.
LEMMA Counting ==
    ASSUME NEW n, NEW m \in Nat, n \in 0..m
    PROVE  n < m => n + 1 \in 0..m
OBVIOUS

\* The steps' effect on the counters.
LEMMA CountsNext ==
    ASSUME CountsTyped, [Next]_vars
    PROVE  CountsTyped'
<1>0. MaxFaults \in Nat /\ MaxEdits \in Nat
  BY DiscoveryAssumption
<1>1. faults' \in 0..MaxFaults
  <2>1. Fault \/ faults' = faults
    BY DEF Next, Pass, Events, Begin, List, Resolve, ResolveFails, Resolved,
           RegisterWatches, Patch, ResourceSync, CRDSync, InformerStart,
           InformerSync, OtherEvent, World, EditResource, Restart, NoFault, vars
  <2> QED BY <1>0, <2>1, Counting DEF Fault, CountsTyped
<1>2. edits' \in 0..MaxEdits
  <2>1. Edit \/ edits' = edits
    BY DEF Next, Pass, Events, Begin, List, Resolve, Resolved, RegisterWatches,
           Patch, ResourceSync, CRDSync, InformerStart, InformerSync,
           OtherEvent, World, EditResource, Restart, vars
  <2> QED BY <1>0, <2>1, Counting DEF Edit, CountsTyped
<1>3. lacking' \subseteq Extensions
  <2>1. \/ lacking' = lacking \/ lacking' = Missing \/ lacking' = {}
        \/ lacking' = lacking \union (Extensions \ WellFormed(exts'))
        \/ \E S \in {{}, Extensions} : lacking' = lacking \union S
    BY DEF Next, Pass, Events, Begin, List, Resolve, Resolved, RegisterWatches,
           Patch, ResourceSync, CRDSync, InformerStart, InformerSync,
           OtherEvent, World, EditResource, Restart, vars
  <2>2. Missing \subseteq Extensions
    BY DEF Missing
  <2> QED BY <2>1, <2>2 DEF CountsTyped
<1>4. queued' \in BOOLEAN
  <2>1. CASE InformerStart
    BY <2>1 DEF InformerStart
  <2>2. CASE ~InformerStart
    BY <2>2
    DEF Next, Pass, Events, Begin, List, Resolve, Resolved, RegisterWatches,
        Patch, ResourceSync, CRDSync, InformerSync, OtherEvent, World,
        EditResource, Restart, vars, CountsTyped
  <2> QED BY <2>1, <2>2
<1> QED BY <1>1, <1>2, <1>3, <1>4 DEF CountsTyped

\* The cluster: only the world's edits and the CRD informer change it.
LEMMA ClusterNext ==
    ASSUME ClusterTyped, [Next]_vars
    PROVE  ClusterTyped'
<1>1. CASE World
  <2>1. crdSeen' = crdSeen
    BY <1>1 DEF World
  <2>2. /\ crd' \subseteq Kinds
        /\ \/ exts' = exts \/ exts' = Empty
           \/ \E e \in Extensions, s \in Specs : exts' = Put(exts, e, s)
           \/ \E e \in DOMAIN exts : exts' = Drop(exts, e)
        /\ \/ gws' = gws \/ gws' = Empty
           \/ \E g \in Gateways, ls \in ListenerSets : gws' = Put(gws, g, ls)
           \/ \E g \in DOMAIN gws : gws' = Drop(gws, g)
    BY <1>1 DEF World, ClusterTyped
  <2>3. DOMAIN exts' \subseteq Extensions /\ \A e \in DOMAIN exts' : exts'[e] \in Specs
    <3>1. ASSUME NEW e \in Extensions, NEW s \in Specs, exts' = Put(exts, e, s)
          PROVE  /\ DOMAIN exts' \subseteq Extensions
                 /\ \A x \in DOMAIN exts' : exts'[x] \in Specs
      <4>1. /\ DOMAIN exts' = DOMAIN exts \union {e}
            /\ \A x \in DOMAIN exts \union {e} :
                  exts'[x] = IF x = e THEN s ELSE exts[x]
        BY <3>1, PutFacts
      <4> QED BY <4>1 DEF ClusterTyped
    <3>2. ASSUME NEW e \in DOMAIN exts, exts' = Drop(exts, e)
          PROVE  /\ DOMAIN exts' \subseteq Extensions
                 /\ \A x \in DOMAIN exts' : exts'[x] \in Specs
      <4>1. /\ DOMAIN exts' = DOMAIN exts \ {e}
            /\ \A x \in DOMAIN exts \ {e} : exts'[x] = exts[x]
        BY <3>2, DropFacts
      <4> QED BY <4>1 DEF ClusterTyped
    <3> QED BY <2>2, <3>1, <3>2, EmptyFacts DEF ClusterTyped
  <2>4. /\ DOMAIN gws' \subseteq Gateways
        /\ \A g \in DOMAIN gws' : gws'[g] \in ListenerSets
    <3>1. ASSUME NEW g \in Gateways, NEW ls \in ListenerSets, gws' = Put(gws, g, ls)
          PROVE  /\ DOMAIN gws' \subseteq Gateways
                 /\ \A x \in DOMAIN gws' : gws'[x] \in ListenerSets
      <4>1. /\ DOMAIN gws' = DOMAIN gws \union {g}
            /\ \A x \in DOMAIN gws \union {g} :
                  gws'[x] = IF x = g THEN ls ELSE gws[x]
        BY <3>1, PutFacts
      <4> QED BY <4>1 DEF ClusterTyped
    <3>2. ASSUME NEW g \in DOMAIN gws, gws' = Drop(gws, g)
          PROVE  /\ DOMAIN gws' \subseteq Gateways
                 /\ \A x \in DOMAIN gws' : gws'[x] \in ListenerSets
      <4>1. /\ DOMAIN gws' = DOMAIN gws \ {g}
            /\ \A x \in DOMAIN gws \ {g} : gws'[x] = gws[x]
        BY <3>2, DropFacts
      <4> QED BY <4>1 DEF ClusterTyped
    <3> QED BY <2>2, <3>1, <3>2, EmptyFacts DEF ClusterTyped
  <2> QED BY <2>1, <2>2, <2>3, <2>4 DEF ClusterTyped
<1>2. CASE ~World
  <2>1. UNCHANGED worldVars /\ crdSeen' \in {crdSeen, crd}
    BY <1>2
    DEF Next, Pass, Events, Begin, List, Resolve, Resolved, RegisterWatches,
        Patch, ResourceSync, CRDSync, InformerStart, InformerSync, OtherEvent,
        EditResource, Restart, vars
  <2> QED BY <2>1 DEF ClusterTyped, worldVars
<1> QED BY <1>1, <1>2

\* The pass: it builds lists out of what it reads.
LEMMA PassNext ==
    ASSUME ClusterTyped, CopiesTyped, PassTyped, [Next]_vars
    PROVE  PassTyped'
<1>1. CASE Begin
  <2>1. /\ basis' = seen.list /\ UNCHANGED <<items, found>>
        /\ published' \in {published, seen.list, Empty}
        /\ pc' \in {"patch", "watch", "list"}
    BY <1>1 DEF Begin, NoCRD, Discovered
  <2> QED BY <2>1, EmptyFacts DEF PassTyped, CopiesTyped
<1>2. CASE List
  <2>1. CASE /\ items' = [e \in WellFormed(exts) |-> exts[e]]
             /\ found' = Empty /\ pc' = "resolve" /\ UNCHANGED <<basis, published>>
    <3>1. WellFormed(exts) \subseteq DOMAIN exts
      BY DEF WellFormed
    <3> QED BY <2>1, <3>1, EmptyFacts DEF PassTyped, ClusterTyped
  <2>2. CASE UNCHANGED <<items, found, basis>> /\ published' = basis /\ pc' = "watch"
    BY <2>2 DEF PassTyped
  <2> QED BY <1>2, <2>1, <2>2 DEF List, Preserved, Discovered
<1>3. CASE Resolve
  <2>1. PICK e \in DOMAIN items :
           \/ /\ found' = Put(found, e, Info(e, items[e]))
              /\ items' = Drop(items, e) /\ UNCHANGED <<pc, published, basis>>
           \/ /\ items' = Empty /\ found' = Empty /\ basis' = basis
              /\ published' = basis /\ pc' = "watch"
    BY <1>3 DEF Resolve, ResolveFails, Preserved, Discovered
  <2>2. Info(e, items[e]) \in Infos /\ e \in Extensions
    BY InfoTyped DEF PassTyped
  <2> DEFINE v == Info(e, items[e])
  <2> HIDE DEF v
  <2>3. IsList(Put(found, e, v))
    BY <2>2, PutTyped DEF PassTyped, v
  <2>4. /\ DOMAIN Drop(items, e) \subseteq Extensions
        /\ \A x \in DOMAIN Drop(items, e) : Drop(items, e)[x] \in Specs
    <3> DEFINE d == Drop(items, e)
    <3>1. /\ DOMAIN d = DOMAIN items \ {e}
          /\ \A x \in DOMAIN items \ {e} : d[x] = items[x]
      BY DropFacts
    <3> HIDE DEF d
    <3>2. DOMAIN d \subseteq Extensions /\ \A x \in DOMAIN d : d[x] \in Specs
      BY <3>1 DEF PassTyped
    <3> QED BY <3>2 DEF d
  <2> QED BY <2>1, <2>3, <2>4, EmptyFacts DEF PassTyped, v
<1>4. CASE Resolved
  BY <1>4, EmptyFacts DEF Resolved, Discovered, PassTyped
<1>5. CASE RegisterWatches
  BY <1>5 DEF RegisterWatches, PassTyped
<1>6. CASE Patch
  BY <1>6, EmptyFacts DEF Patch, PassTyped
<1>7. CASE Restart
  BY <1>7, EmptyFacts DEF Restart, PassTyped
<1>8. CASE UNCHANGED passVars
  BY <1>8 DEF passVars, PassTyped
<1> QED
  BY <1>1, <1>2, <1>3, <1>4, <1>5, <1>6, <1>7, <1>8
  DEF Next, Pass, Events, ResourceSync, CRDSync, InformerStart, InformerSync,
      OtherEvent, World, EditResource, vars

\* The copies of the resource: only a patch and an edit change the server's.
LEMMA CopiesNext ==
    ASSUME CopiesShaped, CopiesTyped, PassTyped, [Next]_vars
    PROVE  CopiesShaped' /\ CopiesTyped'
<1>1. CASE Patch
  <2>1. seen' = seen
    BY <1>1 DEF Patch
  <2> DEFINE l == IF published # basis THEN published ELSE cr.list
  <2>2. cr' = cr \/ cr' = [cr EXCEPT !.list = l]
    BY <1>1 DEF Patch
  <2>3. IsList(l)
    BY DEF PassTyped, CopiesTyped
  <2> HIDE DEF l
  <2>4. cr' = cr \/ cr' = [managed |-> cr.managed, list |-> l]
    BY <2>2 DEF CopiesShaped
  <2> QED BY <2>1, <2>3, <2>4 DEF CopiesShaped, CopiesTyped
<1>2. CASE EditResource
  <2>1. seen' = seen /\ cr' = [cr EXCEPT !.managed = ~cr.managed]
    BY <1>2 DEF EditResource
  <2>2. cr' = [managed |-> ~cr.managed, list |-> cr.list]
    BY <2>1 DEF CopiesShaped
  <2> QED BY <2>1, <2>2 DEF CopiesShaped, CopiesTyped
<1>3. CASE ~Patch /\ ~EditResource
  <2>1. cr' = cr /\ seen' \in {seen, cr}
    BY <1>3
    DEF Next, Pass, Events, Begin, List, Resolve, Resolved, RegisterWatches,
        ResourceSync, CRDSync, InformerStart, InformerSync, OtherEvent, World,
        Restart, vars
  <2> QED BY <2>1 DEF CopiesShaped, CopiesTyped
<1> QED BY <1>1, <1>2, <1>3

\* The watches: an informer is started by the pass that consumes its Once.
LEMMA WatchNext ==
    ASSUME ClusterTyped, WatchTyped, [Next]_vars
    PROVE  WatchTyped'
<1>1. CASE RegisterWatches
  <2>1. PICK tried \in SUBSET Registrable :
           \E done \in SUBSET tried :
              once' = once \union tried /\ Started(done) /\ dirty' = dirty
    BY <1>1 DEF RegisterWatches
  <2>2. Registrable \subseteq Kinds
    BY DEF Registrable, ClusterTyped
  <2> QED BY <2>1, <2>2 DEF WatchTyped, Started
<1>2. CASE InformerStart
  BY <1>2 DEF InformerStart, WatchTyped, ClusterTyped
<1>3. CASE World
  <2>1. /\ UNCHANGED <<once, informer>>
        /\ dirty' \subseteq dirty \union {"crd"} \union Kinds
    BY <1>3 DEF World
  <2> QED BY <2>1 DEF WatchTyped
<1>4. CASE Restart
  BY <1>4 DEF Restart, WatchTyped, NoInformers
<1>5. CASE CRDSync \/ InformerSync
  BY <1>5 DEF CRDSync, InformerSync, WatchTyped
<1>6. CASE UNCHANGED watchVars
  BY <1>6 DEF watchVars, WatchTyped
<1> QED
  BY <1>1, <1>2, <1>3, <1>4, <1>5, <1>6
  DEF Next, Pass, Events, Begin, List, Resolve, Resolved, Patch, ResourceSync,
      OtherEvent, EditResource, vars

\* The types, inductive with the shape of the copies.
LEMMA DiscoveryInductive ==
    /\ Init => CopiesShaped /\ DiscoveryTypeOK
    /\ CopiesShaped /\ DiscoveryTypeOK /\ [Next]_vars
          => CopiesShaped' /\ DiscoveryTypeOK'
<1>1. ASSUME Init PROVE CopiesShaped /\ DiscoveryTypeOK
  <2>1. MaxFaults \in Nat /\ MaxEdits \in Nat
    BY DiscoveryAssumption
  <2>2. CopiesShaped /\ CopiesTyped
    BY <1>1, EmptyFacts DEF Init, CopiesShaped, CopiesTyped
  <2>3. CountsTyped
    BY <1>1, <2>1 DEF Init, CountsTyped
  <2>4. ClusterTyped
    BY <1>1, EmptyFacts DEF Init, ClusterTyped
  <2>5. PassTyped
    BY <1>1, EmptyFacts DEF Init, PassTyped
  <2>6. WatchTyped
    BY <1>1 DEF Init, WatchTyped, NoInformers
  <2> QED BY <2>2, <2>3, <2>4, <2>5, <2>6, TypeParts
<1>2. ASSUME CopiesShaped, DiscoveryTypeOK, [Next]_vars
      PROVE  CopiesShaped' /\ DiscoveryTypeOK'
  <2>1. /\ ClusterTyped' /\ CopiesTyped' /\ PassTyped' /\ WatchTyped'
        /\ CountsTyped' /\ CopiesShaped'
    BY <1>2, TypeParts, ClusterNext, CopiesNext, PassNext, WatchNext, CountsNext
  <2> QED BY <2>1
    DEF DiscoveryTypeOK, ClusterTyped, CopiesTyped, PassTyped, WatchTyped,
        CountsTyped
<1> QED BY <1>1, <1>2

\* Type correctness: every list that is read, built, published or shown is one
\* of extensions, and an informer runs only for a kind whose Once is consumed.
THEOREM DiscoveryTypeCorrect == Spec => []DiscoveryTypeOK
BY DiscoveryInductive, PTL DEF Spec


-----------------------------------------------------------------------------
(* Nothing is dropped                                                       *)

\* Whatever step the pass is at, an extension that its list will not show is
\* one it may rightly miss: before the LIST because the server does not have
\* it, during the loop because it is neither to be resolved nor resolved, and
\* after it because the list lacks it, unless the list is the one it read.
DropInv ==
    /\ pc = "list" => Extensions \ WellFormed(exts) \subseteq lacking
    /\ pc = "resolve" =>
          Extensions \ (DOMAIN items \union DOMAIN found) \subseteq lacking
    /\ pc \in {"watch", "patch"} =>
          published = basis \/ Extensions \ DOMAIN published \subseteq lacking

\* Every step preserves it: the edits of the cluster and of the CRDs that could
\* break it are counted in.
LEMMA DropNext ==
    ASSUME DropInv, [Next]_vars
    PROVE  DropInv'
<1>1. CASE Begin
  <2>1. basis' = seen.list /\ lacking' = Missing /\ exts' = exts
    BY <1>1 DEF Begin, worldVars
  <2>2. CASE pc' \in {"patch", "watch"} /\ published' = seen.list
    BY <2>1, <2>2 DEF DropInv
  <2>3. CASE "extension" \notin crdSeen /\ NoCRD
    <3>1. lacking' = Extensions /\ pc' = "watch"
      BY <2>1, <2>3 DEF Missing, NoCRD, Discovered
    <3> QED BY <3>1 DEF DropInv
  <2>4. CASE "extension" \in crdSeen /\ pc' = "list"
    <3>1. lacking' = Extensions \ WellFormed(exts)
      BY <2>1, <2>4 DEF Missing
    <3> QED BY <2>1, <2>4, <3>1 DEF DropInv, WellFormed
  <2> QED BY <1>1, <2>2, <2>3, <2>4 DEF Begin, Discovered
<1>2. CASE List
  <2>1. pc = "list" /\ UNCHANGED <<basis, lacking>>
    BY <1>2 DEF List
  <2>2. CASE pc' = "resolve" /\ items' = [e \in WellFormed(exts) |-> exts[e]]
    <3>1. DOMAIN items' = WellFormed(exts)
      BY <2>2
    <3> QED BY <2>1, <2>2, <3>1 DEF DropInv
  <2>3. CASE pc' = "watch" /\ published' = basis
    BY <2>1, <2>3 DEF DropInv
  <2> QED BY <1>2, <2>2, <2>3 DEF List, Preserved, Discovered
<1>3. CASE Resolve
  <2>1. pc = "resolve" /\ UNCHANGED <<basis, lacking>>
    BY <1>3 DEF Resolve
  <2>2. PICK e \in DOMAIN items :
           \/ /\ found' = Put(found, e, Info(e, items[e]))
              /\ items' = Drop(items, e) /\ pc' = pc
           \/ published' = basis /\ pc' = "watch"
    BY <1>3 DEF Resolve, ResolveFails, Preserved, Discovered
  <2>3. CASE published' = basis /\ pc' = "watch"
    BY <2>1, <2>3 DEF DropInv
  <2>4. CASE /\ found' = Put(found, e, Info(e, items[e]))
             /\ items' = Drop(items, e) /\ pc' = pc
    <3>1. DOMAIN found' = DOMAIN found \union {e}
      BY <2>4, PutFacts
    <3>2. DOMAIN items' = DOMAIN items \ {e}
      BY <2>4, DropFacts
    <3> QED BY <2>1, <2>4, <3>1, <3>2 DEF DropInv
  <2> QED BY <2>2, <2>3, <2>4
<1>4. CASE Resolved
  <2>1. /\ pc = "resolve" /\ pc' = "watch" /\ DOMAIN items = {}
        /\ published' = found /\ UNCHANGED lacking
    BY <1>4, EmptyFacts DEF Resolved, Discovered
  <2> QED BY <2>1 DEF DropInv
<1>5. CASE RegisterWatches
  BY <1>5 DEF RegisterWatches, DropInv
<1>6. CASE Patch \/ Restart
  BY <1>6 DEF Patch, Restart, DropInv
<1>7. CASE World
  <2>1. /\ UNCHANGED <<pc, basis, items, found, published>>
        /\ lacking' = lacking \union (Extensions \ WellFormed(exts'))
    BY <1>7 DEF World, passVars
  <2>2. WellFormed(exts)' = WellFormed(exts')
    BY DEF WellFormed
  <2> QED BY <2>1, <2>2 DEF DropInv
<1>8. CASE CRDSync
  <2>1. /\ UNCHANGED <<pc, basis, items, found, published, exts>>
        /\ lacking \subseteq lacking'
    BY <1>8 DEF CRDSync, passVars, worldVars
  <2>2. WellFormed(exts)' = WellFormed(exts)
    BY <2>1 DEF WellFormed
  <2> QED BY <2>1, <2>2 DEF DropInv
<1>9. CASE UNCHANGED <<pc, basis, items, found, published, exts, lacking>>
  <2>1. WellFormed(exts)' = WellFormed(exts)
    BY <1>9 DEF WellFormed
  <2> QED BY <1>9, <2>1 DEF DropInv
<1> QED
  BY <1>1, <1>2, <1>3, <1>4, <1>5, <1>6, <1>7, <1>8, <1>9
  DEF Next, Pass, Events, ResourceSync, InformerStart, InformerSync, OtherEvent,
      EditResource, vars, passVars, worldVars

\* No failing call, no restart and no change during the pass makes the status
\* lose a gateway that was there throughout (discoverGatewayExtensions returns
\* what was published before when any of its reads fails).
THEOREM GatewaysNeverDropped == Spec => NeverDropped
<1>1. Init => DropInv
  BY DEF Init, DropInv
<1>2. CopiesShaped /\ DiscoveryTypeOK /\ DropInv /\ [Next]_vars =>
         [pc = "patch" /\ pc' = "idle" =>
             DOMAIN cr.list \ DOMAIN cr'.list \subseteq lacking]_vars
  <2> SUFFICES ASSUME CopiesShaped, DiscoveryTypeOK, DropInv, [Next]_vars,
                      pc = "patch", pc' = "idle"
               PROVE  DOMAIN cr.list \ DOMAIN cr'.list \subseteq lacking
    OBVIOUS
  <2>1. DOMAIN cr.list \subseteq Extensions
    BY DEF DiscoveryTypeOK, IsList
  <2>2. CASE Patch
    <3> DEFINE l == IF published # basis THEN published ELSE cr.list
    <3>1. cr' = cr \/ cr' = [cr EXCEPT !.list = l]
      BY <2>2 DEF Patch
    <3>2. DOMAIN cr.list \ DOMAIN l \subseteq lacking
      BY <2>1 DEF DropInv
    <3> HIDE DEF l
    <3>3. cr' = cr \/ cr'.list = l
      BY <3>1 DEF CopiesShaped
    <3> QED BY <3>2, <3>3
  <2>3. CASE ~Patch
    <3>1. cr' = cr
      BY <2>3
      DEF Next, Pass, Events, Begin, List, Resolve, Resolved, RegisterWatches,
          ResourceSync, CRDSync, InformerStart, InformerSync, OtherEvent, World,
          EditResource, Restart, vars, passVars
    <3> QED BY <3>1
  <2> QED BY <2>2, <2>3
<1> QED BY <1>1, <1>2, DiscoveryInductive, DropNext, PTL DEF Spec, NeverDropped

=============================================================================
