--------------------------- MODULE TLSPolicyProofs --------------------------
(***************************************************************************)
(* For any policies, environments and number of retries: the metrics       *)
(* listener fails closed, the rendered webhooks are trusted wherever the   *)
(* operand is placed, and the operand runs with the settings of one        *)
(* resolved policy.                                                        *)
(***************************************************************************)
EXTENDS PolicyRollout, TLAPS

\* During the bootstrap every answer so far was a transient failure, and what
\* it resolved to is the fallback.
Booting ==
    /\ attempts \in Nat /\ attempts < Steps
    /\ IF attempts = 0 THEN answers = {} /\ resolved = None
       ELSE /\ answers = {"transient"}
            /\ resolved # None
            /\ resolved.UsedTransientFallback

BootInv ==
    /\ proc \in {"down", "boot", "wired", "up"}
    /\ proc = "boot" => Booting
    /\ FailClosed

\* Only a transient failure resolves to a transient fallback; a denied read
\* resolves to nothing.
LEMMA TransientOnly ==
    ASSUME NEW p, NEW answer \in Answers, ResolveTLSConfig(answer, p) # None
    PROVE  /\ answer # "denied"
           /\ ResolveTLSConfig(answer, p).UsedTransientFallback
                 <=> answer = "transient"
<1>1. CASE answer = "ok"
  BY <1>1 DEF ResolveTLSConfig, Load
<1>2. CASE answer = "absent"
  BY <1>2 DEF ResolveTLSConfig, Load
<1>3. CASE answer = "transient"
  BY <1>3 DEF ResolveTLSConfig, Load
<1>4. CASE answer = "denied"
  BY <1>4 DEF ResolveTLSConfig, Load
<1> QED
  BY <1>1, <1>2, <1>3, <1>4 DEF Answers

\* A process that ends satisfies the invariant.
LEMMA ExitInv == Exit => BootInv'
BY DEF Exit, BootInv, FailClosed

\* Every step preserves the invariant.
LEMMA BootNext == BootInv /\ [Next]_vars => BootInv'
<1> SUFFICES ASSUME BootInv, [Next]_vars PROVE BootInv'
  OBVIOUS
<1> USE TLSAssumption DEF TLSAssumption
<1>1. CASE Start
  BY <1>1 DEF Start, BootInv, Booting, FailClosed
<1>2. CASE BootAttempt
  <2>0. proc = "boot" /\ Booting /\ UNCHANGED expired
    BY <1>2 DEF BootAttempt, BootInv
  <2>1. PICK answer \in Answers :
          /\ answers' = answers \union {answer}
          /\ attempts' = attempts + 1
          /\ resolved' = ResolveTLSConfig(answer, policy)
          /\ IF resolved' = None THEN Exit
             ELSE IF SettledBy(resolved', attempts + 1) THEN Serve(resolved')
             ELSE UNCHANGED <<proc, serveVars, passVars>>
    BY <1>2 DEF BootAttempt
  <2>2. CASE resolved' = None
    BY <2>1, <2>2, ExitInv
  <2>3. CASE resolved' # None
    <3>1. /\ answer # "denied"
          /\ resolved'.UsedTransientFallback <=> answer = "transient"
      BY <2>1, <2>3, TransientOnly
    <3>2. "denied" \notin answers'
      BY <2>0, <2>1, <3>1 DEF Booting
    <3>3. resolved'.UsedTransientFallback => answers' = {"transient"}
      BY <2>0, <2>1, <3>1 DEF Booting
    <3>4. CASE SettledBy(resolved', attempts + 1)
      <4>1. Serve(resolved')
        BY <2>1, <2>3, <3>4
      <4>2. CASE Exit
        BY <4>2, ExitInv
      <4>3. CASE ~Exit
        <5>1. proc' = "wired"
          BY <4>1, <4>3 DEF Serve
        <5>2. resolved'.UsedTransientFallback => attempts' = Steps
          BY <2>1, <3>4 DEF SettledBy
        <5> QED
          BY <5>1, <5>2, <3>2, <3>3 DEF BootInv, FailClosed
      <4> QED
        BY <4>2, <4>3
    <3>5. CASE ~SettledBy(resolved', attempts + 1)
      <4>1. proc' = "boot"
        BY <2>0, <2>1, <2>3, <3>5
      <4>2. resolved'.UsedTransientFallback /\ attempts + 1 # Steps
        BY <3>5 DEF SettledBy
      <4>3. attempts' \in Nat /\ attempts' < Steps /\ attempts' # 0
        BY <2>0, <2>1, <4>2 DEF Booting
      <4> QED
        BY <2>3, <3>3, <4>1, <4>2, <4>3 DEF BootInv, Booting, FailClosed
    <3> QED
      BY <3>4, <3>5
  <2> QED
    BY <2>2, <2>3
<1>3. CASE BootExpired
  <2>0. /\ proc = "boot" /\ Booting /\ expired' = TRUE
        /\ UNCHANGED <<attempts, resolved, answers>>
        /\ IF resolved = None THEN Exit ELSE Serve(resolved)
    BY <1>3 DEF BootExpired, BootInv
  <2>1. CASE Exit
    BY <2>1, ExitInv
  <2>2. CASE ~Exit
    <3>1. proc' = "wired" /\ resolved # None
      BY <2>0, <2>2 DEF Serve
    <3>2. answers = {"transient"}
      BY <2>0, <3>1 DEF Booting
    <3> QED
      BY <2>0, <3>1, <3>2 DEF BootInv, FailClosed
  <2> QED
    BY <2>1, <2>2
<1>4. CASE Wire
  BY <1>4 DEF Wire, BootInv, FailClosed
<1>5. CASE WatcherFires
  BY <1>5, ExitInv DEF WatcherFires
<1>6. CASE Crash
  BY <1>6, ExitInv DEF Crash
<1>7. CASE UNCHANGED bootVars
  BY <1>7 DEF bootVars, BootInv, Booting, FailClosed
<1>8. CASE PassResolve \/ PassApply \/ CacheSync \/ EditPolicy
  BY <1>7, <1>8 DEF PassResolve, PassApply, CacheSync, EditPolicy
<1>9. CASE UNCHANGED vars
  BY <1>7, <1>9 DEF vars
<1> QED
  BY <1>1, <1>2, <1>3, <1>4, <1>5, <1>6, <1>8, <1>9 DEF Next, Process

\* The bootstrap of the metrics listener fails closed for every policy, every
\* number of retries and every deadline: a listener never serves after a denied
\* read, and serves the default for a transient failure only when every retry,
\* or the whole deadline, has gone into it (resolveMetricsTLSConfig).
THEOREM ListenerFailsClosed == Spec => []FailClosed
<1>1. Init => BootInv
  BY DEF Init, BootInv, FailClosed
<1>2. BootInv => FailClosed
  BY DEF BootInv
<1> QED
  BY <1>1, <1>2, BootNext, PTL DEF Spec


-----------------------------------------------------------------------------
(* Type correctness                                                         *)

\* What a read resolved to has a profile that a listener can serve.
ResolvedInv == resolved # None => resolved.EffectiveSpec # None

\* The parts of the type invariant.
WorldTyped ==
    /\ served \in BOOLEAN /\ policy \in Policies /\ cached \in Policies
    /\ settings \in Settings
    /\ edits \in 0..MaxEdits /\ faults \in 0..MaxFaults

StartTyped ==
    /\ attempts \in 0..Steps /\ expired \in BOOLEAN
    /\ answers \subseteq Answers

ProcessTyped ==
    /\ proc \in {"down", "boot", "wired", "up"}
    /\ apiWatch \in BOOLEAN /\ due \in BOOLEAN
    /\ listener # None <=> proc \in {"wired", "up"}
    /\ pass # None => proc = "up"

\* PolicyTypeOK is its parts.
LEMMA PolicyParts == PolicyTypeOK <=> WorldTyped /\ StartTyped /\ ProcessTyped
BY Zenon DEF PolicyTypeOK, WorldTyped, StartTyped, ProcessTyped

\* A profile is never the mark of its absence.
LEMMA SpecNotNone ==
    ASSUME NEW p \in Policies
    PROVE  p.spec # None /\ intermediateProfileSpec # None
<1>1. "min" \in DOMAIN p.spec /\ "min" \notin DOMAIN None
  BY TLSAssumption DEF None
<1>2. "min" \in DOMAIN intermediateProfileSpec
  BY DEF intermediateProfileSpec
<1> QED BY <1>1, <1>2

\* A read resolves to a profile, or to nothing.
LEMMA ResolvesToSpec ==
    ASSUME NEW p \in Policies, NEW answer \in Answers,
           ResolveTLSConfig(answer, p) # None
    PROVE  ResolveTLSConfig(answer, p).EffectiveSpec # None
<1> DEFINE spec == Effective(Load(answer, p))
<1>1. ResolveTLSConfig(answer, p).EffectiveSpec = spec
  BY DEF ResolveTLSConfig
<1>2. Load(answer, p).spec \in {p.spec, intermediateProfileSpec}
  <2>1. CASE answer = "ok"
    BY <2>1 DEF Load
  <2>2. CASE answer \in {"absent", "transient"}
    BY <2>2 DEF Load
  <2>3. CASE answer = "denied"
    BY <2>3 DEF Load
  <2> QED BY <2>1, <2>2, <2>3 DEF Answers
<1>3. spec \in {p.spec, intermediateProfileSpec}
  BY <1>2 DEF Effective
<1> HIDE DEF spec
<1> QED BY <1>1, <1>3, SpecNotNone

\* The counters and the cluster.
LEMMA WorldTypedNext ==
    ASSUME WorldTyped, [Next]_vars
    PROVE  WorldTyped'
<1>0. MaxEdits \in Nat /\ MaxFaults \in Nat
  BY TLSAssumption
<1>1. faults' \in 0..MaxFaults
  <2>1. Fault \/ faults' = faults
    BY DEF Next, Process, Start, BootAttempt, BootExpired, Wire, WatcherFires,
           Crash, PassResolve, PassApply, CacheSync, EditPolicy, Answer,
           NoFault, vars
  <2> QED BY <1>0, <2>1 DEF Fault, WorldTyped
<1>2. edits' \in 0..MaxEdits
  <2>1. (edits < MaxEdits /\ edits' = edits + 1) \/ edits' = edits
    BY DEF Next, Process, Start, BootAttempt, BootExpired, Wire, WatcherFires,
           Crash, PassResolve, PassApply, CacheSync, EditPolicy, worldVars, vars
  <2> QED BY <1>0, <2>1 DEF WorldTyped
<1>3. /\ served' \in {served, TRUE} /\ settings' = settings
      /\ policy' = policy \/ policy' \in Policies
      /\ cached' = cached \/ cached' = policy
  BY DEF Next, Process, Start, BootAttempt, BootExpired, Wire, WatcherFires,
         Crash, PassResolve, PassApply, CacheSync, EditPolicy, worldVars, vars
<1> QED BY <1>1, <1>2, <1>3 DEF WorldTyped

\* The start: what is counted and read while the process boots.
LEMMA StartTypedNext ==
    ASSUME BootInv, StartTyped, [Next]_vars
    PROVE  StartTyped'
<1>0. Steps \in Nat \ {0}
  BY TLSAssumption
<1>1. CASE BootAttempt
  <2>1. /\ Booting /\ attempts' = attempts + 1 /\ expired' = expired
        /\ \E answer \in Answers : answers' = answers \union {answer}
    BY <1>1 DEF BootAttempt, BootInv
  <2> QED BY <1>0, <2>1 DEF StartTyped, Booting
<1>2. CASE ~BootAttempt
  <2>1. /\ attempts' = attempts \/ attempts' = 0
        /\ expired' = expired \/ expired' \in {TRUE, FALSE}
        /\ answers' = answers \/ answers' = {}
    BY <1>2
    DEF Next, Process, Start, BootExpired, Wire, WatcherFires, Crash,
        PassResolve, PassApply, CacheSync, EditPolicy, bootVars, vars
  <2>2. attempts' \in 0..Steps
    BY <1>0, <2>1 DEF StartTyped
  <2>3. expired' \in BOOLEAN
    BY <2>1, Zenon DEF StartTyped
  <2> QED BY <2>1, <2>2, <2>3 DEF StartTyped
<1> QED BY <1>1, <1>2

\* A process that ends, or that goes on to serve a profile, has its types.
LEMMA ExitTyped == Exit => ProcessTyped'
BY DEF Exit, ProcessTyped

LEMMA ServeTyped ==
    ASSUME NEW tls, Serve(tls), tls.EffectiveSpec # None, ProcessTyped,
           proc = "boot"
    PROVE  ProcessTyped'
<1>1. CASE Exit
  BY <1>1, ExitTyped
<1>2. CASE ~Exit
  BY <1>2 DEF Serve, ProcessTyped, passVars
<1> QED BY <1>1, <1>2

LEMMA ProcessTypedNext ==
    ASSUME WorldTyped, ProcessTyped, ResolvedInv, [Next]_vars
    PROVE  ProcessTyped' /\ ResolvedInv'
<1>1. CASE BootAttempt
  <2>1. PICK answer \in Answers :
          /\ resolved' = ResolveTLSConfig(answer, policy)
          /\ IF resolved' = None THEN Exit
             ELSE IF SettledBy(resolved', attempts + 1) THEN Serve(resolved')
             ELSE UNCHANGED <<proc, serveVars, passVars>>
    BY <1>1 DEF BootAttempt
  <2>2. ResolvedInv'
    BY <2>1, ResolvesToSpec DEF ResolvedInv, WorldTyped
  <2>3. proc = "boot"
    BY <1>1 DEF BootAttempt
  <2>4. CASE Exit
    BY <2>2, <2>4, ExitTyped
  <2>5. CASE resolved' # None /\ Serve(resolved')
    <3>1. resolved'.EffectiveSpec # None
      BY <2>2, <2>5 DEF ResolvedInv
    <3> QED BY <2>2, <2>3, <2>5, <3>1, ServeTyped
  <2>6. CASE UNCHANGED <<proc, serveVars, passVars>>
    BY <2>2, <2>6 DEF ProcessTyped, serveVars, passVars
  <2> QED BY <2>1, <2>4, <2>5, <2>6
<1>2. CASE BootExpired
  <2>1. /\ proc = "boot" /\ resolved' = resolved
        /\ IF resolved = None THEN Exit ELSE Serve(resolved)
    BY <1>2 DEF BootExpired
  <2>2. ResolvedInv'
    BY <2>1 DEF ResolvedInv
  <2> QED BY <2>1, <2>2, ExitTyped, ServeTyped DEF ResolvedInv
<1>3. CASE WatcherFires \/ Crash
  <2>1. Exit /\ resolved' = resolved
    BY <1>3 DEF WatcherFires, Crash
  <2> QED BY <2>1, ExitTyped DEF ResolvedInv
<1>4. CASE Start
  BY <1>4 DEF Start, ProcessTyped, ResolvedInv, serveVars, passVars
<1>5. CASE Wire
  BY <1>5 DEF Wire, ProcessTyped, ResolvedInv, WorldTyped
<1>6. CASE PassResolve \/ PassApply
  <2>1. /\ proc = "up" /\ UNCHANGED <<proc, resolved, listener, apiWatch>>
        /\ due' \in BOOLEAN
    BY <1>6
    DEF PassResolve, PassApply, bootVars, serveVars, ProcessTyped
  <2> QED BY <2>1 DEF ProcessTyped, ResolvedInv
<1>7. CASE CacheSync
  <2>1. UNCHANGED <<proc, resolved, listener, apiWatch, pass>> /\ due' \in BOOLEAN
    BY <1>7 DEF CacheSync, bootVars, serveVars, ProcessTyped
  <2> QED BY <2>1 DEF ProcessTyped, ResolvedInv
<1>8. CASE EditPolicy \/ UNCHANGED vars
  BY <1>8
  DEF EditPolicy, bootVars, serveVars, passVars, vars, ProcessTyped, ResolvedInv
<1> QED
  BY <1>1, <1>2, <1>3, <1>4, <1>5, <1>6, <1>7, <1>8 DEF Next, Process

\* The bootstrap and the types, inductive together.
LEMMA PolicyInductive ==
    /\ Init => BootInv /\ PolicyTypeOK /\ ResolvedInv
    /\ BootInv /\ PolicyTypeOK /\ ResolvedInv /\ [Next]_vars
          => BootInv' /\ PolicyTypeOK' /\ ResolvedInv'
<1>1. ASSUME Init PROVE BootInv /\ PolicyTypeOK /\ ResolvedInv
  <2>1. Steps \in Nat /\ MaxEdits \in Nat /\ MaxFaults \in Nat
    BY TLSAssumption
  <2>2. WorldTyped /\ StartTyped
    <3>1. /\ policy \in Policies /\ cached = policy /\ settings \in Settings
          /\ attempts = 0 /\ answers = {} /\ edits = 0 /\ faults = 0
      BY <1>1 DEF Init
    <3>2. served \in BOOLEAN /\ expired \in BOOLEAN
      BY <1>1, Zenon DEF Init
    <3> QED BY <2>1, <3>1, <3>2 DEF WorldTyped, StartTyped
  <2>3. ProcessTyped /\ BootInv /\ ResolvedInv
    BY <1>1 DEF Init, ProcessTyped, BootInv, FailClosed, ResolvedInv
  <2> QED BY <2>2, <2>3, PolicyParts
<1>2. ASSUME BootInv, PolicyTypeOK, ResolvedInv, [Next]_vars
      PROVE  BootInv' /\ PolicyTypeOK' /\ ResolvedInv'
  <2>1. /\ BootInv' /\ WorldTyped' /\ StartTyped' /\ ProcessTyped'
        /\ ResolvedInv'
    BY <1>2, PolicyParts, BootNext, WorldTypedNext, StartTypedNext,
       ProcessTypedNext
  <2> QED BY <2>1 DEF PolicyTypeOK, WorldTyped, StartTyped, ProcessTyped
<1> QED BY <1>1, <1>2

\* Type correctness: a listener serves exactly while the process is set up,
\* and a start never reads more often than the backoff has steps.
THEOREM PolicyTypeCorrect == Spec => []PolicyTypeOK
BY PolicyInductive, PTL DEF Spec


-----------------------------------------------------------------------------
(* Rendering, for every namespace, image and policy                         *)

\* A resource is a record of these fields.
Shaped(r) ==
    r = [kind |-> r.kind, name |-> r.name, ns |-> r.ns, partOf |-> r.partOf,
         caFrom |-> r.caFrom, service |-> r.service,
         serverName |-> r.serverName, dnsNames |-> r.dnsNames,
         containers |-> r.containers]

\* The two halves of Manifests, and the namespace it renders for.
Target(p) == IF p.OperandNamespace = "" THEN Baked ELSE p.OperandNamespace

Placed(r, ns) ==
    rewriteCertManagerNamespace(InjectNamespace(injectLabels(r), ns), Baked, ns)

Patched(r, p) ==
    injectNetworkPolicyPostureArg(
        injectTLSEnvVars(replaceImage(r, p.OperandImage), p), "restricted")

\* No namespace.
Unset == ""

\* What the webhooks and their clients see of a resource.
SameService(s, r) ==
    /\ s.kind = r.kind /\ s.name = r.name /\ s.ns = r.ns
    /\ s.caFrom = r.caFrom /\ s.service = r.service /\ s.dnsNames = r.dnsNames

\* Other containers leave the rest of a resource alone.
LEMMA WithContainers ==
    ASSUME NEW r, Shaped(r), NEW x
    PROVE  LET s == [r EXCEPT !.containers = x]
           IN  Shaped(s) /\ SameService(s, r)
BY DEF Shaped, SameService

\* Each patch of the manager container is one.
LEMMA PatchShape ==
    ASSUME NEW r, Shaped(r), NEW p, NEW image, NEW posture
    PROVE  /\ \/ replaceImage(r, image) = r
              \/ \E x : replaceImage(r, image) = [r EXCEPT !.containers = x]
           /\ \/ injectTLSEnvVars(r, p) = r
              \/ \E x : injectTLSEnvVars(r, p) = [r EXCEPT !.containers = x]
           /\ \/ injectNetworkPolicyPostureArg(r, posture) = r
              \/ \E x : injectNetworkPolicyPostureArg(r, posture)
                          = [r EXCEPT !.containers = x]
<1>1. \/ replaceImage(r, image) = r
      \/ \E x : replaceImage(r, image) = [r EXCEPT !.containers = x]
  BY Zenon DEF replaceImage, withManagerContainer
<1>2. \/ injectTLSEnvVars(r, p) = r
      \/ \E x : injectTLSEnvVars(r, p) = [r EXCEPT !.containers = x]
  BY Zenon DEF injectTLSEnvVars, withManagerContainer
<1>3. \/ injectNetworkPolicyPostureArg(r, posture) = r
      \/ \E x : injectNetworkPolicyPostureArg(r, posture)
                  = [r EXCEPT !.containers = x]
  BY Zenon DEF injectNetworkPolicyPostureArg, withManagerContainer
<1> QED BY <1>1, <1>2, <1>3


\* So the three patches together show nothing to the webhooks' clients.
LEMMA PatchedFacts ==
    ASSUME NEW r, Shaped(r), NEW p
    PROVE  SameService(Patched(r, p), r)
<1> DEFINE a == replaceImage(r, p.OperandImage)
           b == injectTLSEnvVars(a, p)
           c == injectNetworkPolicyPostureArg(b, "restricted")
<1>0. ASSUME NEW s, Shaped(s), NEW t,
             t = s \/ \E x : t = [s EXCEPT !.containers = x]
      PROVE  Shaped(t) /\ SameService(t, s)
  <2>1. CASE t = s
    BY <1>0, <2>1 DEF SameService
  <2>2. CASE \E x : t = [s EXCEPT !.containers = x]
    <3>1. PICK x : t = [s EXCEPT !.containers = x]
      BY <2>2
    <3> QED BY <1>0, <3>1, WithContainers, Zenon
  <2> QED BY <1>0, <2>1, <2>2
<1>1. a = r \/ \E x : a = [r EXCEPT !.containers = x]
  BY PatchShape
<1>2. Shaped(a) /\ SameService(a, r)
  BY <1>0, <1>1
<1> HIDE DEF a
<1>3. b = a \/ \E x : b = [a EXCEPT !.containers = x]
  BY <1>2, PatchShape
<1>4. Shaped(b) /\ SameService(b, a)
  BY <1>0, <1>2, <1>3
<1> HIDE DEF b
<1>5. c = b \/ \E x : c = [b EXCEPT !.containers = x]
  BY <1>4, PatchShape
<1>6. SameService(c, b)
  BY <1>0, <1>4, <1>5
<1> HIDE DEF c
<1>7. SameService(c, r)
  BY <1>2, <1>4, <1>6 DEF SameService
<1> QED BY <1>7 DEF a, b, c, Patched

\* A resource is placed in the namespace, and so are the hosts and the source
\* of the CA that it names.
LEMMA PlacedFacts ==
    ASSUME NEW r, Shaped(r), NEW ns
    PROVE  LET q == Placed(r, ns)
           IN  /\ Shaped(q) /\ q.kind = r.kind /\ q.name = r.name
               /\ q.containers = r.containers
               /\ q.ns = IF r.ns = Unset THEN Unset ELSE ns
               /\ q.service = {Host(h.svc, ns) : h \in r.service}
               /\ q.caFrom = IF r.caFrom = Baked THEN ns ELSE r.caFrom
               /\ \A svc : r.kind = "Certificate"
                              /\ Host(svc, Baked) \in r.dnsNames
                                 => Host(svc, ns) \in q.dnsNames
<1> DEFINE hosts == {Host(h.svc, ns) : h \in r.service}
           home == IF r.ns = Unset THEN Unset ELSE ns
           i == InjectNamespace(injectLabels(r), ns)
           from == IF r.caFrom = Baked THEN ns ELSE r.caFrom
           names == IF r.kind # "Certificate" THEN r.dnsNames
                    ELSE {IF h.ns = Baked THEN Host(h.svc, ns) ELSE h :
                             h \in r.dnsNames}
           q == Placed(r, ns)
<1>1. i = [r EXCEPT !.partOf = ServiceName, !.ns = home, !.service = hosts]
  BY DEF InjectNamespace, injectLabels, Shaped, Unset
<1> HIDE DEF hosts, home, i
<1>2. i = [kind |-> r.kind, name |-> r.name, ns |-> home,
           partOf |-> ServiceName, caFrom |-> r.caFrom, service |-> hosts,
           serverName |-> r.serverName, dnsNames |-> r.dnsNames,
           containers |-> r.containers]
  BY <1>1 DEF Shaped
<1>3. Baked # ""
  BY DEF Baked, DefaultOperandNamespace
<1>4. CASE ns = Baked
  <2>1. q = i
    BY <1>4 DEF i, Placed, rewriteCertManagerNamespace
  <2>2. from = r.caFrom
    BY <1>4
  <2> HIDE DEF q, from
  <2>3. /\ Shaped(q) /\ q.kind = r.kind /\ q.name = r.name /\ q.ns = home
        /\ q.service = hosts /\ q.caFrom = from /\ q.dnsNames = r.dnsNames
        /\ q.containers = r.containers
    BY <1>2, <2>1, <2>2 DEF Shaped
  <2> QED BY <1>4, <2>3 DEF q, from, hosts, home
<1>5. CASE ns # Baked
  <2>1. q = [i EXCEPT !.caFrom = from, !.dnsNames = names]
    <3>1. q = rewriteCertManagerNamespace(i, Baked, ns)
      BY DEF i, Placed
    <3>2. /\ i.caFrom = r.caFrom /\ i.kind = r.kind
          /\ i.dnsNames = r.dnsNames
      BY <1>2
    <3> HIDE DEF q
    <3> QED BY <1>3, <1>5, <3>1, <3>2, Zenon DEF rewriteCertManagerNamespace
  <2> HIDE DEF q, from, names
  <2>2. /\ Shaped(q) /\ q.kind = r.kind /\ q.name = r.name /\ q.ns = home
        /\ q.service = hosts /\ q.caFrom = from /\ q.dnsNames = names
        /\ q.containers = r.containers
    BY <1>2, <2>1 DEF Shaped
  <2>3. ASSUME NEW svc, r.kind = "Certificate", Host(svc, Baked) \in r.dnsNames
        PROVE  Host(svc, ns) \in names
    <3>1. Host(svc, Baked).ns = Baked /\ Host(svc, Baked).svc = svc
      BY DEF Host
    <3>2. names = {IF h.ns = Baked THEN Host(h.svc, ns) ELSE h : h \in r.dnsNames}
      BY <2>3 DEF names
    <3> QED BY <2>3, <3>1, <3>2
  <2> QED BY <2>2, <2>3 DEF q, from, hosts, home
<1> QED BY <1>4, <1>5

\* In particular a namespaced resource goes where the operand goes.
LEMMA PlacedHome ==
    ASSUME NEW r, Shaped(r), r.ns = Baked, NEW ns
    PROVE  /\ Shaped(Placed(r, ns))
           /\ Placed(r, ns).kind = r.kind /\ Placed(r, ns).name = r.name
           /\ Placed(r, ns).ns = ns
<1>1. Baked # Unset
  BY DEF Baked, DefaultOperandNamespace, Unset
<1> DEFINE q == Placed(r, ns)
<1>2. Shaped(q) /\ q.kind = r.kind /\ q.name = r.name
  BY PlacedFacts
<1>3. q.ns = IF r.ns = Unset THEN Unset ELSE ns
  BY PlacedFacts
<1> HIDE DEF q
<1>4. q.ns = ns
  BY <1>1, <1>3
<1> QED BY <1>2, <1>4 DEF q

\* The two resources that the webhooks' clients depend on.
WebhookService == Resource("Service", "webhook-service", Baked)

ServingCert ==
    [Resource("Certificate", "serving-cert", Baked)
        EXCEPT !.dnsNames = {Host("webhook-service", Baked)}]

\* A resource without optional fields.
LEMMA ResourceFacts ==
    ASSUME NEW kind, NEW name, NEW ns
    PROVE  LET r == Resource(kind, name, ns)
           IN  /\ Shaped(r) /\ r.caFrom = Unset /\ r.service = {}
               /\ r.dnsNames = {}
               /\ r.kind = kind /\ r.name = name /\ r.ns = ns
<1> DEFINE r == Resource(kind, name, ns)
<1>1. r = [kind |-> kind, name |-> name, ns |-> ns, partOf |-> "",
           caFrom |-> Unset, service |-> {}, serverName |-> {}, dnsNames |-> {},
           containers |-> <<>>]
  BY DEF Resource, Unset
<1> HIDE DEF r
<1>2. /\ r.kind = kind /\ r.name = name /\ r.ns = ns /\ r.partOf = ""
      /\ r.caFrom = Unset /\ r.service = {} /\ r.serverName = {}
      /\ r.dnsNames = {} /\ r.containers = <<>>
  BY <1>1
<1>3. Shaped(r)
  BY <1>1, <1>2 DEF Shaped
<1> QED BY <1>2, <1>3 DEF r

\* In the embedded file the clients ask for the webhook service and take the CA
\* from the namespace that the file was built for, if they do either.
LEMMA BakedFacts ==
    /\ \A r \in loadResources :
          /\ Shaped(r) /\ r.caFrom \in {Unset, Baked}
          /\ \A h \in r.service : h = Host("webhook-service", Baked)
    /\ WebhookService \in loadResources /\ ServingCert \in loadResources
<1> DEFINE OK(r) == /\ Shaped(r) /\ r.caFrom \in {Unset, Baked}
                    /\ \A h \in r.service : h = Host("webhook-service", Baked)
<1>0. ASSUME NEW r, NEW kind, NEW name, NEW ns, NEW x,
             \/ r = Resource(kind, name, ns)
             \/ r = [Resource(kind, name, ns) EXCEPT !.dnsNames = x]
             \/ r = [Resource(kind, name, ns) EXCEPT !.serverName = x]
             \/ r = [Resource(kind, name, ns) EXCEPT !.containers = x]
             \/ r = [Resource(kind, name, ns) EXCEPT !.caFrom = Baked]
             \/ r = [Resource(kind, name, ns) EXCEPT !.caFrom = Baked,
                        !.service = {Host("webhook-service", Baked)}]
      PROVE  OK(r)
  <2> DEFINE b == Resource(kind, name, ns)
  <2>1. Shaped(b) /\ b.caFrom = Unset /\ b.service = {}
    BY ResourceFacts
  <2>b. \/ r = b \/ r = [b EXCEPT !.dnsNames = x]
        \/ r = [b EXCEPT !.serverName = x] \/ r = [b EXCEPT !.containers = x]
        \/ r = [b EXCEPT !.caFrom = Baked]
        \/ r = [b EXCEPT !.caFrom = Baked,
                         !.service = {Host("webhook-service", Baked)}]
    BY <1>0
  <2> HIDE DEF b
  <2>2. CASE \/ r = [b EXCEPT !.serverName = x] \/ r = [b EXCEPT !.containers = x]
             \/ r = [b EXCEPT !.dnsNames = x]
    <3>1. Shaped(r) /\ r.caFrom = b.caFrom /\ r.service = b.service
      BY <2>1, <2>2 DEF Shaped
    <3> QED BY <2>1, <3>1
  <2>3. CASE r = [b EXCEPT !.caFrom = Baked]
    <3>1. Shaped(r) /\ r.caFrom = Baked /\ r.service = b.service
      BY <2>1, <2>3 DEF Shaped
    <3> QED BY <2>1, <3>1
  <2>4. CASE r = [b EXCEPT !.caFrom = Baked,
                           !.service = {Host("webhook-service", Baked)}]
    <3> DEFINE hosts == {Host("webhook-service", Baked)}
    <3> HIDE DEF hosts
    <3>1. Shaped(r) /\ r.caFrom = Baked /\ r.service = hosts
      BY <2>1, <2>4 DEF Shaped, hosts
    <3> QED BY <3>1 DEF hosts
  <2> QED BY <2>1, <2>b, <2>2, <2>3, <2>4
<1> HIDE DEF OK
<1>1. OK(Deployment)
  BY <1>0 DEF Deployment
<1>2. OK(ServiceMonitor)
  BY <1>0 DEF ServiceMonitor
<1>3. \A r \in Services : OK(r)
  BY <1>0 DEF Services
<1>4. \A r \in Certificates : OK(r)
  BY <1>0 DEF Certificates
<1>5. \A r \in WebhookClients : OK(r)
  BY <1>0 DEF WebhookClients
<1>6. WebhookService \in loadResources /\ ServingCert \in loadResources
  BY DEF loadResources, Services, Certificates, WebhookService, ServingCert
<1>7. \A r \in loadResources : OK(r)
  BY <1>1, <1>2, <1>3, <1>4, <1>5 DEF loadResources
<1> QED BY <1>6, <1>7 DEF OK


\* The embedded file has one Deployment.
LEMMA OneDeployment ==
    \A r \in loadResources : r.kind = "Deployment" => r = Deployment
<1>1. ServiceMonitor.kind = "ServiceMonitor"
  BY DEF ServiceMonitor, Resource
<1>2. \A r \in Services : r.kind = "Service"
  <2>1. \A svc : Resource("Service", svc, Baked).kind = "Service"
    BY DEF Resource
  <2> QED BY <2>1 DEF Services
<1>3. \A r \in Certificates : r.kind = "Certificate"
  BY DEF Certificates, Resource
<1>4. \A r \in WebhookClients :
         r.kind \in {"CustomResourceDefinition", "ValidatingWebhookConfiguration"}
  BY DEF WebhookClients, Resource
<1> QED BY <1>1, <1>2, <1>3, <1>4 DEF loadResources

\* Rendering does not fail: the one Deployment has a manager container.
LEMMA ManagerThere ==
    \A r \in loadResources : ~NoManager(r)
<1> DEFINE cs == <<Manager>>
           I == {i \in 1..Len(cs) : IsManager(cs[i])}
<1>1. Len(cs) = 1 /\ cs[1] = Manager
  OBVIOUS
<1>2. IsManager(Manager)
  BY DEF IsManager, Manager
<1> HIDE DEF cs
<1>3. 1 \in I /\ \A y \in I : 1 <= y
  BY <1>1, <1>2
<1>4. I \subseteq 1..1
  BY <1>1
<1> HIDE DEF I
<1>5. Min(I) \in I
  BY <1>3 DEF Min
<1>6. SelectInSeq(cs, IsManager) = Min(I)
  BY <1>3 DEF SelectInSeq, I
<1>7. SelectInSeq(cs, IsManager) # 0
  BY <1>4, <1>5, <1>6
<1>8. Deployment.containers = cs
  BY DEF Deployment, Resource, cs
<1> QED BY <1>7, <1>8, OneDeployment DEF NoManager

\* What is rendered is every resource, placed and patched.
LEMMA RenderedFacts ==
    ASSUME NEW p
    PROVE  Manifests(p) = {Patched(Placed(r, Target(p)), p) : r \in loadResources}
BY ManagerThere DEF Manifests, Patched, Placed, Target, Baked

\* The webhook service and its certificate, rendered.
LEMMA ServiceRendered ==
    ASSUME NEW p
    PROVE  LET ns == Target(p)
               s == Patched(Placed(WebhookService, ns), p)
               c == Patched(Placed(ServingCert, ns), p)
           IN  /\ s.kind = "Service" /\ s.name = "webhook-service" /\ s.ns = ns
               /\ c.kind = "Certificate" /\ c.name = "serving-cert" /\ c.ns = ns
               /\ Host("webhook-service", ns) \in c.dnsNames
<1> DEFINE ns == Target(p)
           a == Placed(WebhookService, ns)
           b == Placed(ServingCert, ns)
           s == Patched(a, p)
           c == Patched(b, p)
<1>2. Shaped(WebhookService) /\ Shaped(ServingCert)
  BY BakedFacts
<1>3. /\ WebhookService.kind = "Service"
      /\ WebhookService.name = "webhook-service" /\ WebhookService.ns = Baked
      /\ ServingCert.kind = "Certificate"
      /\ ServingCert.name = "serving-cert" /\ ServingCert.ns = Baked
      /\ ServingCert.dnsNames = {Host("webhook-service", Baked)}
  BY DEF WebhookService, ServingCert, Resource
<1>4. /\ Shaped(a) /\ a.kind = "Service" /\ a.name = "webhook-service"
      /\ a.ns = ns
  BY <1>2, <1>3, PlacedHome
<1>5. /\ Shaped(b) /\ b.kind = "Certificate" /\ b.name = "serving-cert"
      /\ b.ns = ns
  BY <1>2, <1>3, PlacedHome
<1>6. Host("webhook-service", Baked) \in ServingCert.dnsNames
  BY <1>3
<1>7. Host("webhook-service", ns) \in b.dnsNames
  BY <1>2, <1>3, <1>6, PlacedFacts
<1> HIDE DEF a, b, ns
<1>8. SameService(s, a) /\ SameService(c, b)
  BY <1>4, <1>5, PatchedFacts
<1> HIDE DEF s, c
<1>9. /\ s.kind = "Service" /\ s.name = "webhook-service" /\ s.ns = ns
      /\ c.kind = "Certificate" /\ c.name = "serving-cert" /\ c.ns = ns
      /\ Host("webhook-service", ns) \in c.dnsNames
  BY <1>4, <1>5, <1>7, <1>8 DEF SameService
<1> QED BY <1>9 DEF s, c, a, b, ns

\* Every rendered resource asks for the webhook service in its new place and
\* takes its CA from there.
LEMMA ClientsRendered ==
    ASSUME NEW p, NEW r \in loadResources
    PROVE  LET q == Patched(Placed(r, Target(p)), p)
           IN  /\ q.caFrom \in {Unset, Target(p)}
               /\ \A h \in q.service : h = Host("webhook-service", Target(p))
<1> DEFINE ns == Target(p)
           a == Placed(r, ns)
           q == Patched(a, p)
<1>1. /\ Shaped(r) /\ r.caFrom \in {Unset, Baked}
      /\ \A h \in r.service : h = Host("webhook-service", Baked)
  BY BakedFacts
<1>2. /\ Shaped(a) /\ a.service = {Host(h.svc, ns) : h \in r.service}
      /\ a.caFrom = IF r.caFrom = Baked THEN ns ELSE r.caFrom
  BY <1>1, PlacedFacts
<1> HIDE DEF a, ns
<1>3. SameService(q, a)
  BY <1>2, PatchedFacts
<1> HIDE DEF q
<1>4. \A h \in a.service : h = Host("webhook-service", ns)
  BY <1>1, <1>2 DEF Host
<1>5. /\ q.caFrom \in {Unset, ns}
      /\ \A h \in q.service : h = Host("webhook-service", ns)
  BY <1>1, <1>2, <1>3, <1>4 DEF SameService
<1> QED BY <1>5 DEF q, a, ns

\* Wherever the operand is placed, whatever its image and its policy, the API
\* server reaches its webhooks over a certificate that it trusts: the service
\* it asks for is there, the certificate names it, and the CA comes from the
\* namespace of that certificate (rewriteCertManagerNamespace).
THEOREM WebhooksTrustedEverywhere == Spec => []WebhooksTrusted
<1>1. WebhooksTrusted
  <2> SUFFICES ASSUME NEW q \in Applied
               PROVE  /\ \A host \in q.service : CertifiedFor(host)
                      /\ q.caFrom # "" =>
                            \E c \in OfKind("Certificate") :
                               c.name = "serving-cert" /\ c.ns = q.caFrom
    BY DEF WebhooksTrusted
  <2> DEFINE p == operand
             ns == Target(p)
             s == Patched(Placed(WebhookService, ns), p)
             c == Patched(Placed(ServingCert, ns), p)
  <2>1. Applied = Manifests(p)
    BY DEF Applied
  <2>2. Applied = {Patched(Placed(r, ns), p) : r \in loadResources}
    BY <2>1, RenderedFacts
  <2>3. /\ q.caFrom \in {Unset, ns}
        /\ \A h \in q.service : h = Host("webhook-service", ns)
    BY <2>2, ClientsRendered
  <2>4. s \in Applied /\ c \in Applied
    BY <2>2, BakedFacts
  <2>5. /\ s.kind = "Service" /\ s.name = "webhook-service" /\ s.ns = ns
        /\ c.kind = "Certificate" /\ c.name = "serving-cert" /\ c.ns = ns
        /\ Host("webhook-service", ns) \in c.dnsNames
    BY ServiceRendered
  <2> HIDE DEF p, ns, s, c
  <2>6. s \in OfKind("Service") /\ c \in OfKind("Certificate")
    BY <2>4, <2>5 DEF OfKind
  <2>7. /\ Host("webhook-service", ns).svc = "webhook-service"
        /\ Host("webhook-service", ns).ns = ns
    BY DEF Host
  <2>8. CertifiedFor(Host("webhook-service", ns))
    BY <2>5, <2>6, <2>7 DEF CertifiedFor
  <2>9. q.caFrom # "" => q.caFrom = ns
    BY <2>3 DEF Unset
  <2> QED BY <2>3, <2>5, <2>6, <2>8, <2>9
<1> QED BY <1>1, PTL


-----------------------------------------------------------------------------
(* The settings of the manager container                                    *)

\* A name that a setting may have once at most, in an environment and in an
\* argument list.
AtMostOnce(env, name) ==
    \A i, j \in DOMAIN env :
        env[i].name = name /\ env[j].name = name => i = j

FlagAtMostOnce(args, flag) ==
    \A i, j \in DOMAIN args :
        args[i].flag = flag /\ args[j].flag = flag => i = j

\* setEnvVar leaves one setting of the name, with the value, whether the
\* manifest has that variable or not, and the variables of other names as they
\* are.
LEMMA SetEnvVarFacts ==
    ASSUME NEW S, NEW env \in Seq(S), NEW name, NEW value,
           AtMostOnce(env, name)
    PROVE  LET out == setEnvVar(env, name, value)
           IN  /\ \E T : out \in Seq(T)
               /\ SetOnce(out, name, value)
               /\ \A n, v : n # name /\ SetOnce(env, n, v) => SetOnce(out, n, v)
               /\ \A n : n # name /\ AtMostOnce(env, n) => AtMostOnce(out, n)
<1> DEFINE Named(e) == e.name = name
           I == {i \in 1..Len(env) : env[i].name = name}
           new == [name |-> name, value |-> value, valueFrom |-> FALSE]
           T == S \union {new}
           k == IF I # {} THEN Min(I) ELSE 0
           out == setEnvVar(env, name, value)
<1>0. new.name = name /\ new.value = value
  OBVIOUS
<1>1. out = IF k = 0 THEN Append(env, new) ELSE [env EXCEPT ![k] = new]
  BY DEF setEnvVar, SelectInSeq
<1>2. DOMAIN env = 1..Len(env) /\ Len(env) \in Nat
  OBVIOUS
<1> HIDE DEF out, new
<1>3. CASE I = {}
  <2>1. out = Append(env, new)
    BY <1>1, <1>3
  <2>2. /\ out \in Seq(T) /\ DOMAIN out = 1..(Len(env) + 1)
        /\ out[Len(env) + 1] = new
        /\ \A i \in 1..Len(env) : out[i] = env[i]
    BY <2>1
  <2>3. \A i \in 1..Len(env) : out[i].name # name
    BY <1>3, <2>2
  <2> HIDE DEF I, k, T
  <2>4. SetOnce(out, name, value)
    <3>1. Len(env) + 1 \in DOMAIN out
      BY <1>2, <2>2
    <3>2. \A j \in DOMAIN out : out[j].name = name => j = Len(env) + 1
      BY <1>2, <2>2, <2>3
    <3> QED BY <1>0, <2>2, <3>1, <3>2 DEF SetOnce
  <2>5. ASSUME NEW n, NEW v, n # name, SetOnce(env, n, v)
        PROVE  SetOnce(out, n, v)
    <3>1. PICK i \in DOMAIN env :
            /\ env[i].name = n /\ env[i].value = v
            /\ \A j \in DOMAIN env : env[j].name = n => j = i
      BY <2>5 DEF SetOnce
    <3>2. i \in DOMAIN out /\ out[i] = env[i]
      BY <1>2, <2>2, <3>1
    <3>3. \A j \in DOMAIN out : out[j].name = n => j = i
      BY <1>0, <1>2, <2>2, <2>5, <3>1
    <3> QED BY <3>1, <3>2, <3>3 DEF SetOnce
  <2>6. ASSUME NEW n, n # name, AtMostOnce(env, n)
        PROVE  AtMostOnce(out, n)
    <3>1. \A i \in DOMAIN out : out[i].name = n => i \in DOMAIN env /\ out[i] = env[i]
      BY <1>0, <1>2, <2>2, <2>6
    <3> QED BY <2>6, <3>1 DEF AtMostOnce
  <2> QED BY <2>2, <2>4, <2>5, <2>6 DEF out
<1>4. CASE I # {}
  <2>1. PICK m \in I : TRUE
    BY <1>4
  <2>2. I = {m} /\ m \in Nat
    BY <1>2, <2>1 DEF AtMostOnce
  <2>3. Min({m}) = m
    BY <2>2 DEF Min
  <2>4. k = m /\ m \in DOMAIN env /\ env[m].name = name /\ m # 0
    <3>1. m \in 1..Len(env) /\ env[m].name = name
      BY <2>1
    <3>2. k = Min(I)
      BY <1>4
    <3> HIDE DEF I, k
    <3> QED BY <1>2, <2>2, <2>3, <3>1, <3>2
  <2>5. out = [env EXCEPT ![m] = new]
    BY <1>1, <2>4
  <2>6. /\ out \in Seq(T) /\ DOMAIN out = DOMAIN env
        /\ out[m] = new
        /\ \A i \in DOMAIN env : i # m => out[i] = env[i]
    BY <2>4, <2>5
  <2>7. \A i \in DOMAIN env : i # m => env[i].name # name
    BY <1>2, <2>2
  <2> HIDE DEF I, k, T
  <2>8. SetOnce(out, name, value)
    BY <1>0, <2>4, <2>6, <2>7 DEF SetOnce
  <2>9. ASSUME NEW n, NEW v, n # name, SetOnce(env, n, v)
        PROVE  SetOnce(out, n, v)
    BY <1>0, <2>4, <2>6, <2>9 DEF SetOnce
  <2>10. ASSUME NEW n, n # name, AtMostOnce(env, n)
         PROVE  AtMostOnce(out, n)
    BY <1>0, <2>4, <2>6, <2>10 DEF AtMostOnce
  <2> QED BY <2>6, <2>8, <2>9, <2>10 DEF out
<1> QED BY <1>3, <1>4


\* The same for an argument: setFlagArg leaves the flag once, with the value.
LEMMA SetFlagArgFacts ==
    ASSUME NEW S, NEW args \in Seq(S), NEW flag, NEW value,
           FlagAtMostOnce(args, flag)
    PROVE  FlagOnce(setFlagArg(args, flag, value), flag, value)
<1> DEFINE I == {i \in 1..Len(args) : args[i].flag = flag}
           want == [flag |-> flag, value |-> value]
           k == IF I # {} THEN Min(I) ELSE 0
           out == setFlagArg(args, flag, value)
<1>0. want.flag = flag /\ want.value = value
  OBVIOUS
<1>1. out = IF k = 0 THEN Append(args, want) ELSE [args EXCEPT ![k] = want]
  BY DEF setFlagArg, SelectInSeq
<1>2. DOMAIN args = 1..Len(args) /\ Len(args) \in Nat
  OBVIOUS
<1> HIDE DEF out, want
<1>3. CASE I = {}
  <2>1. out = Append(args, want)
    BY <1>1, <1>3
  <2>2. /\ DOMAIN out = 1..(Len(args) + 1) /\ out[Len(args) + 1] = want
        /\ \A i \in 1..Len(args) : out[i] = args[i]
    BY <2>1
  <2>3. \A i \in 1..Len(args) : out[i].flag # flag
    BY <1>3, <2>2
  <2>4. Len(args) + 1 \in DOMAIN out
    BY <1>2, <2>2
  <2>5. \A j \in DOMAIN out : out[j].flag = flag => j = Len(args) + 1
    BY <1>2, <2>2, <2>3
  <2> QED BY <1>0, <2>2, <2>4, <2>5 DEF FlagOnce, out
<1>4. CASE I # {}
  <2>1. PICK m \in I : TRUE
    BY <1>4
  <2>2. I = {m} /\ m \in Nat
    BY <1>2, <2>1 DEF FlagAtMostOnce
  <2>3. Min({m}) = m
    BY <2>2 DEF Min
  <2>4. k = m /\ m \in DOMAIN args /\ args[m].flag = flag /\ m # 0
    <3>1. m \in 1..Len(args) /\ args[m].flag = flag
      BY <2>1
    <3>2. k = Min(I)
      BY <1>4
    <3> HIDE DEF I, k
    <3> QED BY <1>2, <2>2, <2>3, <3>1, <3>2
  <2>5. out = [args EXCEPT ![m] = want]
    BY <1>1, <2>4
  <2>6. /\ DOMAIN out = DOMAIN args /\ out[m] = want
        /\ \A i \in DOMAIN args : i # m => out[i] = args[i]
    BY <2>4, <2>5
  <2>7. \A i \in DOMAIN args : i # m => args[i].flag # flag
    BY <1>2, <2>2
  <2> QED BY <1>0, <2>4, <2>6, <2>7 DEF FlagOnce, out
<1> QED BY <1>3, <1>4

\* What injectTLSEnvVars makes of an environment.
TLSEnv(env, p) ==
    setEnvVar(setEnvVar(setEnvVar(setEnvVar(env,
        "TLS_MIN_VERSION", p.TLSMinVersion),
        "TLS_CIPHER_SUITES", p.TLSCipherSuites),
        "TLS_GROUPS", p.TLSGroups),
        "PROPAGATE_TLS_ENV_VARS", "true")

\* An environment that has each of the four variables once at most ends up with
\* all four set and with its other variables.
LEMMA TLSEnvFacts ==
    ASSUME NEW S, NEW env \in Seq(S), NEW p,
           \A name \in {"TLS_MIN_VERSION", "TLS_CIPHER_SUITES", "TLS_GROUPS",
                        "PROPAGATE_TLS_ENV_VARS"} : AtMostOnce(env, name)
    PROVE  LET out == TLSEnv(env, p)
           IN  /\ SetOnce(out, "TLS_MIN_VERSION", p.TLSMinVersion)
               /\ SetOnce(out, "TLS_CIPHER_SUITES", p.TLSCipherSuites)
               /\ SetOnce(out, "TLS_GROUPS", p.TLSGroups)
               /\ SetOnce(out, "PROPAGATE_TLS_ENV_VARS", "true")
               /\ \A n, v :
                    /\ n \notin {"TLS_MIN_VERSION", "TLS_CIPHER_SUITES",
                                 "TLS_GROUPS", "PROPAGATE_TLS_ENV_VARS"}
                    /\ SetOnce(env, n, v)
                    => SetOnce(out, n, v)
<1> DEFINE e1 == setEnvVar(env, "TLS_MIN_VERSION", p.TLSMinVersion)
           e2 == setEnvVar(e1, "TLS_CIPHER_SUITES", p.TLSCipherSuites)
           e3 == setEnvVar(e2, "TLS_GROUPS", p.TLSGroups)
           e4 == setEnvVar(e3, "PROPAGATE_TLS_ENV_VARS", "true")
<1>1. /\ \E T : e1 \in Seq(T)
      /\ SetOnce(e1, "TLS_MIN_VERSION", p.TLSMinVersion)
      /\ \A n, v : n # "TLS_MIN_VERSION" /\ SetOnce(env, n, v) => SetOnce(e1, n, v)
      /\ \A n : n # "TLS_MIN_VERSION" /\ AtMostOnce(env, n) => AtMostOnce(e1, n)
  BY SetEnvVarFacts
<1> HIDE DEF e1
<1>2. /\ \E T : e2 \in Seq(T)
      /\ SetOnce(e2, "TLS_CIPHER_SUITES", p.TLSCipherSuites)
      /\ \A n, v : n # "TLS_CIPHER_SUITES" /\ SetOnce(e1, n, v) => SetOnce(e2, n, v)
      /\ \A n : n # "TLS_CIPHER_SUITES" /\ AtMostOnce(e1, n) => AtMostOnce(e2, n)
  <2>1. PICK T : e1 \in Seq(T)
    BY <1>1
  <2>2. AtMostOnce(e1, "TLS_CIPHER_SUITES")
    BY <1>1
  <2> QED BY <2>1, <2>2, SetEnvVarFacts
<1> HIDE DEF e2
<1>3. /\ \E T : e3 \in Seq(T)
      /\ SetOnce(e3, "TLS_GROUPS", p.TLSGroups)
      /\ \A n, v : n # "TLS_GROUPS" /\ SetOnce(e2, n, v) => SetOnce(e3, n, v)
      /\ \A n : n # "TLS_GROUPS" /\ AtMostOnce(e2, n) => AtMostOnce(e3, n)
  <2>1. PICK T : e2 \in Seq(T)
    BY <1>2
  <2>2. AtMostOnce(e2, "TLS_GROUPS")
    BY <1>1, <1>2
  <2> QED BY <2>1, <2>2, SetEnvVarFacts
<1> HIDE DEF e3
<1>4. /\ SetOnce(e4, "PROPAGATE_TLS_ENV_VARS", "true")
      /\ \A n, v : n # "PROPAGATE_TLS_ENV_VARS" /\ SetOnce(e3, n, v)
                      => SetOnce(e4, n, v)
  <2>1. PICK T : e3 \in Seq(T)
    BY <1>3
  <2>2. AtMostOnce(e3, "PROPAGATE_TLS_ENV_VARS")
    BY <1>1, <1>2, <1>3
  <2> QED BY <2>1, <2>2, SetEnvVarFacts
<1> HIDE DEF e4
<1>5. /\ SetOnce(e4, "TLS_MIN_VERSION", p.TLSMinVersion)
      /\ SetOnce(e4, "TLS_CIPHER_SUITES", p.TLSCipherSuites)
      /\ SetOnce(e4, "TLS_GROUPS", p.TLSGroups)
  BY <1>1, <1>2, <1>3, <1>4
<1>6. \A n, v :
        /\ n \notin {"TLS_MIN_VERSION", "TLS_CIPHER_SUITES", "TLS_GROUPS",
                     "PROPAGATE_TLS_ENV_VARS"}
        /\ SetOnce(env, n, v)
        => SetOnce(e4, n, v)
  BY <1>1, <1>2, <1>3, <1>4
<1>7. TLSEnv(env, p) = e4
  BY DEF TLSEnv, e1, e2, e3, e4
<1> QED BY <1>4, <1>5, <1>6, <1>7

\* The manager container of the embedded file.
LEMMA ManagerFacts ==
    /\ IsManager(Manager)
    /\ \E S : Manager.env \in Seq(S) /\ Manager.args \in Seq(S)
    /\ SetOnce(Manager.env, "POD_NAMESPACE", "")
    /\ SetOnce(Manager.env, "GOMEMLIMIT", "460MiB")
    /\ \A name \in {"TLS_MIN_VERSION", "TLS_CIPHER_SUITES", "TLS_GROUPS",
                    "PROPAGATE_TLS_ENV_VARS"} : AtMostOnce(Manager.env, name)
    /\ FlagAtMostOnce(Manager.args, "--network-policy-default-posture")
<1> DEFINE a == [name |-> "POD_NAMESPACE", value |-> "", valueFrom |-> TRUE]
           b == [name |-> "GOMEMLIMIT", value |-> "460MiB", valueFrom |-> FALSE]
           c == [flag |-> "--leader-elect", value |-> ""]
           d == [flag |-> "--enable-webhook", value |-> ""]
           env == <<a, b>>
           args == <<c, d>>
<1>1. Manager.env = env /\ Manager.args = args /\ IsManager(Manager)
  BY DEF Manager, IsManager
<1>2. /\ a.name = "POD_NAMESPACE" /\ a.value = ""
      /\ b.name = "GOMEMLIMIT" /\ b.value = "460MiB"
      /\ c.flag = "--leader-elect" /\ d.flag = "--enable-webhook"
  OBVIOUS
<1> HIDE DEF a, b, c, d
<1>3. env \in Seq({a, b, c, d}) /\ args \in Seq({a, b, c, d})
  OBVIOUS
<1>4. /\ DOMAIN env = {1, 2} /\ env[1] = a /\ env[2] = b
      /\ DOMAIN args = {1, 2} /\ args[1] = c /\ args[2] = d
  OBVIOUS
<1> HIDE DEF env, args
<1>5. SetOnce(env, "POD_NAMESPACE", "") /\ SetOnce(env, "GOMEMLIMIT", "460MiB")
  BY <1>2, <1>4 DEF SetOnce
<1>6. \A name \in {"TLS_MIN_VERSION", "TLS_CIPHER_SUITES", "TLS_GROUPS",
                   "PROPAGATE_TLS_ENV_VARS"} : AtMostOnce(env, name)
  BY <1>2, <1>4 DEF AtMostOnce
<1>7. FlagAtMostOnce(args, "--network-policy-default-posture")
  BY <1>2, <1>4 DEF FlagAtMostOnce
<1> QED BY <1>1, <1>3, <1>5, <1>6, <1>7


\* A Deployment whose one container is the manager c.
Runs(r, c) ==
    /\ r.kind = "Deployment" /\ Shaped(r)
    /\ DOMAIN r.containers = {1} /\ r.containers[1] = c
    /\ IsManager(c)
    /\ c = [name |-> c.name, image |-> c.image, env |-> c.env, args |-> c.args]

\* Another container of the same name is the manager too.
LEMMA RunsWith ==
    ASSUME NEW r, NEW c, Runs(r, c), NEW d, NEW s, NEW cs,
           s = [r EXCEPT !.containers = cs], DOMAIN cs = {1}, cs[1] = d,
           d.name = c.name,
           d = [name |-> d.name, image |-> d.image, env |-> d.env, args |-> d.args]
    PROVE  Runs(s, d)
<1>1. Shaped(s) /\ s.kind = "Deployment" /\ s.containers = cs
  <2>1. Shaped(s) /\ SameService(s, r)
    BY WithContainers DEF Runs
  <2>2. s.containers = cs
    BY DEF Runs, Shaped
  <2> QED BY <2>1, <2>2 DEF Runs, SameService
<1>2. IsManager(d)
  BY DEF Runs, IsManager
<1> QED BY <1>1, <1>2 DEF Runs

\* Each patch is applied to that container: the image,
LEMMA RunsImage ==
    ASSUME NEW r, NEW c, Runs(r, c), NEW image
    PROVE  \E d : /\ Runs(replaceImage(r, image), d)
                  /\ d.env = c.env /\ d.args = c.args
<1>1. CASE image = ""
  BY <1>1 DEF replaceImage
<1>2. CASE image # ""
  <2> DEFINE d == [c EXCEPT !.image = image]
             cs == [k \in DOMAIN r.containers |->
                      IF IsManager(r.containers[k])
                      THEN [r.containers[k] EXCEPT !.image = image]
                      ELSE r.containers[k]]
  <2>1. replaceImage(r, image) = [r EXCEPT !.containers = cs]
    BY <1>2, Zenon DEF replaceImage, withManagerContainer, Runs
  <2>2. DOMAIN cs = {1} /\ cs[1] = d
    BY DEF Runs
  <2>3. /\ d = [name |-> d.name, image |-> d.image, env |-> d.env, args |-> d.args]
        /\ d.name = c.name /\ d.env = c.env /\ d.args = c.args
    BY DEF Runs
  <2> HIDE DEF d, cs
  <2> QED BY RunsWith, <2>1, <2>2, <2>3
<1> QED BY <1>1, <1>2

\* the TLS variables,
LEMMA RunsTLS ==
    ASSUME NEW r, NEW c, Runs(r, c), NEW p, p.TLSMinVersion # Unset
    PROVE  \E d : /\ Runs(injectTLSEnvVars(r, p), d)
                  /\ d.env = TLSEnv(c.env, p) /\ d.args = c.args
<1> DEFINE d == [c EXCEPT !.env = TLSEnv(@, p)]
           cs == [k \in DOMAIN r.containers |->
                    IF IsManager(r.containers[k])
                    THEN [r.containers[k] EXCEPT !.env = TLSEnv(@, p)]
                    ELSE r.containers[k]]
<1>1. injectTLSEnvVars(r, p) = [r EXCEPT !.containers = cs]
  BY Zenon DEF injectTLSEnvVars, withManagerContainer, Runs, TLSEnv, Unset
<1>2. DOMAIN cs = {1} /\ cs[1] = d
  BY DEF Runs
<1>3. /\ d = [name |-> d.name, image |-> d.image, env |-> d.env, args |-> d.args]
      /\ d.name = c.name /\ d.env = TLSEnv(c.env, p) /\ d.args = c.args
  BY DEF Runs
<1> HIDE DEF d, cs
<1> QED BY RunsWith, <1>1, <1>2, <1>3

\* and the posture.
LEMMA RunsPosture ==
    ASSUME NEW r, NEW c, Runs(r, c)
    PROVE  \E d : /\ Runs(injectNetworkPolicyPostureArg(r, "restricted"), d)
                  /\ d.env = c.env
                  /\ d.args = setFlagArg(c.args,
                                "--network-policy-default-posture", "restricted")
<1> DEFINE flag == "--network-policy-default-posture"
           d == [c EXCEPT !.args = setFlagArg(@, flag, "restricted")]
           cs == [k \in DOMAIN r.containers |->
                    IF IsManager(r.containers[k])
                    THEN [r.containers[k] EXCEPT
                            !.args = setFlagArg(@, flag, "restricted")]
                    ELSE r.containers[k]]
<1>1. injectNetworkPolicyPostureArg(r, "restricted")
        = [r EXCEPT !.containers = cs]
  <2>1. "restricted" # "" /\ r.kind = "Deployment"
    BY DEF Runs
  <2> QED BY <2>1, Zenon DEF injectNetworkPolicyPostureArg, withManagerContainer
<1>2. DOMAIN cs = {1} /\ cs[1] = d
  BY DEF Runs
<1>3. /\ d = [name |-> d.name, image |-> d.image, env |-> d.env, args |-> d.args]
      /\ d.name = c.name /\ d.env = c.env
      /\ d.args = setFlagArg(c.args, flag, "restricted")
  BY DEF Runs
<1> HIDE DEF d, cs
<1> QED BY RunsWith, <1>1, <1>2, <1>3

\* The rendered Deployment has one container, with the settings of p.
LEMMA DeploymentRendered ==
    ASSUME NEW p, p.TLSMinVersion # Unset, NEW ns
    PROVE  LET q == Patched(Placed(Deployment, ns), p)
           IN  /\ DOMAIN q.containers = {1}
               /\ q.containers[1].env = TLSEnv(Manager.env, p)
               /\ q.containers[1].args
                    = setFlagArg(Manager.args, "--network-policy-default-posture",
                                 "restricted")
<1> DEFINE r == Placed(Deployment, ns)
           a == replaceImage(r, p.OperandImage)
           b == injectTLSEnvVars(a, p)
           q == injectNetworkPolicyPostureArg(b, "restricted")
<1>1. Shaped(Deployment)
  BY BakedFacts DEF loadResources
<1>2. Deployment.kind = "Deployment" /\ Deployment.containers = <<Manager>>
  BY DEF Deployment, Resource
<1>3. Shaped(r) /\ r.kind = "Deployment" /\ r.containers = <<Manager>>
  BY <1>1, <1>2, PlacedFacts
<1> HIDE DEF r
<1>4. Runs(r, Manager)
  <2>1. DOMAIN r.containers = {1} /\ r.containers[1] = Manager
    <3>1. ASSUME NEW m PROVE DOMAIN <<m>> = {1} /\ <<m>>[1] = m
      OBVIOUS
    <3> QED BY <1>3, <3>1, Zenon
  <2>2. Manager = [name |-> Manager.name, image |-> Manager.image,
                   env |-> Manager.env, args |-> Manager.args]
    BY DEF Manager
  <2> QED BY <1>3, <2>1, <2>2, ManagerFacts DEF Runs
<1>5. PICK c : Runs(a, c) /\ c.env = Manager.env /\ c.args = Manager.args
  BY <1>4, RunsImage
<1> HIDE DEF a
<1>6. PICK d : Runs(b, d) /\ d.env = TLSEnv(c.env, p) /\ d.args = c.args
  BY <1>5, RunsTLS
<1> HIDE DEF b
<1>7. PICK e : /\ Runs(q, e) /\ e.env = d.env
               /\ e.args = setFlagArg(d.args, "--network-policy-default-posture",
                                      "restricted")
  BY <1>6, RunsPosture
<1> HIDE DEF q
<1>8. /\ DOMAIN q.containers = {1}
      /\ q.containers[1].env = TLSEnv(Manager.env, p)
      /\ q.containers[1].args
           = setFlagArg(Manager.args, "--network-policy-default-posture", "restricted")
  BY <1>5, <1>6, <1>7 DEF Runs
<1> QED BY <1>8 DEF q, b, a, r, Patched

\* What a pass resolved, and what it applied, is one resolution of a policy.
Resolution(tls) ==
    /\ tls # None
    /\ \E p \in Policies, answer \in Answers : tls = ResolveTLSConfig(answer, p)

SourceInv ==
    /\ pass # None => Resolution(pass)
    /\ operand # None => \E tls : Resolution(tls) /\ operand = Params(tls)

LEMMA SourceNext ==
    ASSUME WorldTyped, SourceInv, [Next]_vars
    PROVE  SourceInv'
<1>0. settings' = settings
  BY DEF Next, Process, Start, BootAttempt, BootExpired, Wire, WatcherFires,
         Crash, PassResolve, PassApply, CacheSync, EditPolicy, vars
<1>1. \A tls : Params(tls)' = Params(tls)
  BY <1>0 DEF Params
<1>2. CASE PassResolve
  <2>1. /\ \E answer \in Answers : pass' = ResolveTLSConfig(answer, cached)
        /\ cached \in Policies /\ operand' = operand
    BY <1>2 DEF PassResolve, WorldTyped
  <2> QED BY <1>0, <2>1 DEF SourceInv, Resolution, Params
<1>3. CASE PassApply
  <2>1. /\ pass # None /\ pass' = None
        /\ operand' = operand \/ operand' = Params(pass)
    BY <1>3 DEF PassApply
  <2> QED BY <1>0, <2>1 DEF SourceInv, Params
<1>4. CASE ~PassResolve /\ ~PassApply
  <2>1. operand' = operand /\ (pass' = pass \/ pass' = None)
    BY <1>4
    DEF Next, Process, Start, BootAttempt, BootExpired, Wire, WatcherFires,
        Crash, CacheSync, EditPolicy, Exit, Serve, passVars, vars
  <2> QED BY <1>0, <2>1 DEF SourceInv, Params
<1> QED BY <1>2, <1>3, <1>4

\* A resolution names a minimum version.
LEMMA ResolutionNamed ==
    ASSUME NEW tls, Resolution(tls)
    PROVE  tls.MinVersion # Unset
<1>1. PICK p \in Policies, answer \in Answers : tls = ResolveTLSConfig(answer, p)
  BY DEF Resolution
<1> DEFINE loaded == Load(answer, p)
           spec == Effective(loaded)
<1>2. tls # None
  BY DEF Resolution
<1>3. ~loaded.err /\ tls.MinVersion = spec.min
  BY <1>1, <1>2 DEF ResolveTLSConfig
<1>4. intermediateProfileSpec.min = "VersionTLS12"
  BY DEF intermediateProfileSpec
<1>5. loaded.spec = intermediateProfileSpec \/ Strict(loaded.spec)
  <2>1. CASE answer = "ok"
    BY <1>3, <2>1 DEF Load
  <2>2. CASE answer \in {"absent", "transient"}
    BY <2>2 DEF Load
  <2>3. CASE answer = "denied"
    BY <1>3, <2>3 DEF Load
  <2> QED BY <2>1, <2>2, <2>3 DEF Answers
<1> HIDE DEF loaded
<1>6. spec.min \in {"VersionTLS12", "VersionTLS13"}
  BY <1>4, <1>5 DEF Effective, Strict
<1> HIDE DEF spec
<1> QED BY <1>3, <1>6 DEF Unset

\* Manifests rendered from a resolution are coherent.
LEMMA CoherentFrom == SourceInv => ManagerCoherent
<1> SUFFICES ASSUME SourceInv, NEW q \in OfKind("Deployment"),
                    NEW k \in DOMAIN q.containers
             PROVE  LET env == q.containers[k].env
                        args == q.containers[k].args
                    IN  /\ \E p \in Policies, answer \in Answers :
                             LET tls == ResolveTLSConfig(answer, p)
                             IN  /\ tls # None
                                 /\ SetOnce(env, "TLS_MIN_VERSION", tls.MinVersion)
                                 /\ SetOnce(env, "TLS_CIPHER_SUITES",
                                            tls.CipherSuites)
                                 /\ SetOnce(env, "TLS_GROUPS", tls.Groups)
                        /\ SetOnce(env, "PROPAGATE_TLS_ENV_VARS", "true")
                        /\ SetOnce(env, "POD_NAMESPACE", "")
                        /\ SetOnce(env, "GOMEMLIMIT", "460MiB")
                        /\ FlagOnce(args, "--network-policy-default-posture",
                                    "restricted")
  BY DEF ManagerCoherent
<1> DEFINE ns == Target(operand)
           env == q.containers[k].env
           args == q.containers[k].args
           flag == "--network-policy-default-posture"
<1>1. q \in Applied /\ q.kind = "Deployment"
  BY DEF OfKind
<1>2. operand # None /\ q \in Manifests(operand)
  BY <1>1 DEF Applied
<1>3. PICK tls : Resolution(tls) /\ operand = Params(tls)
  BY <1>2 DEF SourceInv
<1>4. /\ operand.TLSMinVersion = tls.MinVersion
      /\ operand.TLSCipherSuites = tls.CipherSuites
      /\ operand.TLSGroups = tls.Groups
  BY <1>3 DEF Params
<1>5. operand.TLSMinVersion # Unset
  BY <1>3, <1>4, ResolutionNamed
<1>6. PICK r \in loadResources : q = Patched(Placed(r, ns), operand)
  BY <1>2, RenderedFacts
<1>7. r = Deployment
  <2>1. Shaped(r)
    BY BakedFacts
  <2>2. Shaped(Placed(r, ns)) /\ Placed(r, ns).kind = r.kind
    BY <2>1, PlacedFacts
  <2>3. q.kind = r.kind
    BY <1>6, <2>2, PatchedFacts DEF SameService
  <2> QED BY <1>1, <2>3, OneDeployment
<1>8. /\ DOMAIN q.containers = {1}
      /\ q.containers[1].env = TLSEnv(Manager.env, operand)
      /\ q.containers[1].args = setFlagArg(Manager.args, flag, "restricted")
  BY <1>5, <1>6, <1>7, DeploymentRendered
<1>9. env = TLSEnv(Manager.env, operand)
      /\ args = setFlagArg(Manager.args, flag, "restricted")
  BY <1>8
<1> HIDE DEF env, args
<1>10. PICK S : Manager.env \in Seq(S) /\ Manager.args \in Seq(S)
  BY ManagerFacts
<1>11. /\ SetOnce(env, "TLS_MIN_VERSION", operand.TLSMinVersion)
       /\ SetOnce(env, "TLS_CIPHER_SUITES", operand.TLSCipherSuites)
       /\ SetOnce(env, "TLS_GROUPS", operand.TLSGroups)
       /\ SetOnce(env, "PROPAGATE_TLS_ENV_VARS", "true")
       /\ \A n, v :
            /\ n \notin {"TLS_MIN_VERSION", "TLS_CIPHER_SUITES", "TLS_GROUPS",
                         "PROPAGATE_TLS_ENV_VARS"}
            /\ SetOnce(Manager.env, n, v)
            => SetOnce(env, n, v)
  BY <1>9, <1>10, ManagerFacts, TLSEnvFacts
<1>12. SetOnce(env, "POD_NAMESPACE", "") /\ SetOnce(env, "GOMEMLIMIT", "460MiB")
  BY <1>11, ManagerFacts
<1>13. FlagOnce(args, flag, "restricted")
  BY <1>9, <1>10, ManagerFacts, SetFlagArgFacts
<1>14. PICK p \in Policies, answer \in Answers : tls = ResolveTLSConfig(answer, p)
  BY <1>3 DEF Resolution
<1>15. tls # None
  BY <1>3 DEF Resolution
<1>16. /\ ResolveTLSConfig(answer, p) # None
       /\ SetOnce(env, "TLS_MIN_VERSION", ResolveTLSConfig(answer, p).MinVersion)
       /\ SetOnce(env, "TLS_CIPHER_SUITES", ResolveTLSConfig(answer, p).CipherSuites)
       /\ SetOnce(env, "TLS_GROUPS", ResolveTLSConfig(answer, p).Groups)
  BY <1>4, <1>11, <1>14, <1>15
<1> QED BY <1>11, <1>12, <1>13, <1>16 DEF env, args

\* For every set of policies, environment, retry count and fault, the applied
\* Deployment runs the manager with the TLS variables of one resolution, each
\* set once, keeps what the manifest sets, and has the restricted posture once
\* (injectTLSEnvVars, setEnvVar, injectNetworkPolicyPostureArg).
THEOREM ManagerAlwaysCoherent == Spec => []ManagerCoherent
<1>1. Init => WorldTyped /\ SourceInv
  <2>1. Init => SourceInv
    BY DEF Init, SourceInv
  <2> QED BY <2>1, PolicyInductive, PolicyParts
<1>2. WorldTyped /\ SourceInv /\ [Next]_vars => WorldTyped' /\ SourceInv'
  BY WorldTypedNext, SourceNext
<1> QED BY <1>1, <1>2, CoherentFrom, PTL DEF Spec

=============================================================================
