------------------------------ MODULE TLSPolicy -----------------------------
(***************************************************************************)
(* The cluster's TLS policy (the APIServer resource "cluster"), and the    *)
(* two places it has to reach: the metrics listener of the operator, set   *)
(* up once per process, and the operand's environment, set by every pass.  *)
(* The process resolves the policy before it has a manager, with retries   *)
(* and a deadline, starts a watcher that ends the process when the policy  *)
(* is not the one it started from, and is started again by the kubelet.    *)
(***************************************************************************)
EXTENDS Integers, Sequences

CONSTANTS
    Policies,      \* policies an administrator may set
    UsableCiphers, \* cipher suites the Go runtime can use
    UsableGroups,  \* and TLS groups
    Settings,      \* environments: SYSTEM_NAMESPACE and the operand's image
    Steps,         \* metricsRetryBackoff.Steps
    MaxEdits,      \* bound: changes of the policy
    MaxFaults      \* bound: failing calls, crashes and expired deadlines

ASSUME TLSAssumption ==
    /\ Policies \subseteq
          [spec : [min : STRING, ciphers : SUBSET STRING, groups : Seq(STRING)],
           adherence : STRING]
    /\ Steps \in Nat \ {0} /\ MaxEdits \in Nat /\ MaxFaults \in Nat

\* Definitions whose name starts with Mut are plausible bugs in the definition
\* that follows them; the specification never uses them.

VARIABLES
    served,    \* the cluster has the APIServer API
    policy,    \* the profile and adherence it holds
    cached,    \* the informer's copy
    settings,  \* the process's environment
    proc,      \* "down", "boot", "wired" or "up"
    attempts,  \* reads of this start
    resolved,  \* what the last of them resolved to
    expired,   \* the deadline of this start has passed
    listener,  \* the profile the metrics listener serves
    watcher,   \* what the SecurityProfileWatcher compares with
    apiWatch,  \* the controller watches APIServer
    due,       \* a pass is due
    pass,      \* what the running pass resolved
    operand,   \* the parameters of the applied manifests
    edits, faults,
    answers    \* answers this start has had (history)

worldVars == <<served, policy, edits>>
bootVars == <<proc, attempts, resolved, expired, answers>>
serveVars == <<listener, watcher, apiWatch>>
passVars == <<due, pass>>
vars == <<worldVars, cached, settings, bootVars, serveVars, passVars, operand,
          faults>>

None == [none |-> TRUE]

-----------------------------------------------------------------------------
(* Resolving a policy.  A policy is [spec, adherence], a spec is           *)
(* [min, ciphers, groups].                                                 *)

\* The Intermediate profile, the hardened default.
intermediateProfileSpec ==
    [min |-> "VersionTLS12", ciphers |-> UsableCiphers, groups |-> <<>>]

\* ConfigFromProfileStrict and the framework's own check (external): a known
\* minimum, and below TLS 1.3 a cipher suite that can be used.
Strict(spec) ==
    /\ spec.min \in {"VersionTLS12", "VersionTLS13"}
    /\ spec.min = "VersionTLS13" \/ spec.ciphers \intersect UsableCiphers # {}

\* ShouldHonorClusterTLSProfile (external).
Honors(adherence) == adherence \notin {"", "Legacy"}

\* LoadWithAdherence (external), by the answer to its read: the policy; the
\* default when the API or the object is missing, or the read failed
\* transiently; an error when it was denied or the profile is not valid.
Load(answer, p) ==
    CASE answer = "ok" ->
            [err |-> ~Strict(p.spec), spec |-> p.spec, adherence |-> p.adherence,
             usedFallback |-> FALSE, watchable |-> TRUE]
      [] answer \in {"absent", "transient"} ->
            [err |-> FALSE, spec |-> intermediateProfileSpec, adherence |-> "",
             usedFallback |-> TRUE, watchable |-> answer = "transient"]
      [] OTHER ->
            [err |-> TRUE, spec |-> intermediateProfileSpec, adherence |-> "",
             usedFallback |-> FALSE, watchable |-> FALSE]

\* The groups of a profile that can be used, in its order.
tlsGroupNamesFromSpec(spec) ==
    SelectSeq(spec.groups, LAMBDA g : g \in UsableGroups)

\* A profile that names groups, and none that can be used, is rejected.
GroupsRejected(spec) ==
    spec.groups # <<>> /\ tlsGroupNamesFromSpec(spec) = <<>>

\* A policy that does not ask for adherence keeps the hardened default.
Effective(loaded) ==
    IF Honors(loaded.adherence) THEN loaded.spec ELSE intermediateProfileSpec

\* CipherSuitesFromSpec (external), and none for TLS 1.3.
Suites(spec) ==
    IF spec.min = "VersionTLS13" THEN {} ELSE spec.ciphers \intersect UsableCiphers

\* What ResolveTLSConfig returns; None is an error.
ResolveTLSConfig(answer, p) ==
    LET loaded == Load(answer, p)
        spec == Effective(loaded)
    IN  IF loaded.err \/ GroupsRejected(spec) THEN None
        ELSE [MinVersion |-> spec.min,
              CipherSuites |-> Suites(spec),
              Groups |-> tlsGroupNamesFromSpec(spec),
              UsedTransientFallback |-> loaded.usedFallback /\ loaded.watchable,
              ProfileSpec |-> loaded.spec,
              EffectiveSpec |-> spec,
              Adherence |-> loaded.adherence,
              APIAvailable |-> loaded.watchable]

\* The manifest parameters of a pass.
Params(tls) ==
    [OperandNamespace |-> settings.namespace,
     OperandImage |-> settings.image,
     TLSMinVersion |-> tls.MinVersion,
     TLSCipherSuites |-> tls.CipherSuites,
     TLSGroups |-> tls.Groups]

-----------------------------------------------------------------------------
Fault == faults < MaxFaults /\ faults' = faults + 1

NoFault == UNCHANGED faults

Init ==
    /\ served \in BOOLEAN /\ policy \in Policies /\ cached = policy
    /\ settings \in Settings
    /\ proc = "down" /\ attempts = 0 /\ resolved = None /\ expired = FALSE
    /\ listener = None /\ watcher = None /\ apiWatch = FALSE
    /\ due = FALSE /\ pass = None /\ operand = None
    /\ edits = 0 /\ faults = 0 /\ answers = {}

\* How a read of the APIServer resource ends.
Answer(answer) ==
    \/ answer = (IF served THEN "ok" ELSE "absent") /\ NoFault
    \/ answer \in {"transient", "denied"} /\ Fault

Answers == {"ok", "absent", "transient", "denied"}

(* The process: bootstrap, set-up, watcher, end.                           *)

\* The kubelet starts the container.
Start ==
    /\ proc = "down" /\ proc' = "boot"
    /\ attempts' = 0 /\ resolved' = None /\ expired' = FALSE /\ answers' = {}
    /\ UNCHANGED <<worldVars, cached, settings, serveVars, passVars, operand,
                   faults>>

\* The process ends: exit(1), or mgr.Start returned.
Exit ==
    /\ proc' = "down"
    /\ listener' = None /\ watcher' = None /\ apiWatch' = FALSE
    /\ due' = FALSE /\ pass' = None

MutSeed(tls) ==
    IF tls.APIAvailable
    THEN [spec |-> tls.EffectiveSpec, adherence |-> tls.Adherence] ELSE None

\* What the watcher is seeded with: the raw policy the listener was built
\* from, or no watcher at all where the API is missing.
Seed(tls) ==
    IF tls.APIAvailable
    THEN [spec |-> tls.ProfileSpec, adherence |-> tls.Adherence] ELSE None

\* metricsOptionsFromResolved and the end of the bootstrap.
Serve(tls) ==
    IF Strict(tls.EffectiveSpec)
    THEN /\ proc' = "wired"
         /\ listener' = tls.EffectiveSpec /\ watcher' = Seed(tls)
         /\ UNCHANGED <<apiWatch, passVars>>
    ELSE Exit

MutSettledBy(tls, n) == TRUE

MutSettledLate(tls, n) == ~tls.UsedTransientFallback \/ n > Steps

\* The backoff loop is over: not a transient fallback, or no step is left.
SettledBy(tls, n) == ~tls.UsedTransientFallback \/ n = Steps

\* One read of the retry loop of resolveMetricsTLSConfig.
BootAttempt ==
    /\ proc = "boot"
    /\ \E answer \in Answers :
         /\ Answer(answer)
         /\ answers' = answers \union {answer}
         /\ attempts' = attempts + 1
         /\ LET tls == ResolveTLSConfig(answer, policy) IN
            /\ resolved' = tls
            /\ IF tls = None THEN Exit
               ELSE IF SettledBy(tls, attempts + 1) THEN Serve(tls)
               ELSE UNCHANGED <<proc, serveVars, passVars>>
    /\ UNCHANGED <<worldVars, cached, settings, expired, operand>>

\* The deadline passes during the backoff: before the first answer that is an
\* error; after it the fallback of the last attempt is taken.
BootExpired ==
    /\ proc = "boot" /\ Fault
    /\ expired' = TRUE
    /\ IF resolved = None THEN Exit ELSE Serve(resolved)
    /\ UNCHANGED <<worldVars, cached, settings, attempts, resolved, operand,
                   answers>>

\* SetupWithManager and mgr.Start: APIServer is watched where the API is
\* served by now; the informers list, and the resource is queued.
Wire ==
    /\ proc = "wired" /\ proc' = "up"
    /\ apiWatch' = served
    /\ cached' = policy /\ due' = TRUE
    /\ UNCHANGED <<worldVars, settings, attempts, resolved, expired, answers,
                   listener, watcher, pass, operand, faults>>

\* OnProfileChange, OnAdherencePolicyChange: cancel() ends the process.
WatcherFires ==
    /\ proc = "up" /\ watcher # None /\ cached # watcher
    /\ Exit
    /\ UNCHANGED <<worldVars, cached, settings, attempts, resolved, expired,
                   answers, operand, faults>>

Crash ==
    /\ proc # "down" /\ Fault /\ Exit
    /\ UNCHANGED <<worldVars, cached, settings, attempts, resolved, expired,
                   answers, operand>>

(* A pass: resolve through the cache, then render and apply.               *)

PassResolve ==
    /\ proc = "up" /\ due /\ pass = None
    /\ \E answer \in Answers :
         /\ Answer(answer)
         /\ pass' = ResolveTLSConfig(answer, cached)
         /\ due' = (pass' = None)
    /\ UNCHANGED <<worldVars, cached, settings, bootVars, serveVars, operand>>

MutAgain(tls) == FALSE

\* A pass that used the fallback asks for another one.
Again(tls) == tls.UsedTransientFallback

\* The rest of the pass.  When it fails, what it renders may be applied or not.
PassApply ==
    /\ proc = "up" /\ pass # None
    /\ \/ operand' = Params(pass) /\ due' = (due \/ Again(pass)) /\ NoFault
       \/ operand' \in {operand, Params(pass)} /\ due' = TRUE /\ Fault
    /\ pass' = None
    /\ UNCHANGED <<worldVars, cached, settings, bootVars, serveVars>>

(* The cluster.                                                            *)

\* The informer catches up; its event queues a pass if APIServer is watched.
CacheSync ==
    /\ proc = "up" /\ cached # policy /\ cached' = policy
    /\ due' = (due \/ apiWatch)
    /\ UNCHANGED <<worldVars, settings, bootVars, serveVars, pass, operand, faults>>

\* An administrator changes the policy, or the API is installed.
EditPolicy ==
    /\ edits < MaxEdits /\ edits' = edits + 1
    /\ \/ policy' \in Policies \ {policy} /\ UNCHANGED served
       \/ ~served /\ served' = TRUE /\ UNCHANGED policy
    /\ UNCHANGED <<cached, settings, bootVars, serveVars, passVars, operand, faults>>

Process == Start \/ BootAttempt \/ BootExpired \/ Wire \/ WatcherFires \/ Crash

Next == Process \/ PassResolve \/ PassApply \/ CacheSync \/ EditPolicy

Spec == Init /\ [][Next]_vars

\* The kubelet restarts the container, the process goes on, the informer
\* delivers, the work queue hands out what is due.
Fairness ==
    /\ WF_vars(Start) /\ WF_vars(BootAttempt) /\ WF_vars(Wire)
    /\ WF_vars(WatcherFires) /\ WF_vars(CacheSync)
    /\ WF_vars(PassResolve) /\ WF_vars(PassApply)

FairSpec == Spec /\ Fairness

-----------------------------------------------------------------------------
(* Properties.                                                             *)

PolicyTypeOK ==
    /\ served \in BOOLEAN /\ policy \in Policies /\ cached \in Policies
    /\ settings \in Settings
    /\ proc \in {"down", "boot", "wired", "up"}
    /\ attempts \in 0..Steps /\ expired \in BOOLEAN
    /\ apiWatch \in BOOLEAN /\ due \in BOOLEAN
    /\ edits \in 0..MaxEdits /\ faults \in 0..MaxFaults
    /\ answers \subseteq Answers
    /\ listener # None <=> proc \in {"wired", "up"}
    /\ pass # None => proc = "up"

\* "Persistent transient failures return the Intermediate fallback ...;
\* non-transient errors fail closed": a listener that serves was never denied
\* its policy, and one that serves the fallback of a transient failure has had
\* no other answer and has used every retry, or the whole deadline.
FailClosed ==
    proc \in {"wired", "up"} =>
        /\ "denied" \notin answers
        /\ resolved.UsedTransientFallback =>
              answers = {"transient"} /\ (attempts = Steps \/ expired)

\* A policy the process can start from.
Usable(p) == ResolveTLSConfig("ok", p) # None

\* The listener follows the policy: when a usable policy stays for good, the
\* process ends up running for good, and with a watcher its listener serves
\* that policy, also when the policy changed between the bootstrap's read and
\* the watcher's first look, when the start had to fall back, and when the
\* process could not start under an earlier policy.
ListenerFollows ==
    \A p \in Policies :
        Usable(p) => (<>[](policy = p) =>
            <>[](proc = "up"
                 /\ (watcher # None =>
                        listener = ResolveTLSConfig("ok", p).EffectiveSpec)))

\* The operand follows the policy: when a usable policy stays and the
\* controller watches it, the last applied manifests carry it, whatever failed
\* or changed during a pass and whatever fallback a pass applied.
OperandFollows ==
    \A p \in Policies :
        Usable(p) => (<>[](policy = p /\ (proc = "up" => apiWatch)) =>
            <>[](operand = Params(ResolveTLSConfig("ok", p))))

=============================================================================
