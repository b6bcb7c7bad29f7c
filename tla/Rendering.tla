------------------------------ MODULE Rendering -----------------------------
(***************************************************************************)
(* KustomizeProvider.Manifests: the operand's embedded manifests, patched  *)
(* for the namespace, image and TLS policy of this cluster.  A resource is *)
(* what the transformers and the checks tell apart.  A DNS name is the     *)
(* service and the namespace in it, an argument a flag and its value.      *)
(* Resources that hold nothing but their own namespace are left out.       *)
(***************************************************************************)
EXTENDS SequencesExt

DefaultOperandNamespace == "mcp-lifecycle-operator-system"
ServiceName == "mcplifecycleoperator"

\* Definitions whose name starts with Mut are plausible bugs in the definition
\* that follows them; the specification never uses them.

-----------------------------------------------------------------------------
(* The embedded file, resources/mcp-lifecycle-operator.yaml.               *)

Host(svc, ns) == [svc |-> svc, ns |-> ns]

\* A resource with none of the optional fields: its namespace ("" for a
\* cluster-scoped one), label, the namespace of the annotation inject-ca-from,
\* the hosts that clientConfig.service or serverName make clients ask for, a
\* Certificate's dnsNames, and a Deployment's containers.
Resource(kind, name, ns) ==
    [kind |-> kind, name |-> name, ns |-> ns, partOf |-> "", caFrom |-> "",
     service |-> {}, serverName |-> {}, dnsNames |-> {}, containers |-> <<>>]

Baked == DefaultOperandNamespace

Manager ==
    [name |-> "manager", image |-> "pinned",
     env |-> <<[name |-> "POD_NAMESPACE", value |-> "", valueFrom |-> TRUE],
               [name |-> "GOMEMLIMIT", value |-> "460MiB", valueFrom |-> FALSE]>>,
     args |-> <<[flag |-> "--leader-elect", value |-> ""],
                [flag |-> "--enable-webhook", value |-> ""]>>]

Deployment ==
    [Resource("Deployment", "controller-manager", Baked)
        EXCEPT !.containers = <<Manager>>]

Services ==
    {Resource("Service", svc, Baked) : svc \in {"metrics-service", "webhook-service"}}

Certificates ==
    {[Resource("Certificate", "serving-cert", Baked)
        EXCEPT !.dnsNames = {Host("webhook-service", Baked)}],
     [Resource("Certificate", "metrics-certs", Baked)
        EXCEPT !.dnsNames = {Host("metrics-service", Baked)}]}

ServiceMonitor ==
    [Resource("ServiceMonitor", "metrics-monitor", Baked)
        EXCEPT !.serverName = {Host("metrics-service", Baked)}]

\* The CRD with the conversion webhook, the one without, and the validating
\* webhook.
WebhookClients ==
    {[Resource("CustomResourceDefinition", "mcpservers", "")
        EXCEPT !.caFrom = Baked, !.service = {Host("webhook-service", Baked)}],
     [Resource("CustomResourceDefinition", "mcpgatewaybindings", "")
        EXCEPT !.caFrom = Baked],
     [Resource("ValidatingWebhookConfiguration", "validating-webhook", "")
        EXCEPT !.caFrom = Baked, !.service = {Host("webhook-service", Baked)}]}

loadResources ==
    {Deployment, ServiceMonitor} \union Services \union Certificates
        \union WebhookClients

-----------------------------------------------------------------------------
(* The transformers.                                                       *)

injectLabels(r) == [r EXCEPT !.partOf = ServiceName]

\* manifestival.InjectNamespace (external): metadata.namespace and the
\* services of webhooks and of CRD conversions.
InjectNamespace(r, ns) ==
    [r EXCEPT !.ns = IF @ = "" THEN "" ELSE ns,
              !.service = {Host(h.svc, ns) : h \in @}]

MutrewriteCertManagerNamespace(r, fromNS, toNS) ==
    IF r.caFrom = fromNS THEN [r EXCEPT !.caFrom = toNS] ELSE r

\* The annotation inject-ca-from, and a Certificate's dnsNames.
rewriteCertManagerNamespace(r, fromNS, toNS) ==
    IF fromNS = toNS \/ fromNS = "" THEN r
    ELSE [r EXCEPT !.caFrom = IF @ = fromNS THEN toNS ELSE @,
                   !.dnsNames = IF r.kind # "Certificate" THEN @
                                ELSE {IF h.ns = fromNS THEN Host(h.svc, toNS) ELSE h :
                                        h \in @}]

IsManager(c) == c.name = "manager"

\* A Deployment without a manager container makes every patch of it fail.
NoManager(r) ==
    r.kind = "Deployment" /\ SelectInSeq(r.containers, IsManager) = 0

\* fn is applied to the containers named manager of a Deployment.
withManagerContainer(r, fn(_)) ==
    IF r.kind # "Deployment" THEN r
    ELSE [r EXCEPT !.containers =
            [k \in DOMAIN @ |-> IF IsManager(@[k]) THEN fn(@[k]) ELSE @[k]]]

replaceImage(r, image) ==
    IF image = "" THEN r
    ELSE withManagerContainer(r, LAMBDA c : [c EXCEPT !.image = image])

\* The first variable of that name gets the value, or a new one is appended.
setEnvVar(env, name, value) ==
    LET k == SelectInSeq(env, LAMBDA e : e.name = name)
        new == [name |-> name, value |-> value, valueFrom |-> FALSE]
    IN  IF k = 0 THEN Append(env, new) ELSE [env EXCEPT ![k] = new]

MutinjectTLSEnvVars(r, p) ==
    LET Env1(env) == setEnvVar(env, "TLS_MIN_VERSION", p.TLSMinVersion)
        Env2(env) == IF p.TLSCipherSuites = {} THEN env
                     ELSE setEnvVar(env, "TLS_CIPHER_SUITES", p.TLSCipherSuites)
        Env3(env) == setEnvVar(env, "TLS_GROUPS", p.TLSGroups)
        Env4(env) == setEnvVar(env, "PROPAGATE_TLS_ENV_VARS", "true")
    IN  withManagerContainer(r,
            LAMBDA c : [c EXCEPT !.env = Env4(Env3(Env2(Env1(@))))])

injectTLSEnvVars(r, p) ==
    LET Env1(env) == setEnvVar(env, "TLS_MIN_VERSION", p.TLSMinVersion)
        Env2(env) == setEnvVar(env, "TLS_CIPHER_SUITES", p.TLSCipherSuites)
        Env3(env) == setEnvVar(env, "TLS_GROUPS", p.TLSGroups)
        Env4(env) == setEnvVar(env, "PROPAGATE_TLS_ENV_VARS", "true")
    IN  IF p.TLSMinVersion = "" /\ p.TLSCipherSuites = {} /\ p.TLSGroups = <<>>
        THEN r
        ELSE withManagerContainer(r,
                LAMBDA c : [c EXCEPT !.env = Env4(Env3(Env2(Env1(@))))])

setFlagArg(args, flag, value) ==
    LET k == SelectInSeq(args, LAMBDA a : a.flag = flag)
        want == [flag |-> flag, value |-> value]
    IN  IF k = 0 THEN Append(args, want) ELSE [args EXCEPT ![k] = want]

injectNetworkPolicyPostureArg(r, posture) ==
    IF posture = "" THEN r
    ELSE withManagerContainer(r, LAMBDA c :
        [c EXCEPT !.args = setFlagArg(@, "--network-policy-default-posture", posture)])

RenderFailed == {}

\* Manifests: every resource through every transformer, in this order.
Manifests(p) ==
    LET target == IF p.OperandNamespace = "" THEN DefaultOperandNamespace
                  ELSE p.OperandNamespace
        Placed(r) == rewriteCertManagerNamespace(InjectNamespace(injectLabels(r), target),
                                                 DefaultOperandNamespace, target)
        Patched(r) == injectNetworkPolicyPostureArg(
                          injectTLSEnvVars(replaceImage(r, p.OperandImage), p),
                          "restricted")
    IN  IF \E r \in loadResources : NoManager(r) THEN RenderFailed
        ELSE {Patched(Placed(r)) : r \in loadResources}

=============================================================================
