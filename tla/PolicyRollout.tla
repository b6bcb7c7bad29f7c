---------------------------- MODULE PolicyRollout ---------------------------
(***************************************************************************)
(* TLSPolicy and Rendering together: what is on the cluster after the last *)
(* apply of a pass, for every environment, policy and fault.               *)
(***************************************************************************)
EXTENDS TLSPolicy, Rendering

\* The applied manifests; none before the first apply.
Applied == IF operand = None THEN {} ELSE Manifests(operand)

OfKind(kind) == {r \in Applied : r.kind = kind}

\* A certificate that a client gets when it asks for the host.
CertifiedFor(host) ==
    /\ \E s \in OfKind("Service") : s.name = host.svc /\ s.ns = host.ns
    /\ \E c \in OfKind("Certificate") : c.ns = host.ns /\ host \in c.dnsNames

\* The conversion and validating webhooks work where the operand is placed:
\* the API server asks for a service that is there and whose certificate names
\* it, and the CA it trusts comes from the namespace of that certificate.
\* (rewriteCertManagerNamespace: stale references "mint a certificate with the
\* wrong SANs, so the conversion webhook fails TLS".)
WebhooksTrusted ==
    \A r \in Applied :
        /\ \A host \in r.service : CertifiedFor(host)
        /\ r.caFrom # "" => \E c \in OfKind("Certificate") :
                               c.name = "serving-cert" /\ c.ns = r.caFrom

\* The same for Prometheus, whose ServiceMonitor names the host it verifies.
\* (rewriteCertManagerNamespace lists the places where "the operand manifests
\* also embed the operand namespace" and "retargets them to toNS".)
ScrapesTrusted ==
    \A r \in Applied : \A host \in r.serverName : CertifiedFor(host)

\* An environment, or an argument list, holds one setting of that name, and it
\* has the value.
SetOnce(env, name, value) ==
    \E i \in DOMAIN env :
        /\ env[i].name = name /\ env[i].value = value
        /\ \A j \in DOMAIN env : env[j].name = name => j = i

FlagOnce(args, flag, value) ==
    \E i \in DOMAIN args :
        /\ args[i].flag = flag /\ args[i].value = value
        /\ \A j \in DOMAIN args : args[j].flag = flag => j = i

\* The operand runs with one coherent policy: each TLS variable once, all from
\* one resolution (TLS 1.3 never with cipher suites of another profile), what
\* the manifest sets itself kept, and the restricted posture once
\* (injectTLSEnvVars, injectNetworkPolicyPostureArg).
ManagerCoherent ==
    \A r \in OfKind("Deployment") : \A k \in DOMAIN r.containers :
        LET env == r.containers[k].env
            args == r.containers[k].args
        IN  /\ \E p \in Policies, answer \in Answers :
                    LET tls == ResolveTLSConfig(answer, p)
                    IN  /\ tls # None
                        /\ SetOnce(env, "TLS_MIN_VERSION", tls.MinVersion)
                        /\ SetOnce(env, "TLS_CIPHER_SUITES", tls.CipherSuites)
                        /\ SetOnce(env, "TLS_GROUPS", tls.Groups)
            /\ SetOnce(env, "PROPAGATE_TLS_ENV_VARS", "true")
            /\ SetOnce(env, "POD_NAMESPACE", "")
            /\ SetOnce(env, "GOMEMLIMIT", "460MiB")
            /\ FlagOnce(args, "--network-policy-default-posture", "restricted")

=============================================================================
