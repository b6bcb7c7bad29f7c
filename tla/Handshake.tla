----------------------------- MODULE Handshake ------------------------------
(***************************************************************************)
(* What the platform operator relies on when it compares the version in    *)
(* its ConfigMap with the versions in the status to see that an upgrade is *)
(* complete.  The controller takes up the version asked for, verifies the  *)
(* stored objects for it, and only then may the status move to it.         *)
(***************************************************************************)
VARIABLES
    desired,     \* the version the platform config asks for
    convertible, \* does a LIST convert every stored object?
    target,      \* the version the controller works towards, or ""
    version,     \* the version in status.distribution
    release,     \* the platform's version in status.releases
    marker,      \* the status says that the conversion was verified
    verified,    \* versions verified, or there before the controller
    listed       \* the controller has verified the stored objects itself

statusVars == <<version, release, marker>>
handshakeVars == <<desired, convertible, target, statusVars, verified, listed>>

\* The status may come from an earlier controller that verified nothing.
HandshakeInit ==
    /\ target = ""
    /\ verified = {"", version} /\ release \in verified
    /\ marker = FALSE /\ listed = FALSE

\* A pass begins; it may fail to read what is asked for.
Ask ==
    /\ target' \in {desired, ""}
    /\ UNCHANGED <<desired, convertible, statusVars, verified, listed>>

Verified ==
    /\ convertible
    /\ listed' = TRUE /\ verified' = verified \union {target}
    /\ UNCHANGED <<desired, convertible, target, statusVars>>

\* A pass ends.  The distribution stays, or moves to what the pass verified,
\* or found verified.  The release is one verified earlier or now: a pass that
\* read a stale status may take it back.
Publish ==
    /\ \/ version' = version
       \/ version' = target /\ target # "" /\ listed
    /\ version' \in verified /\ release' \in verified
    /\ marker' => listed
    /\ target' = ""
    /\ UNCHANGED <<desired, convertible, verified, listed>>

\* The resource is deleted, and its status with it.
Forget ==
    /\ version' = "" /\ release' = "" /\ marker' = FALSE
    /\ UNCHANGED <<desired, convertible, target, verified, listed>>

\* The platform and the cluster change, or the controller starts again.
Outside ==
    /\ target' \in {target, ""}
    /\ UNCHANGED <<statusVars, verified, listed>>

HandshakeNext == Ask \/ Verified \/ Publish \/ Forget \/ Outside

HandshakeSpec == HandshakeInit /\ [][HandshakeNext]_handshakeVars

=============================================================================
