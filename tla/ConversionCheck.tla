--------------------------- MODULE ConversionCheck --------------------------
(***************************************************************************)
(* checkConversionHealth: a paged LIST of the stored MCPServers at         *)
(* v1beta1, which makes the API server convert every object of a page.     *)
(* Objects come and go between two pages, the webhook breaks and heals,    *)
(* the API may not be served, and the token of the next page may have      *)
(* expired.  A call that does not find the conversion healthy is made      *)
(* again by the requeued pass.  Reconciler has the call as one step.       *)
(***************************************************************************)
EXTENDS Integers, FiniteSets

CONSTANTS
    Objects,     \* MCPServers that may be stored
    PageLimit,   \* conversionCheckPageLimit
    MaxRestarts, \* conversionCheckMaxRestarts
    MaxPages,    \* pages of a listing of all objects
    MaxChanges   \* bound: changes of the cluster and failing requests

ASSUME CheckAssumption ==
    /\ IsFiniteSet(Objects)
    /\ PageLimit \in Nat \ {0}
    /\ MaxRestarts \in Nat
    /\ MaxPages \in Nat \ {0}
    /\ Cardinality(Objects) <= MaxPages * PageLimit
    /\ MaxChanges \in Nat

\* Definitions whose name starts with Mut are plausible bugs in the definition
\* that follows them; the specification never uses them.

VARIABLES
    stored,      \* objects in etcd
    convertible, \* objects the webhook converts right now
    served,      \* mcpservers is served at v1beta1
    compacting,  \* etcd drops old revisions, and page tokens expire
    pc,          \* "idle" or "list"
    token,       \* continueToken: the rest of the listed snapshot, {} for ""
    restarts,
    verdict,     \* the last answer
    changes,
    calls,       \* LIST requests of this call (history)
    converted,   \* objects converted for this call (history)
    steady,      \* objects stored ever since the call began (history)
    okOnce       \* objects convertible at some moment of the call (history)

worldVars == <<stored, convertible, served, compacting>>
callVars == <<pc, token, restarts, verdict>>
historyVars == <<calls, converted, steady, okOnce>>
vars == <<worldVars, callVars, changes, historyVars>>

ServerTyped == served \in BOOLEAN /\ compacting \in BOOLEAN

CallTyped ==
    /\ pc \in {"idle", "list"}
    /\ verdict \in {"", "healthy", "pending", "failed"}
    /\ stored \subseteq Objects /\ convertible \subseteq Objects
    /\ token \subseteq Objects /\ converted \subseteq Objects
    /\ steady \subseteq Objects /\ okOnce \subseteq Objects

CountsTyped ==
    /\ restarts \in 0..MaxRestarts
    /\ changes \in 0..MaxChanges
    /\ calls \in Nat

\* Type correctness of checkConversionHealth, with its restarts within the cap
\* (proved in ConversionCheckProofs).
ConversionTypeOK == ServerTyped /\ CallTyped /\ CountsTyped

Init ==
    /\ stored \in SUBSET Objects
    /\ convertible \in {{}, Objects}
    /\ served \in BOOLEAN /\ compacting = FALSE
    /\ pc = "idle" /\ token = {} /\ restarts = 0 /\ verdict = ""
    /\ changes = 0
    /\ calls = 0 /\ converted = {} /\ steady = {} /\ okOnce = {}

-----------------------------------------------------------------------------
(* The call.                                                               *)

Change == changes < MaxChanges /\ changes' = changes + 1

MutBegin ==
    /\ pc = "idle" /\ verdict = ""
    /\ pc' = "list" /\ token' = {} /\ restarts' = 0
    /\ calls' = 0 /\ converted' = {} /\ steady' = stored
    /\ okOnce' = convertible
    /\ UNCHANGED <<worldVars, verdict, changes>>

\* checkConversionHealth is called while the handshake is not settled.
Begin ==
    /\ pc = "idle" /\ verdict # "healthy"
    /\ pc' = "list" /\ token' = {} /\ restarts' = 0
    /\ calls' = 0 /\ converted' = {} /\ steady' = stored
    /\ okOnce' = convertible
    /\ UNCHANGED <<worldVars, verdict, changes>>

\* The call returns, with a requeue unless the answer is "healthy".
Return(answer) ==
    /\ verdict' = answer /\ pc' = "idle"
    /\ token' = {} /\ restarts' = 0

\* What the API server lists: the snapshot a token names, or what is stored.
Snapshot == IF token = {} THEN stored ELSE token

\* The API server answers with the next PageLimit objects of the snapshot.
IsPage(page) ==
    /\ page \subseteq Snapshot
    /\ IF Cardinality(Snapshot) <= PageLimit THEN page = Snapshot
                                             ELSE Cardinality(page) = PageLimit

\* The continue token of an answer: empty after the last page.
Continue(page) == Snapshot \ page

\* A page arrives converted; the last one ends the loop.
Page(page) ==
    /\ converted' = converted \union page
    /\ token' = Continue(page)
    /\ IF token' = {}
       THEN verdict' = "healthy" /\ pc' = "idle" /\ restarts' = 0
       ELSE UNCHANGED <<pc, restarts, verdict>>

MutExpiredUncounted ==
    token' = {} /\ UNCHANGED <<pc, restarts, verdict, converted>>

MutExpiredDone == Return("healthy") /\ UNCHANGED converted

\* 410: restart from the first page, a bounded number of times.
Expired ==
    /\ IF restarts < MaxRestarts
       THEN restarts' = restarts + 1 /\ token' = {} /\ UNCHANGED <<pc, verdict>>
       ELSE Return("pending")
    /\ UNCHANGED converted

\* The answer is 404, or the client knows no such resource: the CRD or its
\* v1beta1 version is not there.
NotServed == ~served

\* One LIST and what the code makes of its answer: 404, 410, a page, or
\* any other error, be it the conversion's or the request's own.
List ==
    /\ pc = "list"
    /\ calls' = calls + 1
    /\ \/ /\ NotServed /\ Return("pending")
          /\ UNCHANGED <<changes, converted>>
       \/ /\ served /\ token # {} /\ compacting /\ Expired
          /\ UNCHANGED changes
       \/ \E page \in SUBSET Snapshot :
            /\ served /\ IsPage(page)
            /\ IF page \subseteq convertible
               THEN Page(page)
               ELSE Return("failed") /\ UNCHANGED converted
            /\ UNCHANGED changes
       \/ Change /\ Return("failed") /\ UNCHANGED converted
    /\ UNCHANGED <<worldVars, steady, okOnce>>

-----------------------------------------------------------------------------
(* The cluster, and the platform that asks for another version.            *)

Create(o) ==
    /\ o \notin stored /\ stored' = stored \union {o}
    /\ UNCHANGED <<convertible, served, compacting, steady, okOnce>>

Delete(o) ==
    /\ o \in stored /\ stored' = stored \ {o}
    /\ steady' = steady \ {o}
    /\ UNCHANGED <<convertible, served, compacting, okOnce>>

\* The webhook breaks or heals, for all objects or for some.
Webhook(objs) ==
    /\ objs # convertible /\ convertible' = objs
    /\ okOnce' = okOnce \union (objs \ convertible)
    /\ UNCHANGED <<stored, served, compacting, steady>>

Toggle ==
    /\ \/ served' = ~served /\ UNCHANGED compacting
       \/ compacting' = ~compacting /\ UNCHANGED served
    /\ UNCHANGED <<stored, convertible, steady, okOnce>>

World ==
    /\ Change
    /\ \/ \E o \in Objects : Create(o) \/ Delete(o)
       \/ \E objs \in SUBSET Objects : Webhook(objs)
       \/ Toggle
    /\ UNCHANGED <<callVars, calls, converted>>

\* The desired version moves ahead of the recorded one.
Reopen ==
    /\ Change
    /\ pc = "idle" /\ verdict = "healthy" /\ verdict' = ""
    /\ UNCHANGED <<worldVars, pc, token, restarts, historyVars>>

Next == Begin \/ List \/ World \/ Reopen

Spec == Init /\ [][Next]_vars

\* The requeued pass comes, and a call under way goes on.
FairSpec == Spec /\ WF_vars(Begin) /\ WF_vars(List)

-----------------------------------------------------------------------------
(* Properties.                                                             *)

\* "a single call always does bounded work regardless of how many MCPServers
\* are stored or how fast they churn": however often its tokens expire, a call
\* makes no more LIST requests than 1 + MaxRestarts full listings have.
BoundedWork == calls <= (MaxRestarts + 1) * MaxPages

Gate == INSTANCE ConversionGate
        WITH verdict <- IF pc = "list" THEN "busy" ELSE verdict

\* The paged check is the gate the handshake relies on: it passes only when
\* every object stored all through the call was convertible during it, across
\* pages, expired tokens and restarts.
ImplementsGate == Gate!GateSpec

\* The gate opens: once the API is served, every stored object convertible and
\* tokens stay valid for good, the requeued check ends up healthy.
GateOpens ==
    <>[](served /\ ~compacting /\ stored \subseteq convertible)
        => <>[](verdict = "healthy")

=============================================================================
