--------------------------- MODULE ConversionGate ---------------------------
(***************************************************************************)
(* What checkConversionHealth promises to the platform-version handshake,  *)
(* as one step: an answer, and "healthy" only when every MCPServer that    *)
(* was stored all through the call was convertible at some moment of it.   *)
(* (Not all of them at one moment: the pages are converted one after the   *)
(* other.)                                                                 *)
(***************************************************************************)
VARIABLES
    stored,      \* MCPServers in etcd
    convertible, \* objects the conversion webhook converts right now
    verdict,     \* "" before an answer, "busy" during a call
    steady,      \* objects stored ever since the call began
    okOnce       \* objects convertible at some moment since the call began

gateVars == <<stored, convertible, verdict, steady, okOnce>>

GateInit == verdict = "" /\ steady = {} /\ okOnce = {}

GateBegin ==
    /\ verdict # "busy" /\ verdict' = "busy"
    /\ steady' = stored /\ okOnce' = convertible
    /\ UNCHANGED <<stored, convertible>>

\* The cluster changes, also under a call.
GateWorld ==
    /\ steady' = steady \intersect stored'
    /\ okOnce' = okOnce \union (convertible' \ convertible)
    /\ UNCHANGED verdict

GateReturn ==
    /\ verdict = "busy"
    /\ \/ verdict' = "healthy" /\ steady \subseteq okOnce
       \/ verdict' \in {"pending", "failed"}
    /\ UNCHANGED <<stored, convertible, steady, okOnce>>

\* The desired version moves on: the answer is not valid any more.
GateReopen ==
    /\ verdict = "healthy" /\ verdict' = ""
    /\ UNCHANGED <<stored, convertible, steady, okOnce>>

GateNext == GateBegin \/ GateWorld \/ GateReturn \/ GateReopen

GateSpec == GateInit /\ [][GateNext]_gateVars

=============================================================================
