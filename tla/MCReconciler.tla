---------------------------- MODULE MCReconciler ----------------------------
(* Reconciler for TLC.                                                       *)
EXTENDS Reconciler

\* Two platform releases, the second one given by the older key only.
MCConfigMaps ==
    {[name |-> "ODH", version |-> "3.0", platformVersion |-> ""],
     [name |-> "RHOAI", version |-> "", platformVersion |-> "3.1"]}
\* No platform at all: a standalone operator.
NoPlatform == {NoData}

=============================================================================
