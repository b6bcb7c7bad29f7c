----------------------------- MODULE Conditions -----------------------------
(***************************************************************************)
(* The ConditionsManager of                                                *)
(* api/v1alpha1/mcplifecycleoperator_lifecycle.go: status.conditions as a  *)
(* function from condition types to conditions.  Messages, severities and  *)
(* transition times are left out; no caller sets a severity, so a False    *)
(* feature condition always counts as failing.                             *)
(***************************************************************************)
EXTENDS Integers

\* Short names: Available is MCPLifecycleOperatorAvailable, Provisioning is
\* ProvisioningSucceeded, Verified is MCPServerConversionVerified, Migrated
\* is MCPServerStorageMigrated.
CondTypes == {"Available", "Ready", "Provisioning", "Degraded",
              "Verified", "Migrated"}

FeatureTypes == {"Available"}

AbsentCondition == [status |-> "Absent", reason |-> "None", gen |-> 0]

EmptyConditions == [t \in CondTypes |-> AbsentCondition]

\* SetStatusCondition of the library: the condition of that type is replaced.
SetCondition(conds, gen, t, s, r) ==
    [conds EXCEPT ![t] = [status |-> s, reason |-> r, gen |-> gen]]

MarkTrueWithReason(conds, gen, t, r) == SetCondition(conds, gen, t, "True", r)

MarkTrue(conds, gen, t) == MarkTrueWithReason(conds, gen, t, "Available")

MarkFalse(conds, gen, t, r) == SetCondition(conds, gen, t, "False", r)

MarkUnknown(conds, gen, t) == SetCondition(conds, gen, t, "Unknown", "Progressing")

IsTrue(conds, t) == conds[t].status = "True"

\* Provisioning, Ready and Degraded from the feature conditions; the
\* Verified and Migrated conditions are excluded.
AggregateReady(conds, gen) ==
    LET failed  == MarkFalse(MarkFalse(MarkFalse(conds,
                       gen, "Provisioning", "OperandDeploymentFailed"),
                       gen, "Ready", "OperandDeploymentFailed"),
                       gen, "Degraded", "NotDegraded")
        some(s) == \E t \in FeatureTypes : conds[t].status = s
        okay    == MarkTrue(conds, gen, "Provisioning")
        healthy(c) == MarkFalse(c, gen, "Degraded", "NotDegraded")
    IN  IF ~IsTrue(conds, "Available") THEN failed
        ELSE IF some("False")
          THEN MarkTrue(MarkTrue(okay, gen, "Ready"), gen, "Degraded")
        ELSE IF some("Unknown") THEN healthy(MarkUnknown(okay, gen, "Ready"))
        ELSE healthy(MarkTrue(okay, gen, "Ready"))

MutPhase(conds) == conds["Ready"].status
Phase(conds) == IF IsTrue(conds, "Ready") THEN "Ready" ELSE "NotReady"

=============================================================================
