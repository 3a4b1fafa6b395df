------------------------------- MODULE Status -------------------------------
(***************************************************************************)
(* internal/controller/status.go: what a reconcile writes into the status  *)
(* of a Crossplane instance, and when it asks to be called again.          *)
(*                                                                         *)
(* Conditions are a function from condition types to "Absent", "True" and  *)
(* "False".  Reasons, messages and time stamps are left out.               *)
(***************************************************************************)
CONSTANT CondTypes       \* the condition types that can occur

CondStatus == {"Absent", "True", "False"}
Conditions == [CondTypes -> CondStatus]
Phases     == {"", "Progressing", "Ready", "Terminating"}
Requeues   == {"Unset", "NoRequeue", "Reset", "Backoff"}

NoConditions == [t \in CondTypes |-> "Absent"]

Has(conds, s) == \E t \in CondTypes : conds[t] = s

\* Mutants: a phase of its own for failing conditions; Ready only once every
\* condition that can occur has been reported.
ComputePhaseFailed(deleting, conds) ==
  IF deleting THEN "Terminating"
  ELSE IF Has(conds, "False") THEN "Failed"
  ELSE IF Has(conds, "True") THEN "Ready" ELSE "Progressing"
ComputePhaseAllReported(deleting, conds) ==
  IF deleting THEN "Terminating"
  ELSE IF Has(conds, "False") \/ Has(conds, "Absent") THEN "Progressing"
  ELSE "Ready"

\* Ready takes at least one condition and none that is not True.
ComputePhase(deleting, conds) ==
  IF deleting THEN "Terminating"
  ELSE IF Has(conds, "False") \/ ~ Has(conds, "True") THEN "Progressing"
  ELSE "Ready"

\* Mutant: no requeue once nothing is left to wait for.
SmartRequeueUntilReady(sr, conds) ==
  IF Has(conds, "False") THEN "Backoff" ELSE "NoRequeue"

\* What the handler asked for wins; else the persisted conditions decide.
SmartRequeueConditional(sr, conds) ==
  CASE sr # "Unset"                           -> sr
    [] sr = "Unset" /\ Has(conds, "False")    -> "Reset"
    [] sr = "Unset" /\ ~ Has(conds, "False")  -> "Backoff"

OverrideCondition(conds, t, s) == [conds EXCEPT ![t] = s]

\* WithConditionUpdater(false): a condition that this reconcile does not
\* report keeps the value of an earlier one.
MergeConditions(old, new) ==
  [t \in CondTypes |-> IF new[t] = "Absent" THEN old[t] ELSE new[t]]
=============================================================================
