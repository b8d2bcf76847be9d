--------------------------- MODULE RemediationPlans ---------------------------
(***************************************************************************)
(* The plans determineExecutionPlan can return, with the approval status   *)
(* of the candidate: a plan that waits for a human, one the guardrails     *)
(* block, and the three that may run.  A plan is gated when the guardrails *)
(* or the human-in-the-loop switch hold it back.  Module RemediationTable  *)
(* routes a finding with any of these; module RemediationPolicy computes   *)
(* the plan of a finding, and shows that it is one of these.               *)
(***************************************************************************)
Plan(mode, execution, action, approval, gate) ==
  [mode |-> mode, execution |-> execution, action |-> action,
   approval |-> approval, gated |-> gate]

WaitingPlan(approval) == Plan("manual", "pending", "proposed", approval, TRUE)
WaitingPlans == {WaitingPlan(ap) : ap \in {"pending", "not_required"}}
BlockedPlan == Plan("manual", "cancelled", "proposed", "not_required", TRUE)
AutomaticPlan == Plan("automatic", "queued", "approved", "not_required", FALSE)
SemiAutomaticPlan ==
  Plan("semi_automatic", "approved", "approved", "not_required", FALSE)
ManualPlan == Plan("manual", "approved", "approved", "not_required", FALSE)

Plans ==
  WaitingPlans \cup {BlockedPlan, AutomaticPlan, SemiAutomaticPlan, ManualPlan}
=============================================================================
