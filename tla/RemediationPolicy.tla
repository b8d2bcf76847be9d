--------------------------- MODULE RemediationPolicy ---------------------------
(***************************************************************************)
(* How a finding of the scan workflow comes to its remediation plan: the   *)
(* decision of the policy engine (decisionEngine.ts, by an OPA server or   *)
(* by the rules in the repository), the choice of an action and the plan   *)
(* (remediationAgent.ts), behind two layers of guardrails (guardrails.ts   *)
(* and core/safety/remediationGuardrails.ts).                              *)
(*                                                                         *)
(* A finding is what the rules can tell apart of it.  Its text, category   *)
(* and title together, is the set of the words and phrases that occur in   *)
(* it and that some rule looks for.  Severity info is treated as low by    *)
(* every rule and left out.                                                *)
(***************************************************************************)
EXTENDS Integers, RemediationPlans

CONSTANTS
  Texts   \* the sets of words a finding's text may mention

Words == {"port", "network", "vlan", "config", "quarantine", "firewall", "acl",
          "opa bundle", "policy", "deploy", "disable account", "delete"}

ASSUME TextsAssumption == Texts \subseteq SUBSET Words

VARIABLES
  finding,      \* what the scan found, as DecisionInput and candidate hold it
  stage,        \* how far the workflow is with the finding
  decidedBy,    \* the provider whose answer is stored
  decision,     \* decision_result of the finding
  environment,  \* the deployment the worker runs in when it routes
  humanInLoop,  \* REMEDIATION_HUMAN_IN_THE_LOOP when it routes
  plan          \* the plan the finding's remediation action is routed with

vars == <<finding, stage, decidedBy, decision, environment, humanInLoop,
          plan>>

Severity == {"low", "medium", "high", "critical"}
DecisionAction == {"allow", "monitor_only", "request_risk_acceptance",
                   "create_remediation", "auto_remediate", "escalate", "block"}
Environment == {"production", "staging", "simulation", "demo"}
Provider == {"opa", "rules"}

\* public: exposure is internet or external.  safeTarget: an image or a
\* manifest.  regulated and health: a supported framework, HIPAA.  documented:
\* a compliance impact of moderate or more.  settled: resolved or accepted.
Finding == [severity : Severity, public : BOOLEAN, safeTarget : BOOLEAN,
            text : Texts, regulated : BOOLEAN, health : BOOLEAN,
            documented : BOOLEAN, settled : BOOLEAN]

\* What scan-tenant.ts can build: a new finding is open and carries no
\* compliance impact, health words are a sign of the framework HIPAA, and
\* inferExposure knows the exposure of hosts and addresses alone.  The other
\* findings come from POST /api/policy/simulate, which only decides.
FromScan(f) ==
  /\ ~f.settled
  /\ ~f.documented
  /\ f.health => f.regulated
  /\ f.safeTarget => ~f.public

Decision == [action : DecisionAction, requiresApproval : BOOLEAN,
             autoRemediationAllowed : BOOLEAN]

-----------------------------------------------------------------------------
(* The rules of the decision engine, in their order.  Each takes the       *)
(* decision so far and returns the next.                                   *)

Strength == [allow |-> 0, monitor_only |-> 1, request_risk_acceptance |-> 2,
             create_remediation |-> 3, auto_remediate |-> 4, escalate |-> 5,
             block |-> 6]

Stronger(current, next) ==
  IF Strength[next] > Strength[current] THEN next ELSE current

Decide(action, approval, automatic) ==
  [action |-> action, requiresApproval |-> approval,
   autoRemediationAllowed |-> automatic]

NothingDecided == Decide("allow", FALSE, FALSE)

LowSeverity(f, d) ==
  IF f.severity = "low" THEN Decide("monitor_only", FALSE, FALSE) ELSE d

CriticalExposure(f, d) ==
  IF f.severity = "critical" /\ f.public /\ ~f.settled
  THEN Decide(Stronger(d.action, IF f.safeTarget THEN "auto_remediate"
                                 ELSE "create_remediation"),
              ~f.safeTarget, f.safeTarget)
  ELSE d

ComplianceDocumentation(f, d) ==
  [d EXCEPT !.requiresApproval = @ \/ f.documented]

RegulatedFramework(f, d) ==
  IF ~f.regulated THEN d
  ELSE [d EXCEPT
          !.requiresApproval = TRUE,
          !.action = IF f.severity = "critical" /\ f.public
                     THEN Stronger(@, "escalate")
                     ELSE IF f.severity = "high"
                     THEN Stronger(@, "create_remediation")
                     ELSE @]

HealthContext(f, d) == [d EXCEPT !.requiresApproval = @ \/ f.health]

UnresolvedHigh(f, d) ==
  IF f.severity \in {"high", "critical"} /\ ~f.settled
  THEN [d EXCEPT !.action = Stronger(@, "create_remediation")]
  ELSE d

\* A careless reordering: exposure is judged last and resets the approval.
RulesDecisionExposureLast(f) ==
  CriticalExposure(f, UnresolvedHigh(f, HealthContext(f, RegulatedFramework(f,
    ComplianceDocumentation(f, LowSeverity(f, NothingDecided))))))

RulesDecision(f) ==
  UnresolvedHigh(f, HealthContext(f, RegulatedFramework(f,
    ComplianceDocumentation(f, CriticalExposure(f,
      LowSeverity(f, NothingDecided))))))

ShouldCreateRemediation(d) ==
  d.action \in {"create_remediation", "auto_remediate", "escalate",
                "request_risk_acceptance"}

-----------------------------------------------------------------------------
(* The action of a candidate: the first rule that matches.                 *)

ActionType(f, d) ==
  CASE d.action = "auto_remediate" -> "auto_fix"
    [] d.action = "escalate" -> "ticket"
    [] d.action = "request_risk_acceptance" -> "notify"
    [] d.action = "create_remediation" ->
         IF f.text \cap {"network", "port"} # {} THEN "isolate"
         ELSE IF "config" \in f.text THEN "config_change"
         ELSE "manual_fix"

(* The high-touch classes a remediation falls into, by action and text.    *)

Mentions(f, words) == f.text \cap words # {}

TextCategories(f) ==
  {c \in {"firewall_change", "policy_deployment", "account_disable",
          "resource_delete", "endpoint_quarantine", "network_isolation"} :
     \/ c = "firewall_change" /\ Mentions(f, {"firewall"})
     \/ c = "policy_deployment" /\ \/ Mentions(f, {"opa bundle"})
                                   \/ {"policy", "deploy"} \subseteq f.text
     \/ c = "account_disable" /\ Mentions(f, {"disable account"})
     \/ c = "resource_delete" /\ Mentions(f, {"delete"})
     \/ c = "endpoint_quarantine" /\ Mentions(f, {"quarantine"})
     \/ c = "network_isolation" /\ Mentions(f, {"quarantine"})
                                /\ Mentions(f, {"network", "vlan"})}

ConfigCategories(f) ==
  {c \in {"firewall_change", "policy_deployment"} :
     \/ c = "firewall_change" /\ Mentions(f, {"firewall", "acl"})
     \/ c = "policy_deployment" /\ Mentions(f, {"policy", "opa bundle"})}

Categories(f, type) ==
  IF type = "isolate"
  THEN TextCategories(f) \cup {"network_isolation", "endpoint_quarantine"}
  ELSE IF type = "config_change" /\ TextCategories(f) = {}
  THEN ConfigCategories(f)
  ELSE TextCategories(f)

\* REMEDIATION_AUTONOMY_MATRIX: every class has the same cell in a row.
Matrix == [production |-> "approval_required", staging |-> "approval_required",
           simulation |-> "deny", demo |-> "deny"]

MatrixDecision(env, categories) ==
  IF categories = {} THEN "allow" ELSE Matrix[env]

-----------------------------------------------------------------------------
(* The two layers of guardrails and the plan.                              *)

HighTouch == {"config_change", "isolate"}
Rehearsal == {"simulation", "demo"}

\* Rules of evaluateGuardrails that ask for an approval of their own.
PublicProduction(f, type, env) ==
  /\ env = "production"
  /\ f.severity \in {"high", "critical"}
  /\ f.public
  /\ type \in HighTouch

DestructiveRehearsal(type, env) ==
  env \in Rehearsal /\ type \in HighTouch \cup {"auto_fix"}

\* The target is looked at in the wrong deployment.
UnsafeAutoFixInStaging(f, type, env) ==
  env = "staging" /\ type = "auto_fix" /\ ~f.safeTarget

UnsafeAutoFix(f, type, env) ==
  env = "production" /\ type = "auto_fix" /\ ~f.safeTarget

\* The rehearsal rule is missing.
GuardrailWithoutRehearsal(f, d, type, env) ==
  IF d.action = "block" THEN "blocked"
  ELSE IF d.requiresApproval THEN "approval_required"
  ELSE IF type = "auto_fix" /\ ~d.autoRemediationAllowed THEN "blocked"
  ELSE IF PublicProduction(f, type, env) \/ UnsafeAutoFix(f, type, env)
  THEN "approval_required"
  ELSE "allowed"

Guardrail(f, d, type, env) ==
  IF d.action = "block" THEN "blocked"
  ELSE IF d.requiresApproval THEN "approval_required"
  ELSE IF type = "auto_fix" /\ ~d.autoRemediationAllowed THEN "blocked"
  ELSE IF \/ PublicProduction(f, type, env)
          \/ DestructiveRehearsal(type, env)
          \/ UnsafeAutoFix(f, type, env)
  THEN "approval_required"
  ELSE "allowed"

\* Roll-up that forgets the classes when the policy alone allows the action.
SafetyOutcomeWithoutClasses(f, d, type, env) == Guardrail(f, d, type, env)

\* evaluateRemediationSafety and the guardrailOutcome made of it.
SafetyOutcome(f, d, type, env) ==
  LET guard == Guardrail(f, d, type, env)
      categories == Categories(f, type)
      matrix == MatrixDecision(env, categories)
  IN  IF guard = "blocked" \/ matrix = "deny" THEN "blocked"
      ELSE IF \/ d.requiresApproval
              \/ guard = "approval_required"
              \/ matrix = "approval_required"
              \/ categories # {}
      THEN "approval_required"
      ELSE "allowed"

CandidateApproval(d) == IF d.requiresApproval THEN "pending" ELSE "not_required"

\* isHumanInTheLoopEnabled and highRiskAction.
HumanGate(type, human) == human /\ type \in HighTouch

\* The branch tests what the guardrails say and forgets the candidate.
MustWaitByGuardrails(d, type, outcome, human) ==
  outcome = "approval_required" \/ HumanGate(type, human)

\* The first branch of determineExecutionPlan, tested before the block.
MustWait(d, type, outcome, human) ==
  \/ d.requiresApproval
  \/ outcome = "approval_required"
  \/ HumanGate(type, human)

PlanFor(f, d, env, human) ==
  LET type == ActionType(f, d)
      outcome == SafetyOutcome(f, d, type, env)
      P(mode, execution, action) ==
        Plan(mode, execution, action, CandidateApproval(d),
             outcome # "allowed" \/ HumanGate(type, human))
  IN  IF MustWait(d, type, outcome, human)
      THEN P("manual", "pending", "proposed")
      ELSE IF outcome = "blocked" THEN P("manual", "cancelled", "proposed")
      ELSE IF d.autoRemediationAllowed /\ type = "auto_fix"
      THEN P("automatic", "queued", "approved")
      ELSE IF type \in HighTouch
      THEN P("semi_automatic", "approved", "approved")
      ELSE P("manual", "approved", "approved")

-----------------------------------------------------------------------------
\* A finding the scan has just stored, or one a client asks about.
Init ==
  /\ finding \in Finding
  /\ stage = "evaluate"
  /\ decidedBy = "none"
  /\ decision = NothingDecided
  /\ environment = "staging"
  /\ humanInLoop = TRUE
  /\ plan = WaitingPlan("not_required")

Decided(by, d) ==
  /\ stage = "evaluate"
  /\ stage' = "decided"
  /\ decidedBy' = by
  /\ decision' = d
  /\ UNCHANGED <<finding, environment, humanInLoop, plan>>

\* The OPA server, if it is the provider, answers; its policy is outside.
OpaDecides == \E d \in Decision : Decided("opa", d)

\* The rules decide: they are the provider, or OPA failed or timed out.
RulesDecide == Decided("rules", RulesDecision(finding))

\* prepare-remediation-candidates counts the finding and goes on.
MonitorOnly ==
  /\ stage = "decided"
  /\ FromScan(finding)
  /\ ~ShouldCreateRemediation(decision)
  /\ stage' = "monitored"
  /\ UNCHANGED <<finding, decidedBy, decision, environment,
                 humanInLoop, plan>>

\* Both switches are read from the environment while the plan is made.
Route(env, human) ==
  /\ stage = "decided"
  /\ FromScan(finding)
  /\ ShouldCreateRemediation(decision)
  /\ environment' = env
  /\ humanInLoop' = human
  /\ plan' = PlanFor(finding, decision, env, human)
  /\ stage' = "routed"
  /\ UNCHANGED <<finding, decidedBy, decision>>

Next ==
  \/ OpaDecides
  \/ RulesDecide
  \/ MonitorOnly
  \/ \E env \in Environment, human \in BOOLEAN : Route(env, human)

Spec == Init /\ [][Next]_vars

-----------------------------------------------------------------------------
(* Type correctness.  plan \in Plans is the assumption RemediationTable    *)
(* makes of the scan: no plan is cancelled while an approval is pending,    *)
(* none runs while one is pending, and a startable plan is not gated.       *)
TypeOK ==
  /\ finding \in Finding
  /\ stage \in {"evaluate", "decided", "monitored", "routed"}
  /\ decidedBy \in Provider \cup {"none"}
  /\ decision \in Decision
  /\ environment \in Environment
  /\ humanInLoop \in BOOLEAN
  /\ plan \in Plans

Startable(p) == p.execution \in {"approved", "queued"}

(* "High-touch remediation classes that must never run autonomously        *)
(* without human approval" (remediationGuardrails.ts:18): whatever the      *)
(* provider answered and however the switches stand, a remediation of such *)
(* a class is routed neither as approved nor as queued.                    *)
HighTouchWaits ==
  stage = "routed" /\ Categories(finding, ActionType(finding, decision)) # {}
    => ~Startable(plan)

(* What runs without a human is what both layers together let through: the *)
(* policy allows automation, the deployment is a real one, a production    *)
(* target is an image or a manifest, and a semi-automatic change happens   *)
(* only with the switch off and not on a severe public finding in          *)
(* production.                                                             *)
UnattendedIsSafe ==
  stage = "routed" /\ plan.mode # "manual" =>
    /\ environment \notin Rehearsal
    /\ ~decision.requiresApproval
    /\ plan.mode = "automatic" =>
         /\ decision.autoRemediationAllowed
         /\ environment = "production" => finding.safeTarget
    /\ plan.mode = "semi_automatic" =>
         /\ ~humanInLoop
         /\ finding.severity \in {"high", "critical"} /\ finding.public
              => environment # "production"

(* A regulated, health or documentation context asks for a review that no  *)
(* later rule takes back: what the rules decide of such a finding requires *)
(* an approval, and is routed, if at all, to wait for it.                  *)
ReviewIsKept ==
  (/\ decidedBy = "rules"
   /\ finding.regulated \/ finding.health \/ finding.documented) =>
    /\ decision.requiresApproval
    /\ stage = "routed" => plan = WaitingPlan("pending")

(* The deployments are ordered by what they let run, and the switch only   *)
(* holds back: a decision whose plan is startable in a rehearsal is so in  *)
(* production, one startable in production is so in staging, and one       *)
(* startable under the switch is so without.                               *)
StricterReleasesLess ==
  stage = "routed" =>
    LET Released(env, human) ==
          Startable(PlanFor(finding, decision, env, human))
    IN  \A human \in BOOLEAN :
          /\ \A env \in Rehearsal :
               Released(env, human) => Released("production", human)
          /\ Released("production", human) => Released("staging", human)
          /\ \A env \in Environment :
               Released(env, TRUE) => Released(env, human)
=============================================================================
