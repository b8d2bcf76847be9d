------------------------ MODULE RemediationPolicy_proofs ----------------------
(***************************************************************************)
(* Proofs about RemediationPolicy, for every set of texts.  The plan of a  *)
(* finding is a function of the finding, the decision and the switches, so *)
(* each invariant rests on a lemma about PlanFor, RulesDecision or the     *)
(* guardrails, and PolicyInv says that the state holds what they return.   *)
(***************************************************************************)
EXTENDS RemediationPolicy, TLAPS

Outcomes == {"allowed", "approval_required", "blocked"}

\* A candidate, the decision on it and the switches it is routed under.
Routing(f, d, env, human) ==
  /\ f \in Finding
  /\ d \in Decision
  /\ ShouldCreateRemediation(d)
  /\ env \in Environment
  /\ human \in BOOLEAN

-----------------------------------------------------------------------------
(* The rules of the decision engine                                        *)

\* The stronger of two actions is an action.
LEMMA StrongerIsAnAction ==
  ASSUME NEW a \in DecisionAction, NEW b \in DecisionAction
  PROVE  Stronger(a, b) \in DecisionAction
BY DEF Stronger

\* What the rules decide is a decision, and a context that calls for review
\* leaves it requiring an approval: the rules that could reset it come before.
LEMMA RulesDecideOnce ==
  ASSUME NEW f \in Finding
  PROVE  /\ RulesDecision(f) \in Decision
         /\ f.regulated \/ f.health \/ f.documented
              => RulesDecision(f).requiresApproval
<1> DEFINE d1 == LowSeverity(f, NothingDecided)
           d2 == CriticalExposure(f, d1)
           d3 == ComplianceDocumentation(f, d2)
           d4 == RegulatedFramework(f, d3)
           d5 == HealthContext(f, d4)
           d6 == UnresolvedHigh(f, d5)
<1>1. d1 \in Decision
  BY DEF LowSeverity, NothingDecided, Decide, Decision, DecisionAction
<1>2. d2 \in Decision
  <2> DEFINE next == IF f.safeTarget THEN "auto_remediate"
                     ELSE "create_remediation"
  <2>1. d1.action \in DecisionAction /\ next \in DecisionAction
    BY <1>1 DEF Decision, DecisionAction
  <2>2. Stronger(d1.action, next) \in DecisionAction
    BY <2>1, StrongerIsAnAction
  <2>3. f.safeTarget \in BOOLEAN
    BY DEF Finding
  <2> HIDE DEF d1
  <2> QED BY <1>1, <2>2, <2>3 DEF CriticalExposure, Decide, Decision
<1>3. d3 \in Decision /\ (f.documented => d3.requiresApproval)
  <2> HIDE DEF d2
  <2> QED BY <1>2 DEF ComplianceDocumentation, Decision, Finding
<1>4. /\ d4 \in Decision
      /\ f.regulated \/ d3.requiresApproval => d4.requiresApproval
  <2> HIDE DEF d3
  <2>1. /\ Stronger(d3.action, "escalate") \in DecisionAction
        /\ Stronger(d3.action, "create_remediation") \in DecisionAction
    BY <1>3, StrongerIsAnAction DEF Decision, DecisionAction
  <2> QED BY <1>3, <2>1 DEF RegulatedFramework, Decision
<1>5. /\ d5 \in Decision
      /\ f.health \/ d4.requiresApproval => d5.requiresApproval
  <2> HIDE DEF d4
  <2> QED BY <1>4 DEF HealthContext, Decision, Finding
<1>6. /\ d6 \in Decision
      /\ d6.requiresApproval = d5.requiresApproval
  <2> HIDE DEF d5
  <2>1. Stronger(d5.action, "create_remediation") \in DecisionAction
    BY <1>5, StrongerIsAnAction DEF Decision, DecisionAction
  <2> QED BY <1>5, <2>1 DEF UnresolvedHigh, Decision
<1>7. RulesDecision(f) = d6
  BY DEF RulesDecision
<1> HIDE DEF d3, d4, d5, d6
<1> QED BY <1>3, <1>4, <1>5, <1>6, <1>7

-----------------------------------------------------------------------------
(* The guardrails and the plan                                             *)

\* The guardrails answer with one of three outcomes, ask for an approval or
\* block when the policy asks for one, and let no high-touch class through.
LEMMA OutcomeHolds ==
  ASSUME NEW f, NEW d, NEW type, NEW env \in Environment
  PROVE  /\ SafetyOutcome(f, d, type, env) \in Outcomes
         /\ d.requiresApproval \/ Categories(f, type) # {}
              => SafetyOutcome(f, d, type, env) # "allowed"
BY DEF SafetyOutcome, Outcomes

\* The action of a candidate is one of the five determineAction returns.
LEMMA ActionTypes ==
  ASSUME NEW f, NEW d, ShouldCreateRemediation(d)
  PROVE  ActionType(f, d) \in {"auto_fix", "ticket", "notify", "isolate",
                               "config_change", "manual_fix"}
BY DEF ActionType, ShouldCreateRemediation

\* The plan of a candidate by the cases of determineExecutionPlan.
LEMMA PlanCases ==
  ASSUME NEW f, NEW d, NEW env, NEW human, Routing(f, d, env, human)
  PROVE  LET type == ActionType(f, d)
             outcome == SafetyOutcome(f, d, type, env)
             p == PlanFor(f, d, env, human)
         IN  \/ MustWait(d, type, outcome, human)
                /\ p = WaitingPlan(CandidateApproval(d))
             \/ ~MustWait(d, type, outcome, human)
                /\ outcome = "blocked" /\ p = BlockedPlan
             \/ /\ ~MustWait(d, type, outcome, human)
                /\ outcome = "allowed"
                /\ \/ /\ d.autoRemediationAllowed
                      /\ type = "auto_fix"
                      /\ p = AutomaticPlan
                   \/ type \in HighTouch /\ p = SemiAutomaticPlan
                   \/ type \notin HighTouch /\ p = ManualPlan
<1> DEFINE type == ActionType(f, d)
           outcome == SafetyOutcome(f, d, type, env)
<1>1. /\ outcome \in Outcomes
      /\ d.requiresApproval => outcome # "allowed"
  BY OutcomeHolds DEF Routing
<1>2. "auto_fix" \notin HighTouch
  BY DEF HighTouch
<1> HIDE DEF type, outcome
<1>3. PlanFor(f, d, env, human) =
        LET P(mode, execution, action) ==
              Plan(mode, execution, action, CandidateApproval(d),
                   outcome # "allowed" \/ HumanGate(type, human))
        IN  IF MustWait(d, type, outcome, human)
            THEN P("manual", "pending", "proposed")
            ELSE IF outcome = "blocked"
            THEN P("manual", "cancelled", "proposed")
            ELSE IF d.autoRemediationAllowed /\ type = "auto_fix"
            THEN P("automatic", "queued", "approved")
            ELSE IF type \in HighTouch
            THEN P("semi_automatic", "approved", "approved")
            ELSE P("manual", "approved", "approved")
  BY DEF PlanFor, type, outcome
<1>4. CASE MustWait(d, type, outcome, human)
  <2>1. (outcome # "allowed" \/ HumanGate(type, human)) = TRUE
    BY <1>1, <1>4 DEF MustWait, HumanGate
  <2> QED BY <1>3, <1>4, <2>1 DEF WaitingPlan, Plan, type, outcome
<1>5. CASE ~MustWait(d, type, outcome, human)
  <2>1. CandidateApproval(d) = "not_required"
    BY <1>5 DEF MustWait, CandidateApproval
  <2>2. outcome \in {"blocked", "allowed"} /\ ~HumanGate(type, human)
    BY <1>1, <1>5 DEF MustWait, Outcomes
  <2>3. CASE outcome = "blocked"
    BY <1>3, <1>5, <2>1, <2>3 DEF BlockedPlan, Plan, type, outcome
  <2>4. CASE outcome = "allowed"
    <3>1. (outcome # "allowed" \/ HumanGate(type, human)) = FALSE
      BY <2>2, <2>4
    <3>2. /\ d.autoRemediationAllowed /\ type = "auto_fix"
               => PlanFor(f, d, env, human) = AutomaticPlan
          /\ ~(d.autoRemediationAllowed /\ type = "auto_fix")
               => PlanFor(f, d, env, human) =
                    IF type \in HighTouch THEN SemiAutomaticPlan ELSE ManualPlan
      BY <1>3, <1>5, <2>1, <2>4, <3>1
         DEF AutomaticPlan, SemiAutomaticPlan, ManualPlan, Plan
    <3> QED BY <1>2, <1>5, <2>4, <3>2 DEF type, outcome
  <2> QED BY <2>2, <2>3, <2>4
<1> QED BY <1>4, <1>5

\* Every plan is one that module RemediationTable routes with.
LEMMA PlanIsAPlan ==
  ASSUME NEW f, NEW d, NEW env, NEW human, Routing(f, d, env, human)
  PROVE  PlanFor(f, d, env, human) \in Plans
<1>1. WaitingPlan(CandidateApproval(d)) \in Plans
  BY DEF CandidateApproval, Plans, WaitingPlans
<1>2. {BlockedPlan, AutomaticPlan, SemiAutomaticPlan, ManualPlan}
        \subseteq Plans
  BY DEF Plans
<1> QED BY <1>1, <1>2, PlanCases

\* What the five plans say of starting and of running unattended.
LEMMA PlanKinds ==
  /\ \A approval : /\ ~Startable(WaitingPlan(approval))
                   /\ WaitingPlan(approval).mode = "manual"
  /\ ~Startable(BlockedPlan) /\ BlockedPlan.mode = "manual"
  /\ Startable(AutomaticPlan) /\ AutomaticPlan.mode = "automatic"
  /\ Startable(SemiAutomaticPlan) /\ SemiAutomaticPlan.mode = "semi_automatic"
  /\ Startable(ManualPlan) /\ ManualPlan.mode = "manual"
BY DEF Startable, Plan, WaitingPlan, BlockedPlan, AutomaticPlan,
       SemiAutomaticPlan, ManualPlan

\* A plan is startable exactly when the guardrails allow the action and
\* neither the candidate nor the switch holds it back.
LEMMA StartableIffAllowed ==
  ASSUME NEW f, NEW d, NEW env, NEW human, Routing(f, d, env, human)
  PROVE  LET type == ActionType(f, d)
             outcome == SafetyOutcome(f, d, type, env)
         IN  Startable(PlanFor(f, d, env, human))
               <=> outcome = "allowed" /\ ~MustWait(d, type, outcome, human)
<1> DEFINE type == ActionType(f, d)
           outcome == SafetyOutcome(f, d, type, env)
           p == PlanFor(f, d, env, human)
<1>1. CASE MustWait(d, type, outcome, human)
  BY <1>1, PlanCases, PlanKinds
<1>2. CASE ~MustWait(d, type, outcome, human)
  <2>1. \/ outcome = "blocked" /\ p = BlockedPlan
        \/ outcome = "allowed" /\ p \in {AutomaticPlan, SemiAutomaticPlan,
                                         ManualPlan}
    BY <1>2, PlanCases
  <2> HIDE DEF outcome, p
  <2>2. Startable(p) <=> outcome = "allowed"
    BY <2>1, PlanKinds
  <2> QED BY <1>2, <2>2 DEF outcome, p
<1> QED BY <1>1, <1>2

\* What "allowed" says of the two layers of guardrails.
LEMMA AllowedMeans ==
  ASSUME NEW f, NEW d, NEW type, NEW env \in Environment
  PROVE  SafetyOutcome(f, d, type, env) = "allowed" <=>
           /\ d.action # "block"
           /\ ~d.requiresApproval
           /\ type = "auto_fix" => d.autoRemediationAllowed
           /\ ~PublicProduction(f, type, env)
           /\ ~DestructiveRehearsal(type, env)
           /\ ~UnsafeAutoFix(f, type, env)
           /\ Categories(f, type) = {}
<1>1. Guardrail(f, d, type, env) = "allowed" <=>
        /\ d.action # "block"
        /\ ~d.requiresApproval
        /\ type = "auto_fix" => d.autoRemediationAllowed
        /\ ~PublicProduction(f, type, env)
        /\ ~DestructiveRehearsal(type, env)
        /\ ~UnsafeAutoFix(f, type, env)
  BY DEF Guardrail
<1>2. Guardrail(f, d, type, env) \in Outcomes
  BY DEF Guardrail, Outcomes
<1>3. Categories(f, type) = {}
        => MatrixDecision(env, Categories(f, type)) = "allow"
  BY DEF MatrixDecision
<1>4. SafetyOutcome(f, d, type, env) = "allowed" <=>
        /\ Guardrail(f, d, type, env) = "allowed"
        /\ ~d.requiresApproval
        /\ Categories(f, type) = {}
  BY <1>2, <1>3 DEF SafetyOutcome, Outcomes
<1> QED BY <1>1, <1>4

-----------------------------------------------------------------------------
(* The invariant: what is stored is what the functions return.             *)

PolicyInv ==
  /\ TypeOK
  /\ stage = "evaluate" => decidedBy = "none"
  /\ decidedBy = "rules" => decision = RulesDecision(finding)
  /\ stage = "routed" =>
       /\ ShouldCreateRemediation(decision)
       /\ plan = PlanFor(finding, decision, environment, humanInLoop)

\* Initially nothing is stored.
LEMMA PolicyInvInit == Init => PolicyInv
BY DEF Init, PolicyInv, TypeOK, NothingDecided, Decide, Decision,
       DecisionAction, Environment, Provider, Plans, WaitingPlans

\* Each step stores what its function returns.
LEMMA PolicyInvStep == PolicyInv /\ [Next]_vars => PolicyInv'
<1> SUFFICES ASSUME PolicyInv, [Next]_vars PROVE PolicyInv'
  OBVIOUS
<1>1. CASE OpaDecides
  BY <1>1 DEF OpaDecides, Decided, PolicyInv, TypeOK, Provider
<1>2. CASE RulesDecide
  <2>1. RulesDecision(finding) \in Decision
    BY RulesDecideOnce DEF PolicyInv, TypeOK
  <2> QED BY <1>2, <2>1 DEF RulesDecide, Decided, PolicyInv, TypeOK, Provider
<1>3. CASE MonitorOnly
  BY <1>3 DEF MonitorOnly, PolicyInv, TypeOK
<1>4. ASSUME NEW env \in Environment, NEW human \in BOOLEAN, Route(env, human)
      PROVE  PolicyInv'
  <2>1. Routing(finding, decision, env, human)
    BY <1>4 DEF Route, Routing, PolicyInv, TypeOK
  <2>2. PlanFor(finding, decision, env, human) \in Plans
    BY <2>1, PlanIsAPlan
  <2> QED BY <1>4, <2>2 DEF Route, PolicyInv, TypeOK
<1>5. CASE UNCHANGED vars
  BY <1>5 DEF vars, PolicyInv, TypeOK
<1> QED BY <1>1, <1>2, <1>3, <1>4, <1>5 DEF Next

\* PolicyInv holds in every reachable state.
LEMMA PolicyInvariant == Spec => []PolicyInv
BY PolicyInvInit, PolicyInvStep, PTL DEF Spec

\* In a routed state, the finding, the decision and the switches are a routing.
LEMMA RoutedIsRouting ==
  ASSUME PolicyInv, stage = "routed"
  PROVE  Routing(finding, decision, environment, humanInLoop)
BY DEF PolicyInv, TypeOK, Routing

-----------------------------------------------------------------------------
(* The properties                                                          *)

\* Every plan a finding is routed with is one of Plans, for every text.
THEOREM PlansAreKnown == Spec => []TypeOK
<1>1. PolicyInv => TypeOK
  BY DEF PolicyInv
<1> QED BY <1>1, PolicyInvariant, PTL

\* No remediation of a high-touch class is routed startable.
THEOREM HighTouchIsHeld == Spec => []HighTouchWaits
<1>1. ASSUME PolicyInv PROVE HighTouchWaits
  <2> SUFFICES ASSUME stage = "routed",
                      Categories(finding, ActionType(finding, decision)) # {}
               PROVE  ~Startable(plan)
    BY DEF HighTouchWaits
  <2>1. Routing(finding, decision, environment, humanInLoop)
    BY <1>1, RoutedIsRouting
  <2>2. SafetyOutcome(finding, decision, ActionType(finding, decision),
                      environment) # "allowed"
    BY <2>1, OutcomeHolds DEF Routing
  <2>3. ~Startable(PlanFor(finding, decision, environment, humanInLoop))
    BY <2>1, <2>2, StartableIffAllowed
  <2> QED BY <1>1, <2>3 DEF PolicyInv
<1> QED BY <1>1, PolicyInvariant, PTL

\* What the rules decide of a regulated, health or documentation context
\* requires an approval and is routed to wait for it.
THEOREM ReviewsAreKept == Spec => []ReviewIsKept
<1>1. ASSUME PolicyInv PROVE ReviewIsKept
  <2> SUFFICES ASSUME decidedBy = "rules",
                      finding.regulated \/ finding.health \/ finding.documented
               PROVE  /\ decision.requiresApproval
                      /\ stage = "routed" => plan = WaitingPlan("pending")
    BY DEF ReviewIsKept
  <2>1. decision.requiresApproval
    BY <1>1, RulesDecideOnce DEF PolicyInv, TypeOK
  <2>2. ASSUME stage = "routed" PROVE plan = WaitingPlan("pending")
    <3>1. Routing(finding, decision, environment, humanInLoop)
      BY <1>1, <2>2, RoutedIsRouting
    <3>2. CandidateApproval(decision) = "pending"
      BY <2>1 DEF CandidateApproval
    <3>3. PlanFor(finding, decision, environment, humanInLoop)
            = WaitingPlan("pending")
      BY <2>1, <3>1, <3>2, PlanCases DEF MustWait
    <3> QED BY <1>1, <2>2, <3>3 DEF PolicyInv
  <2> QED BY <2>1, <2>2
<1> QED BY <1>1, PolicyInvariant, PTL

\* What runs unattended is what both layers of guardrails let through.
THEOREM UnattendedRunsAreSafe == Spec => []UnattendedIsSafe
<1>1. ASSUME PolicyInv PROVE UnattendedIsSafe
  <2> DEFINE type == ActionType(finding, decision)
             outcome == SafetyOutcome(finding, decision, type, environment)
  <2> SUFFICES ASSUME stage = "routed", plan.mode # "manual"
               PROVE  /\ environment \notin Rehearsal
                      /\ ~decision.requiresApproval
                      /\ plan.mode = "automatic" =>
                           /\ decision.autoRemediationAllowed
                           /\ environment = "production" => finding.safeTarget
                      /\ plan.mode = "semi_automatic" =>
                           /\ ~humanInLoop
                           /\ finding.severity \in {"high", "critical"}
                                /\ finding.public
                                => environment # "production"
    BY DEF UnattendedIsSafe
  <2>1. /\ Routing(finding, decision, environment, humanInLoop)
        /\ environment \in Environment
    BY <1>1, RoutedIsRouting DEF Routing
  <2>2. plan = PlanFor(finding, decision, environment, humanInLoop)
    BY <1>1 DEF PolicyInv
  <2>3. /\ ~MustWait(decision, type, outcome, humanInLoop)
        /\ outcome = "allowed"
        /\ \/ type = "auto_fix" /\ plan = AutomaticPlan
           \/ type \in HighTouch /\ plan = SemiAutomaticPlan
    BY <2>1, <2>2, PlanCases, PlanKinds
  <2>4. /\ ~decision.requiresApproval
        /\ type = "auto_fix" => decision.autoRemediationAllowed
        /\ ~PublicProduction(finding, type, environment)
        /\ ~DestructiveRehearsal(type, environment)
        /\ ~UnsafeAutoFix(finding, type, environment)
    BY <2>1, <2>3, AllowedMeans
  <2>5. ~HumanGate(type, humanInLoop)
    BY <2>3 DEF MustWait
  <2> HIDE DEF type, outcome
  <2> QED BY <2>3, <2>4, <2>5, PlanKinds
          DEF PublicProduction, DestructiveRehearsal, UnsafeAutoFix, HumanGate
<1> QED BY <1>1, PolicyInvariant, PTL

\* The order of the deployments and the effect of the switch.
THEOREM DeploymentsAreOrdered == Spec => []StricterReleasesLess
<1>1. ASSUME PolicyInv PROVE StricterReleasesLess
  <2> DEFINE type == ActionType(finding, decision)
             Allowed(env) ==
               SafetyOutcome(finding, decision, type, env) = "allowed"
             Released(env, human) ==
               Startable(PlanFor(finding, decision, env, human))
  <2> SUFFICES ASSUME stage = "routed", NEW human \in BOOLEAN
               PROVE  /\ \A env \in Rehearsal :
                           Released(env, human) => Released("production", human)
                      /\ Released("production", human)
                           => Released("staging", human)
                      /\ \A env \in Environment :
                           Released(env, TRUE) => Released(env, human)
    BY DEF StricterReleasesLess
  <2>1. \A env \in Environment, h \in BOOLEAN :
          Released(env, h) <=>
            Allowed(env) /\ ~decision.requiresApproval /\ ~HumanGate(type, h)
    <3> SUFFICES ASSUME NEW env \in Environment, NEW h \in BOOLEAN
                 PROVE  Released(env, h) <=>
                          /\ Allowed(env)
                          /\ ~decision.requiresApproval
                          /\ ~HumanGate(type, h)
      OBVIOUS
    <3>1. Routing(finding, decision, env, h)
      BY <1>1, RoutedIsRouting DEF Routing
    <3> QED BY <3>1, StartableIffAllowed DEF MustWait
  <2>2. \A env \in Rehearsal : Allowed(env) => Allowed("production")
    <3> SUFFICES ASSUME NEW env \in Rehearsal, Allowed(env)
                 PROVE  Allowed("production")
      OBVIOUS
    <3>1. env \in Environment /\ "production" \in Environment
      BY DEF Rehearsal, Environment
    <3>2. type \notin HighTouch \cup {"auto_fix"}
      BY <3>1, AllowedMeans DEF DestructiveRehearsal
    <3>3. /\ ~PublicProduction(finding, type, "production")
          /\ ~UnsafeAutoFix(finding, type, "production")
          /\ ~DestructiveRehearsal(type, "production")
      BY <3>2 DEF PublicProduction, UnsafeAutoFix, DestructiveRehearsal
    <3> QED BY <3>1, <3>3, AllowedMeans
  <2>3. Allowed("production") => Allowed("staging")
    <3>1. "production" \in Environment /\ "staging" \in Environment
      BY DEF Environment
    <3>2. /\ ~PublicProduction(finding, type, "staging")
          /\ ~UnsafeAutoFix(finding, type, "staging")
          /\ ~DestructiveRehearsal(type, "staging")
      BY DEF PublicProduction, UnsafeAutoFix, DestructiveRehearsal, Rehearsal
    <3> QED BY <3>1, <3>2, AllowedMeans
  <2>4. ~HumanGate(type, TRUE) => ~HumanGate(type, human)
    BY DEF HumanGate
  <2>5. /\ Rehearsal \subseteq Environment
        /\ "production" \in Environment /\ "staging" \in Environment
    BY DEF Rehearsal, Environment
  <2> HIDE DEF type, Allowed, Released
  <2> QED BY <2>1, <2>2, <2>3, <2>4, <2>5
<1> QED BY <1>1, PolicyInvariant, PTL
=============================================================================
