----------------------- MODULE ApprovalWorkflow_proofs -----------------------
(***************************************************************************)
(* Theorems about approvals and executions together, for any number of     *)
(* findings, rows, requests, approvers and executor calls.                 *)
(***************************************************************************)
EXTENDS ApprovalWorkflow, RemediationExecution_proofs

\* A plan the guardrails hold back cannot start, and no plan is a rejection.
LEMMA PlansHoldBack ==
  \A p \in Plans \cup {FromFindingRow} :
    /\ p.gated => p.execution \notin {"approved", "queued"}
    /\ p.approval # "rejected"
<1> USE DEF Plan
<1> TAKE p \in Plans \cup {FromFindingRow}
<1>1. CASE p \in WaitingPlans
  <2>1. PICK ap \in {"pending", "not_required"} :
          p = Plan("manual", "pending", "proposed", ap, TRUE)
    BY <1>1 DEF WaitingPlans, WaitingPlan
  <2> QED BY <2>1
<1>2. CASE p = BlockedPlan
  BY <1>2 DEF BlockedPlan
<1>3. CASE p = AutomaticPlan
  BY <1>3 DEF AutomaticPlan
<1>4. CASE p = SemiAutomaticPlan
  BY <1>4 DEF SemiAutomaticPlan
<1>5. CASE p = ManualPlan \/ p = FromFindingRow
  BY <1>5 DEF ManualPlan, FromFindingRow
<1> QED BY <1>1, <1>2, <1>3, <1>4, <1>5 DEF Plans

\* The row POST from-finding inserts is typed.
LEMMA FromFindingRowTyped ==
  /\ FromFindingRow.execution \in ExecutionStatus
  /\ FromFindingRow.action \in ActionStatus
  /\ FromFindingRow.approval \in ApprovalStatus
  /\ FromFindingRow.mode \in ExecutionMode
  /\ FromFindingRow.gated \in BOOLEAN
BY DEF FromFindingRow, Plan, ExecutionStatus, ActionStatus, ApprovalStatus,
       ExecutionMode

\* An insert or a routing update is typed, and restores both invariants on
\* the row it writes.
LEMMA SetRowReleases ==
  ASSUME ReleaseInv, NEW a \in Actions, NEW f \in Findings,
         NEW p \in Plans \cup {FromFindingRow}, SetRow(a, f, p),
         candidate' = candidate,
         scan' \in [Findings -> ScanStates],
         UNCHANGED <<execVars, approvalVars>>
  PROVE  ReleaseInv'
<1>1. /\ p.execution \in ExecutionStatus /\ p.action \in ActionStatus
      /\ p.approval \in ApprovalStatus /\ p.mode \in ExecutionMode
      /\ p.gated \in BOOLEAN
  BY PlansTyped, FromFindingRowTyped
<1>2. TableTypeOK
  BY DEF ReleaseInv, SystemTypeOK, TypeOK
<1>3. TableTypeOK'
  BY <1>1, <1>2 DEF SetRow, TableTypeOK
<1>4. ExecTypeOK' /\ ApprovalTypeOK'
  BY DEF ReleaseInv, SystemTypeOK, TypeOK, ExecTypeOK, ApprovalTypeOK,
         execVars, approvalVars
<1>5. GatedNeedsApproval'
  BY <1>2, PlansHoldBack DEF ReleaseInv, GatedNeedsApproval, SetRow,
                             TableTypeOK
<1>6. RejectedStaysStopped'
  BY <1>2, PlansHoldBack DEF ReleaseInv, RejectedStaysStopped, SetRow,
                             TableTypeOK
<1> QED BY <1>3, <1>4, <1>5, <1>6 DEF ReleaseInv, SystemTypeOK, TypeOK

\* A step that leaves the governing columns alone keeps both invariants.
LEMMA UntouchedReleases ==
  ASSUME ReleaseInv, SystemTypeOK',
         UNCHANGED <<execution_status, approval_status, gated>>
  PROVE  ReleaseInv'
BY DEF ReleaseInv, GatedNeedsApproval, RejectedStaysStopped

\* A request that is inserted is typed.
LEMMA InsertTyped ==
  ASSUME ApprovalTypeOK, NEW q \in Requests,
         NEW type \in {"remediation_execution", "other"},
         NEW a \in Actions \cup {NoAction},
         NEW f \in Findings \cup {NoFinding},
         Insert(q, type, a, f), UNCHANGED <<finding_approval, decider>>
  PROVE  ApprovalTypeOK'
<1>1. [status |-> "pending", type |-> type, action |-> a, finding |-> f]
        \in RequestRows
  BY DEF RequestRows, RequestStatus
<1> QED BY <1>1 DEF Insert, ApprovalTypeOK

-----------------------------------------------------------------------------
\* Routing, its retries and the creation of requests keep both invariants:
\* a plan that is gated is never written as approved or queued.
LEMMA ScanReleases ==
  ASSUME ReleaseInv, NEW f \in Findings, ScanStep(f)
  PROVE  ReleaseInv'
<1>0. /\ TableTypeOK /\ ExecTypeOK /\ ApprovalTypeOK
      /\ candidate[f] \in Plans
      /\ scan \in [Findings -> ScanStates]
  BY DEF ReleaseInv, SystemTypeOK, TypeOK, TableTypeOK
<1>1. scan' \in [Findings -> ScanStates]
  <2>1. ASSUME NEW label \in ScanPC, NEW target \in Actions \cup {NoAction},
               NEW attempt \in 1..MaxAttempts,
               scan' = [scan EXCEPT ![f] = At(label, target, attempt)]
        PROVE  scan' \in [Findings -> ScanStates]
    BY <1>0, <2>1 DEF At, ScanStates
  <2>2. /\ scan[f].target \in Actions \cup {NoAction}
        /\ scan[f].attempt \in 1..MaxAttempts
        /\ 1 \in 1..MaxAttempts
        /\ scan[f].attempt < MaxAttempts
             => scan[f].attempt + 1 \in 1..MaxAttempts
    BY <1>0, TableAssumption DEF ScanStates
  <2> USE DEF ScanPC
  <2>3. CASE RouteRead(f) \/ RouteUpdate(f)
    BY <2>1, <2>2, <2>3 DEF RouteRead, RouteUpdate
  <2>4. CASE RouteInsert(f)
    BY <2>1, <2>2, <2>4 DEF RouteInsert
  <2>5. CASE RoutingEnds(f)
    BY <2>1, <2>2, <2>5 DEF RoutingEnds
  <2>6. CASE RoutingRetried(f) \/ RequestsRetried(f)
    BY <2>1, <2>2, <2>6 DEF RoutingRetried, RequestsRetried
  <2>7. ASSUME NEW q \in Requests, ScanCreatesRequest(f, q)
        PROVE  scan' \in [Findings -> ScanStates]
    BY <2>1, <2>2, <2>7 DEF ScanCreatesRequest
  <2>8. CASE RequestsEnd(f)
    BY <2>1, <2>2, <2>8 DEF RequestsEnd
  <2> QED BY <2>3, <2>4, <2>5, <2>6, <2>7, <2>8 DEF ScanStep
<1>2. CASE /\ RouteUpdate(f) \/ RouteInsert(f)
           /\ UNCHANGED <<execVars, approvalVars>>
  <2>1. PICK a \in Actions : SetRow(a, f, candidate[f])
    BY <1>0, <1>2 DEF RouteUpdate, RouteInsert, ScanStates
  <2> QED BY <1>0, <1>1, <1>2, <2>1, SetRowReleases
          DEF RouteUpdate, RouteInsert
<1>3. CASE UNCHANGED <<candidate, tableVars, execVars>> /\ ApprovalTypeOK'
  <2>1. SystemTypeOK'
    BY <1>0, <1>1, <1>3 DEF SystemTypeOK, TypeOK, TableTypeOK, ExecTypeOK,
                            tableVars, execVars
  <2> QED BY <1>3, <2>1, UntouchedReleases DEF tableVars
<1>4. ASSUME UNCHANGED approvalVars
      PROVE  ApprovalTypeOK'
  BY <1>0, <1>4 DEF ApprovalTypeOK, approvalVars
<1>5. ASSUME NEW q \in Requests, ScanCreatesRequest(f, q)
      PROVE  ApprovalTypeOK'
  <2>1. scan[f].target \in Actions \cup {NoAction}
    BY <1>0 DEF ScanStates
  <2> QED BY <1>0, <1>5, <2>1, InsertTyped DEF ScanCreatesRequest
<1>6. CASE RouteRead(f) \/ RoutingEnds(f) \/ RoutingRetried(f)
           \/ RequestsRetried(f) \/ RequestsEnd(f)
  BY <1>3, <1>4, <1>6 DEF ScanStep, RouteRead, RoutingEnds, RoutingRetried,
                          RequestsRetried, RequestsEnd, RouteUpdate,
                          RouteInsert, ScanCreatesRequest
<1>7. ASSUME NEW q \in Requests, ScanCreatesRequest(f, q)
      PROVE  ReleaseInv'
  BY <1>3, <1>5, <1>7 DEF ScanCreatesRequest
<1> QED BY <1>2, <1>6, <1>7 DEF ScanStep

\* Clients insert rows and requests, patch the older status and start to
\* decide: none of this releases a row.
LEMMA UserReleases ==
  ASSUME ReleaseInv, User
  PROVE  ReleaseInv'
<1>0. TableTypeOK /\ ExecTypeOK /\ ApprovalTypeOK
  BY DEF ReleaseInv, SystemTypeOK, TypeOK
<1>1. ASSUME NEW a \in Actions, NEW f \in Findings, InsertFromFinding(a, f),
             UNCHANGED <<execVars, approvalVars>>
      PROVE  ReleaseInv'
  BY <1>0, <1>1, SetRowReleases
     DEF InsertFromFinding, TableTypeOK, scanVars
<1>2. ASSUME NEW a \in Actions, NEW s \in PatchStatuses, PatchStatus(a, s),
             UNCHANGED <<execVars, approvalVars>>
      PROVE  ReleaseInv'
  <2>1. s \in ActionStatus
    BY TableAssumption DEF ActionStatus
  <2>2. TableTypeOK'
    BY <1>0, <1>2, <2>1 DEF PatchStatus, TableTypeOK, scanVars
  <2>3. SystemTypeOK'
    BY <1>0, <1>2, <2>2 DEF SystemTypeOK, TypeOK, ExecTypeOK, ApprovalTypeOK,
                            execVars, approvalVars
  <2> QED BY <1>2, <2>3, UntouchedReleases DEF PatchStatus
<1>3. ASSUME UNCHANGED <<tableVars, scanVars, execVars>>, ApprovalTypeOK'
      PROVE  ReleaseInv'
  <2>1. SystemTypeOK'
    BY <1>0, <1>3 DEF SystemTypeOK, TypeOK, TableTypeOK, ExecTypeOK,
                      tableVars, scanVars, execVars
  <2> QED BY <1>3, <2>1, UntouchedReleases DEF tableVars
<1>4. ASSUME NEW q \in Requests, NEW type \in ApiRequests,
             NEW a \in Actions \cup {NoAction},
             NEW f \in Findings \cup {NoFinding}, CreateRequest(q, type, a, f)
      PROVE  ReleaseInv'
  BY <1>0, <1>3, <1>4, InsertTyped, ApprovalAssumption DEF CreateRequest
<1>5. ASSUME NEW d \in Deciders, NEW q \in Requests, NEW verdict \in Verdicts,
             ReadPending(d, q, verdict)
      PROVE  ReleaseInv'
  <2>1. [at |-> "request", verdict |-> verdict, request |-> q]
          \in DeciderStates
    BY DEF DeciderStates, DeciderPC
  <2>2. ApprovalTypeOK'
    BY <1>0, <1>5, <2>1 DEF ReadPending, ApprovalTypeOK
  <2> QED BY <1>3, <1>5, <2>2 DEF ReadPending
<1> QED BY <1>1, <1>2, <1>4, <1>5 DEF User

\* A decider that goes on keeps its request; one that ends has none.
LEMMA DeciderGotoTyped ==
  ASSUME ApprovalTypeOK, NEW d \in Deciders, decider[d].at # "idle",
         NEW label \in DeciderPC, DeciderGoto(d, label)
  PROVE  /\ decider' \in [Deciders -> DeciderStates]
         /\ \A e \in Deciders :
              decider'[e].at # "idle" => decider'[e].request \in Requests
<1>1. decider \in [Deciders -> DeciderStates] /\ decider[d].request \in Requests
  BY DEF ApprovalTypeOK
<1>2. CASE label = "idle"
  <2>1. IdleDecider \in DeciderStates /\ IdleDecider.at = "idle"
    BY DEF IdleDecider, DeciderStates, DeciderPC, Verdicts
  <2>2. decider' = [decider EXCEPT ![d] = IdleDecider]
    BY <1>2 DEF DeciderGoto
  <2> QED BY <1>1, <2>1, <2>2 DEF ApprovalTypeOK
<1>3. CASE label # "idle"
  <2>1. PICK r \in DeciderStates :
          /\ r.request = decider[d].request
          /\ decider' = [decider EXCEPT ![d] = r]
    <3>1. [decider[d] EXCEPT !.at = label] \in DeciderStates
      BY <1>1 DEF DeciderStates
    <3>2. [decider[d] EXCEPT !.at = label].request = decider[d].request
      BY <1>1 DEF DeciderStates
    <3> QED BY <1>3, <3>1, <3>2 DEF DeciderGoto
  <2> QED BY <1>1, <2>1 DEF ApprovalTypeOK
<1> QED BY <1>2, <1>3

-----------------------------------------------------------------------------
\* A decision that is written satisfies both invariants by itself: approved
\* rows carry the approval, rejected ones are cancelled.
LEMMA DecisionReleases ==
  ASSUME ReleaseInv, NEW d \in Deciders, WriteRow(d)
  PROVE  ReleaseInv'
<1> DEFINE a == request[decider[d].request].action
           verdict == decider[d].verdict
<1>0. TableTypeOK /\ ExecTypeOK /\ ApprovalTypeOK
  BY DEF ReleaseInv, SystemTypeOK, TypeOK
<1>1. verdict \in Verdicts
  BY <1>0 DEF ApprovalTypeOK, DeciderStates
<1>2. DeciderGoto(d, "finding") \/ DeciderGoto(d, "dispatch")
      \/ DeciderGoto(d, "idle")
  BY DEF WriteRow, AfterFinding
<1>3. ApprovalTypeOK'
  <2>1. /\ decider' \in [Deciders -> DeciderStates]
        /\ \A e \in Deciders :
             decider'[e].at # "idle" => decider'[e].request \in Requests
    BY <1>0, <1>2, DeciderGotoTyped DEF WriteRow, DeciderPC
  <2> QED BY <1>0, <2>1 DEF WriteRow, ApprovalTypeOK
<1>4. RowDecision(a, verdict)
  BY DEF WriteRow
<1>5. TableTypeOK'
  <2>1. /\ execution_status' \in [Actions -> ExecutionStatus \cup {"absent"}]
        /\ action_status' \in [Actions -> ActionStatus]
        /\ approval_status' \in [Actions -> ApprovalStatus]
    BY <1>0, <1>1, <1>4
       DEF RowDecision, TableTypeOK, Verdicts, ExecutionStatus, ActionStatus,
           ApprovalStatus
  <2> QED BY <1>0, <2>1 DEF WriteRow, TableTypeOK, scanVars
<1>6. SystemTypeOK'
  BY <1>0, <1>3, <1>5
     DEF WriteRow, SystemTypeOK, TypeOK, ExecTypeOK, execVars
<1>7. UNCHANGED gated
  BY DEF WriteRow
<1>8. GatedNeedsApproval'
  BY <1>0, <1>1, <1>4, <1>7
     DEF ReleaseInv, GatedNeedsApproval, RowDecision, TableTypeOK, Verdicts
<1>9. RejectedStaysStopped'
  BY <1>0, <1>1, <1>4
     DEF ReleaseInv, RejectedStaysStopped, RowDecision, TableTypeOK, Verdicts,
         Startable
<1> QED BY <1>6, <1>8, <1>9 DEF ReleaseInv

\* The other steps of a decider leave the governing columns alone.
LEMMA DeciderReleases ==
  ASSUME ReleaseInv, NEW d \in Deciders, DeciderStep(d) \/ DeciderDies(d)
  PROVE  ReleaseInv'
<1>0. TableTypeOK /\ ExecTypeOK /\ ApprovalTypeOK
  BY DEF ReleaseInv, SystemTypeOK, TypeOK
<1>1. ASSUME UNCHANGED <<tableVars, scanVars>>, ExecTypeOK', ApprovalTypeOK'
      PROVE  ReleaseInv'
  <2>1. SystemTypeOK'
    BY <1>0, <1>1 DEF SystemTypeOK, TypeOK, TableTypeOK, tableVars, scanVars
  <2> QED BY <1>1, <2>1, UntouchedReleases DEF tableVars
<1>2. ASSUME UNCHANGED execVars
      PROVE  ExecTypeOK'
  BY <1>0, <1>2 DEF ExecTypeOK, execVars
<1>3. ASSUME NEW label \in DeciderPC, decider[d].at # "idle",
             DeciderGoto(d, label),
             request' \in [Requests -> RequestRows],
             finding_approval' \in [Findings -> ApprovalStatus]
      PROVE  ApprovalTypeOK'
  BY <1>0, <1>3, DeciderGotoTyped DEF ApprovalTypeOK
<1>4. /\ request \in [Requests -> RequestRows]
      /\ finding_approval \in [Findings -> ApprovalStatus]
      /\ decider[d].verdict \in Verdicts
  BY <1>0 DEF ApprovalTypeOK, DeciderStates
<1>5. CASE WriteRequest(d)
  <2> DEFINE q == decider[d].request
  <2>1. [request[q] EXCEPT !.status = decider[d].verdict] \in RequestRows
    BY <1>0, <1>4, <1>5
       DEF WriteRequest, ApprovalTypeOK, RequestRows, RequestStatus, Verdicts
  <2>2. request' = [request EXCEPT
                      ![q] = [request[q] EXCEPT !.status = decider[d].verdict]]
    BY <1>5 DEF WriteRequest
  <2>3. request' \in [Requests -> RequestRows]
    BY <1>4, <2>1, <2>2
  <2>4. PICK label \in DeciderPC : DeciderGoto(d, label)
    BY <1>5 DEF WriteRequest, DeciderPC
  <2>5. ApprovalTypeOK'
    BY <1>3, <1>4, <1>5, <2>3, <2>4 DEF WriteRequest
  <2> QED BY <1>1, <1>2, <1>5, <2>5 DEF WriteRequest
<1>6. CASE WriteFinding(d)
  <2>1. finding_approval' \in [Findings -> ApprovalStatus]
    BY <1>4, <1>6 DEF WriteFinding, Verdicts, ApprovalStatus
  <2>2. PICK label \in DeciderPC : DeciderGoto(d, label)
    BY <1>6 DEF WriteFinding, AfterFinding, DeciderPC
  <2>3. ApprovalTypeOK'
    BY <1>3, <1>4, <1>6, <2>1, <2>2 DEF WriteFinding
  <2> QED BY <1>1, <1>2, <1>6, <2>3 DEF WriteFinding
<1>7. CASE Dispatch(d)
  <2> DEFINE a == request[decider[d].request].action
  <2>1. requested' \in [Actions -> Nat]
    <3>1. requested \in [Actions -> Nat]
      BY <1>0 DEF ExecTypeOK
    <3>2. \/ requested' = [requested EXCEPT ![a] = requested[a]]
          \/ requested' = [requested EXCEPT ![a] = requested[a] + 1]
      BY <1>7 DEF Dispatch
    <3>3. a \in Actions => requested[a] \in Nat /\ requested[a] + 1 \in Nat
      BY <3>1
    <3> HIDE DEF a
    <3> QED BY <3>1, <3>2, <3>3
  <2>2. ExecTypeOK'
    BY <1>0, <1>7, <2>1 DEF Dispatch, ExecTypeOK
  <2>3. ApprovalTypeOK'
    BY <1>3, <1>4, <1>7 DEF Dispatch, DeciderPC
  <2> QED BY <1>1, <1>7, <2>2, <2>3 DEF Dispatch
<1>8. CASE DeciderDies(d)
  BY <1>1, <1>2, <1>3, <1>4, <1>8 DEF DeciderDies, DeciderPC
<1> QED BY <1>5, <1>6, <1>7, <1>8, DecisionReleases DEF DeciderStep

-----------------------------------------------------------------------------
\* The executor only ever takes a row out of the startable states, and never
\* writes an approval.
LEMMA WorkerStatuses ==
  ASSUME TypeOK, NEW w \in Workers, WorkerStep(w) \/ Crash(w)
  PROVE  /\ UNCHANGED <<approval_status, gated>>
         /\ \A a \in Actions :
              execution_status'[a] \in Startable
                => execution_status'[a] = execution_status[a]
<1>1. execution_status \in [Actions -> ExecutionStatus \cup {"absent"}]
  BY DEF TypeOK, TableTypeOK
<1>2. CASE UNCHANGED tableVars
  BY <1>2 DEF tableVars
<1>3. CASE Claim(w) \/ MarkFailed(w) \/ TerminalUpdate(w)
  BY <1>1, <1>3 DEF Claim, MarkFailed, TerminalUpdate, Startable
<1>4. CASE \/ ReadRow(w) \/ ReadRefused(w) \/ ClaimRefused(w)
           \/ GuardThrows(w) \/ GuardPasses(w) \/ StepsDone(w)
           \/ StepsSkipped(w) \/ StepsFail(w) \/ Emit(w) \/ Return(w)
           \/ Crash(w)
  BY <1>2, <1>4
     DEF ReadRow, ReadRefused, ClaimRefused, GuardThrows, GuardPasses,
         StepsDone, StepsSkipped, StepsFail, Emit, Return, Crash
<1>5. CASE Finish(w) \/ FinishFails(w)
  BY <1>2, <1>3, <1>5 DEF Finish, FinishFails
<1> QED BY <1>3, <1>4, <1>5 DEF WorkerStep

\* Calls of the executor keep both invariants.
LEMMA ExecutionReleases ==
  ASSUME ReleaseInv, Execution
  PROVE  ReleaseInv'
<1>0. TypeOK /\ ApprovalTypeOK /\ ApprovalTypeOK'
  BY DEF ReleaseInv, SystemTypeOK, Execution, ApprovalTypeOK, approvalVars
<1>1. UNCHANGED scanVars
  BY DEF Execution
<1>2. ASSUME NEW w \in Workers, NEW a \in Actions, Client(w, a)
      PROVE  ReleaseInv'
  <2>1. SystemTypeOK'
    BY <1>0, <1>1, <1>2, ClientTyped DEF SystemTypeOK
  <2> QED BY <1>2, <2>1, UntouchedReleases
          DEF Client, ApiExecute, DeliverRequested, tableVars
<1>3. ASSUME NEW w \in Workers, WorkerStep(w) \/ Crash(w)
      PROVE  ReleaseInv'
  <2>1. SystemTypeOK'
    BY <1>0, <1>1, <1>3, WorkerStepTyped DEF SystemTypeOK
  <2>2. GatedNeedsApproval' /\ RejectedStaysStopped'
    BY <1>0, <1>3, WorkerStatuses
       DEF ReleaseInv, GatedNeedsApproval, RejectedStaysStopped, Startable
  <2> QED BY <2>1, <2>2 DEF ReleaseInv
<1>4. ASSUME NEW w \in Workers, NEW a \in Actions, NEW dryRun \in ApiDryRuns,
             NEW force \in ApiForces, ApiExecute(w, a, dryRun, force)
      PROVE  Client(w, a)
  BY <1>4, ApprovalAssumption DEF Client
<1>5. ASSUME NEW w \in Workers, NEW a \in Actions, DeliverRequested(w, a)
      PROVE  Client(w, a)
  BY <1>5 DEF Client
<1> QED BY <1>2, <1>3, <1>4, <1>5 DEF Execution

\* The tables are empty at first.
LEMMA SystemInitReleases == SystemInit => ReleaseInv
<1> SUFFICES ASSUME SystemInit PROVE ReleaseInv
  OBVIOUS
<1>1. TableTypeOK
  BY TableAssumption
     DEF SystemInit, TableInit, TableTypeOK, At, ScanPC, ScanStates,
         ActionStatus, ApprovalStatus, ExecutionMode
<1>2. ExecTypeOK
  <2>1. IdleJob \in Jobs
    BY JobTyped DEF IdleJob
  <2> QED BY <2>1 DEF SystemInit, ExecInit, ExecTypeOK, WorkerPC
<1>3. ApprovalTypeOK
  <2>1. AbsentRequest \in RequestRows
    BY DEF AbsentRequest, RequestRows, RequestStatus
  <2>2. IdleDecider \in DeciderStates /\ IdleDecider.at = "idle"
    BY DEF IdleDecider, DeciderStates, DeciderPC, Verdicts
  <2>3. finding_approval \in [Findings -> ApprovalStatus]
    BY <1>1, PlansTyped DEF SystemInit, ApprovalInit, TableTypeOK
  <2> QED BY <2>1, <2>2, <2>3 DEF SystemInit, ApprovalInit, ApprovalTypeOK
<1>4. GatedNeedsApproval /\ RejectedStaysStopped
  BY DEF SystemInit, TableInit, GatedNeedsApproval, RejectedStaysStopped,
         Startable
<1> QED BY <1>1, <1>2, <1>3, <1>4 DEF ReleaseInv, SystemTypeOK, TypeOK

\* The two invariants and the types are inductive together.
LEMMA SystemStepReleases == ReleaseInv /\ [SystemNext]_allVars => ReleaseInv'
<1> SUFFICES ASSUME ReleaseInv, [SystemNext]_allVars PROVE ReleaseInv'
  OBVIOUS
<1>1. CASE UNCHANGED allVars
  <2>1. SystemTypeOK'
    BY <1>1 DEF ReleaseInv, SystemTypeOK, TypeOK, TableTypeOK, ExecTypeOK,
                ApprovalTypeOK, allVars, vars, tableVars, scanVars, execVars,
                approvalVars
  <2> QED BY <1>1, <2>1, UntouchedReleases DEF allVars, vars, tableVars
<1> QED BY <1>1, ScanReleases, UserReleases, DeciderReleases,
           ExecutionReleases DEF SystemNext

\* Whatever is scanned, retried, decided and executed, and whoever dies, every
\* column and every local variable of the system holds a value of its type.
THEOREM SystemTypeCorrect == System => []SystemTypeOK
<1>1. ReleaseInv => SystemTypeOK
  BY DEF ReleaseInv
<1> QED BY <1>1, SystemInitReleases, SystemStepReleases, PTL DEF System

\* A gated row is startable without force only once it is approved.
THEOREM GatedRowsWait == System => []GatedNeedsApproval
<1>1. ReleaseInv => GatedNeedsApproval
  BY DEF ReleaseInv
<1> QED BY <1>1, SystemInitReleases, SystemStepReleases, PTL DEF System

\* A row whose last written decision is a rejection cannot be started, not
\* even with force.
THEOREM RejectionsHold == System => []RejectedStaysStopped
<1>1. ReleaseInv => RejectedStaysStopped
  BY DEF ReleaseInv
<1> QED BY <1>1, SystemInitReleases, SystemStepReleases, PTL DEF System

-----------------------------------------------------------------------------
\* No plan claims an execution.
LEMMA PlansClaimNothing ==
  /\ \A p \in Plans : p.action \notin {"completed", "failed"}
  /\ FromFindingRow.action \notin {"completed", "failed"}
BY DEF Plans, WaitingPlans, WaitingPlan, BlockedPlan, AutomaticPlan,
       SemiAutomaticPlan, ManualPlan, FromFindingRow, Plan

\* Whoever writes one of the two statuses of an execution writes the other in
\* the same statement.
LEMMA ClaimsStep ==
  ASSUME SystemTypeOK, CompletedIsExecuted, SystemNext
  PROVE  CompletedIsExecuted'
<1>0. TableTypeOK /\ ApprovalTypeOK
  BY DEF SystemTypeOK, TypeOK
<1>1. ASSUME UNCHANGED <<execution_status, action_status>>
      PROVE  CompletedIsExecuted'
  BY <1>1 DEF CompletedIsExecuted
<1>2. ASSUME NEW a \in Actions, NEW f, NEW p \in Plans \cup {FromFindingRow},
             SetRow(a, f, p)
      PROVE  CompletedIsExecuted'
  BY <1>0, <1>2, PlansClaimNothing
     DEF CompletedIsExecuted, TableTypeOK, SetRow
<1>3. ASSUME NEW f \in Findings, ScanStep(f)
      PROVE  CompletedIsExecuted'
  <2>1. CASE RouteUpdate(f) \/ RouteInsert(f)
    BY <1>0, <1>2, <2>1
       DEF RouteUpdate, RouteInsert, TableTypeOK, ScanStates
  <2>2. CASE ~(RouteUpdate(f) \/ RouteInsert(f))
    BY <1>1, <1>3, <2>2
       DEF ScanStep, RouteRead, RoutingEnds, RoutingRetried,
           ScanCreatesRequest, RequestsRetried, RequestsEnd, tableVars
  <2> QED BY <2>1, <2>2
<1>4. ASSUME User
      PROVE  CompletedIsExecuted'
  <2>1. ASSUME NEW a \in Actions, NEW f \in Findings, InsertFromFinding(a, f)
        PROVE  CompletedIsExecuted'
    BY <1>2, <2>1 DEF InsertFromFinding
  <2>2. ASSUME NEW a \in Actions, NEW s \in PatchStatuses, PatchStatus(a, s)
        PROVE  CompletedIsExecuted'
    BY <1>0, <2>2, TableAssumption
       DEF PatchStatus, CompletedIsExecuted, TableTypeOK
  <2> QED BY <1>1, <1>4, <2>1, <2>2
          DEF User, CreateRequest, ReadPending, tableVars
<1>5. ASSUME NEW d \in Deciders, DeciderStep(d) \/ DeciderDies(d)
      PROVE  CompletedIsExecuted'
  <2>1. CASE WriteRow(d)
    <3>1. decider[d].verdict \in Verdicts
      BY <1>0 DEF ApprovalTypeOK, DeciderStates
    <3> QED BY <1>0, <2>1, <3>1
            DEF WriteRow, RowDecision, CompletedIsExecuted, TableTypeOK, Verdicts
  <2>2. CASE ~WriteRow(d)
    BY <1>1, <1>5, <2>2
       DEF DeciderStep, WriteRequest, WriteFinding, Dispatch, DeciderDies,
           tableVars
  <2> QED BY <2>1, <2>2
<1>6. ASSUME Execution
      PROVE  CompletedIsExecuted'
  <2>1. ASSUME NEW w \in Workers, Claim(w) \/ MarkFailed(w) \/ TerminalUpdate(w)
        PROVE  CompletedIsExecuted'
    BY <1>0, <2>1
       DEF Claim, MarkFailed, TerminalUpdate, CompletedIsExecuted, TableTypeOK
  <2> QED BY <1>1, <1>6, <2>1
          DEF Execution, ApiExecute, DeliverRequested, WorkerStep, Crash,
              ReadRow, ReadRefused, ClaimRefused, GuardThrows, GuardPasses,
              StepsDone, StepsSkipped, StepsFail, Finish, FinishFails, Emit,
              Return, tableVars
<1> QED BY <1>3, <1>4, <1>5, <1>6 DEF SystemNext

\* The older status of a row claims an execution, or a failure of one, only
\* as long as the executor's own status says the same.
THEOREM ClaimsAreTrue == System => []CompletedIsExecuted
<1>1. SystemInit => CompletedIsExecuted
  BY DEF SystemInit, TableInit, CompletedIsExecuted
<1>2. SystemTypeOK /\ CompletedIsExecuted /\ [SystemNext]_allVars
        => CompletedIsExecuted'
  <2>1. CompletedIsExecuted /\ UNCHANGED allVars => CompletedIsExecuted'
    BY DEF CompletedIsExecuted, allVars, vars, tableVars
  <2> QED BY <2>1, ClaimsStep
<1> QED BY <1>1, <1>2, SystemTypeCorrect, PTL DEF System

-----------------------------------------------------------------------------
(***************************************************************************)
(* The system of scans, approvals and executors implements                 *)
(* ExecutionPermit: the refinement mapping of ApprovalWorkflow takes every *)
(* step to a step of the abstract specification or to a stutter.           *)
(***************************************************************************)
permits == [a \in Actions |-> PermitOf(execution_status[a])]

\* Every status stands for a permit of the abstract specification.
LEMMA PermitOfTyped == \A s : PermitOf(s) \in Permit!Permits
BY DEF PermitOf, Permit!Permits

\* A write of one row's execution_status is a write of its permit.
LEMMA StatusIsPermit ==
  ASSUME NEW a, NEW s, TableTypeOK,
         execution_status' = [execution_status EXCEPT ![a] = s]
  PROVE  permits' = [permits EXCEPT ![a] = PermitOf(s)]
<1>1. \A b \in Actions :
        execution_status'[b] = IF b = a THEN s ELSE execution_status[b]
  BY DEF TableTypeOK
<1>2. \A b \in Actions :
        PermitOf(execution_status'[b])
          = IF b = a THEN PermitOf(s) ELSE PermitOf(execution_status[b])
  BY <1>1
<1> HIDE DEF PermitOf
<1> QED BY <1>2 DEF permits

\* Permits follow from execution_status alone.
LEMMA SamePermits ==
  ASSUME UNCHANGED execution_status
  PROVE  permits' = permits
BY DEF permits

\* A call that does not take or give up a row leaves the runs as they are.
LEMMA SameRuns ==
  ASSUME NEW w \in Workers,
         \A v \in Workers \ {w} : pc'[v] = pc[v] /\ job'[v] = job[v],
         pc'[w] \in HoldingPC <=> pc[w] \in HoldingPC,
         pc[w] \in HoldingPC => job'[w].action = job[w].action
  PROVE  RunningPairs' = RunningPairs
BY DEF RunningPairs

\* A call that leaves the steps of a holder ends one run.
LEMMA RunStops ==
  ASSUME NEW w \in Workers, job[w].action \in Actions,
         \A v \in Workers \ {w} : pc'[v] = pc[v] /\ job'[v] = job[v],
         pc[w] \in HoldingPC, pc'[w] \notin HoldingPC
  PROVE  /\ <<w, job[w].action>> \in RunningPairs
         /\ RunningPairs' = RunningPairs \ {<<w, job[w].action>>}
BY DEF RunningPairs

\* A call that enters them begins one.
LEMMA RunStarts ==
  ASSUME NEW w \in Workers, job[w].action \in Actions,
         \A v \in Workers \ {w} : pc'[v] = pc[v] /\ job'[v] = job[v],
         pc[w] \notin HoldingPC, pc'[w] \in HoldingPC, job'[w] = job[w]
  PROVE  /\ \A a \in Actions : <<w, a>> \notin RunningPairs
         /\ RunningPairs' = RunningPairs \cup {<<w, job[w].action>>}
BY DEF RunningPairs

-----------------------------------------------------------------------------
\* The abstract steps, in terms of the mapped variables.
LEMMA DecideMaps ==
  ASSUME NEW a \in Actions, NEW s, TableTypeOK,
         execution_status' = [execution_status EXCEPT ![a] = s],
         RunningPairs' = RunningPairs
  PROVE  Permit!Next
<1>1. permits' = [permits EXCEPT ![a] = PermitOf(s)]
  BY StatusIsPermit
<1>2. Permit!Decide(a)
  BY <1>1, PermitOfTyped DEF Permit!Decide, permits
<1> QED BY <1>2 DEF Permit!Next

\* A step that moves neither a status nor a holder is a stutter.
LEMMA StutterMaps ==
  ASSUME UNCHANGED execution_status, RunningPairs' = RunningPairs
  PROVE  UNCHANGED Permit!vars
BY SamePermits DEF Permit!vars, permits

\* A run that ends is an abstract Stop, with or without the row's permit.
LEMMA StopMaps ==
  ASSUME NEW w \in Workers, NEW a \in Actions,
         <<w, a>> \in RunningPairs,
         RunningPairs' = RunningPairs \ {<<w, a>>},
         permits' \in {permits, [permits EXCEPT ![a] = "none"]}
  PROVE  Permit!Next
<1>1. Permit!Stop(w, a)
  BY DEF Permit!Stop, permits
<1> QED BY <1>1 DEF Permit!Next

\* A claim uses up a permit that was granted, or with force one that was
\* asked for.
LEMMA ClaimMaps ==
  ASSUME TypeOK, NEW w \in Workers, Claim(w)
  PROVE  Permit!Next
<1> DEFINE a == job[w].action
<1>0. /\ TableTypeOK /\ pc \in [Workers -> WorkerPC]
      /\ job \in [Workers -> Jobs] /\ a \in Actions
  BY DEF TypeOK, ExecTypeOK, Claim
<1>1. permits' = [permits EXCEPT ![a] = "none"]
  BY <1>0, StatusIsPermit DEF Claim, PermitOf
<1>2. /\ \A b \in Actions : <<w, b>> \notin RunningPairs
      /\ RunningPairs' = RunningPairs \cup {<<w, a>>}
  BY <1>0, RunStarts DEF Claim, Goto, HoldingPC
<1>3. permits[a] \in {"granted", "asked"}
  BY <1>0 DEF Claim, StartStates, permits, PermitOf
<1>4. Permit!Begin(w, a)
  BY <1>1, <1>2 DEF Permit!Begin, Permit!Idle, permits
<1>5. Permit!Start(w, a) \/ Permit!Override(w, a)
  BY <1>3, <1>4 DEF Permit!Start, Permit!Override, permits
<1> QED BY <1>0, <1>5 DEF Permit!Next

\* A call that throws gives up its row, if it holds one, and keeps the
\* row's permit or takes it away.
LEMMA ThrowMaps ==
  ASSUME TypeOK, NEW w \in Workers, pc[w] # "idle", Throw(w),
         \/ permits' = permits
         \/ /\ pc[w] \in HoldingPC
            /\ permits' = [permits EXCEPT ![job[w].action] = "none"]
  PROVE  \/ Permit!Next
         \/ UNCHANGED <<permits, RunningPairs>>
<1>1. job[w].action \in Actions
  BY DEF TypeOK, ExecTypeOK
<1>2. CASE pc[w] \in HoldingPC
  BY <1>1, <1>2, ThrowKeepsJob, RunStops, StopMaps DEF HoldingPC
<1>3. CASE pc[w] \notin HoldingPC
  BY <1>3, ThrowKeepsJob, SameRuns DEF HoldingPC
<1> QED BY <1>2, <1>3

\* The terminal update takes the row's permit away, if it has one.
LEMMA TerminalMaps ==
  ASSUME TypeOK, NEW w \in Workers, TerminalUpdate(w)
  PROVE  /\ \E s : execution_status'
                     = [execution_status EXCEPT ![job[w].action] = s]
         /\ permits' = [permits EXCEPT ![job[w].action] = "none"]
<1>1. PICK s \in {"cancelled", "completed"} :
        execution_status' = [execution_status EXCEPT ![job[w].action] = s]
  BY DEF TerminalUpdate
<1>2. PermitOf(s) = "none"
  BY <1>1 DEF PermitOf
<1>3. permits' = [permits EXCEPT ![job[w].action] = PermitOf(s)]
  BY <1>1, StatusIsPermit DEF TypeOK
<1> QED BY <1>1, <1>2, <1>3

\* Every step of a call, a crash included, is an abstract step or a stutter.
LEMMA WorkerMaps ==
  ASSUME TypeOK, NEW w \in Workers, WorkerStep(w) \/ Crash(w)
  PROVE  [Permit!Next]_(Permit!vars)
<1>0. /\ pc \in [Workers -> WorkerPC] /\ job \in [Workers -> Jobs]
      /\ pc[w] # "idle" => job[w].action \in Actions
      /\ TableTypeOK
  BY DEF TypeOK, ExecTypeOK
<1> USE DEF HoldingPC
<1>1. CASE ReadRow(w) \/ Emit(w) \/ Return(w)
           \/ GuardPasses(w) \/ StepsDone(w) \/ StepsSkipped(w) \/ StepsFail(w)
  <2>1. UNCHANGED execution_status
    BY <1>1 DEF ReadRow, Emit, Return, GuardPasses, StepsDone, StepsSkipped,
                StepsFail, tableVars
  <2>2. RunningPairs' = RunningPairs
    BY <1>0, <1>1, SameRuns
       DEF ReadRow, Emit, Return, GuardPasses, StepsDone, StepsSkipped,
           StepsFail, Goto
  <2> QED BY <2>1, <2>2, StutterMaps
<1>2. CASE ReadRefused(w) \/ ClaimRefused(w) \/ GuardThrows(w) \/ Crash(w)
  <2>1. /\ pc[w] # "idle" /\ Throw(w)
        /\ UNCHANGED execution_status
    BY <1>2 DEF ReadRefused, ClaimRefused, GuardThrows, Crash, tableVars
  <2>2. Permit!Next \/ UNCHANGED <<permits, RunningPairs>>
    BY <2>1, SamePermits, ThrowMaps
  <2> QED BY <2>1, <2>2, StutterMaps
<1>3. CASE MarkFailed(w)
  <2>1. permits' = [permits EXCEPT ![job[w].action] = "none"]
    BY <1>0, <1>3, StatusIsPermit DEF MarkFailed, PermitOf
  <2> QED BY <1>3, <2>1, ThrowMaps DEF MarkFailed, Permit!vars, permits
<1>4. CASE Finish(w)
  <2>1. permits' = [permits EXCEPT ![job[w].action] = "none"]
    BY <1>4, TerminalMaps DEF Finish
  <2>2. /\ <<w, job[w].action>> \in RunningPairs
        /\ RunningPairs' = RunningPairs \ {<<w, job[w].action>>}
    BY <1>0, <1>4, RunStops DEF Finish, Goto
  <2> QED BY <1>0, <1>4, <2>1, <2>2, StopMaps DEF Finish
<1>5. CASE FinishFails(w)
  <2>1. RunningPairs' = RunningPairs
    BY <1>0, <1>5, SameRuns DEF FinishFails, Goto
  <2>2. CASE UNCHANGED tableVars
    BY <2>1, <2>2, StutterMaps DEF tableVars
  <2>3. CASE TerminalUpdate(w)
    BY <1>0, <1>5, <2>1, <2>3, TerminalMaps, DecideMaps DEF FinishFails
  <2> QED BY <1>5, <2>2, <2>3 DEF FinishFails
<1> QED BY <1>1, <1>2, <1>3, <1>4, <1>5, ClaimMaps DEF WorkerStep

-----------------------------------------------------------------------------
\* So is every step of the execution part of the system.
LEMMA ExecutionMaps ==
  ASSUME TypeOK, Execution
  PROVE  [Permit!Next]_(Permit!vars)
<1>1. ASSUME NEW w \in Workers, NEW a \in Actions, NEW dryRun, NEW force,
             ApiExecute(w, a, dryRun, force) \/ DeliverRequested(w, a)
      PROVE  UNCHANGED Permit!vars
  <2>1. UNCHANGED execution_status
    BY <1>1 DEF ApiExecute, DeliverRequested, tableVars
  <2>2. RunningPairs' = RunningPairs
    BY <1>1, SameRuns
       DEF ApiExecute, DeliverRequested, Goto, HoldingPC, TypeOK, ExecTypeOK
  <2> QED BY <2>1, <2>2, StutterMaps
<1> QED BY <1>1, WorkerMaps DEF Execution

\* A scan, a client or a decider writes at most one row's status, and never
\* the state of an executor.
LEMMA GovernanceMaps ==
  ASSUME ReleaseInv,
         \/ \E f \in Findings : ScanStep(f)
         \/ User
         \/ \E d \in Deciders : DeciderStep(d) \/ DeciderDies(d)
  PROVE  [Permit!Next]_(Permit!vars)
<1>0. TypeOK /\ TableTypeOK
  BY DEF ReleaseInv, SystemTypeOK, TypeOK
<1>1. RunningPairs' = RunningPairs
  <2>1. UNCHANGED <<pc, job>>
    BY DEF ScanStep, ScanCreatesRequest, RequestsRetried, RequestsEnd, User,
           CreateRequest, ReadPending, DeciderStep, WriteRequest, WriteRow,
           WriteFinding, Dispatch, DeciderDies, execVars
  <2> QED BY <2>1 DEF RunningPairs
<1>2. ASSUME NEW a, NEW s,
             execution_status' = [execution_status EXCEPT ![a] = s]
      PROVE  [Permit!Next]_(Permit!vars)
  <2>1. CASE a \in Actions
    BY <1>0, <1>1, <1>2, <2>1, DecideMaps
  <2>2. CASE a \notin Actions
    <3>1. execution_status' = execution_status
      BY <1>0, <1>2, <2>2 DEF TableTypeOK
    <3> QED BY <1>1, <3>1, StutterMaps
  <2> QED BY <2>1, <2>2
<1>3. ASSUME NEW a, NEW f, NEW p, SetRow(a, f, p)
      PROVE  [Permit!Next]_(Permit!vars)
  BY <1>2, <1>3 DEF SetRow
<1>4. ASSUME UNCHANGED execution_status
      PROVE  [Permit!Next]_(Permit!vars)
  BY <1>1, <1>4, StutterMaps
<1>5. ASSUME NEW f \in Findings, ScanStep(f)
      PROVE  [Permit!Next]_(Permit!vars)
  <2>1. CASE RouteUpdate(f) \/ RouteInsert(f)
    BY <1>3, <2>1 DEF RouteUpdate, RouteInsert
  <2>2. CASE \/ RouteRead(f) \/ RoutingEnds(f) \/ RoutingRetried(f)
             \/ (\E q \in Requests : ScanCreatesRequest(f, q))
             \/ RequestsRetried(f) \/ RequestsEnd(f)
    BY <1>4, <2>2 DEF RouteRead, RoutingEnds, RoutingRetried,
                      ScanCreatesRequest, RequestsRetried, RequestsEnd, tableVars
  <2> QED BY <1>5, <2>1, <2>2 DEF ScanStep
<1>6. ASSUME User
      PROVE  [Permit!Next]_(Permit!vars)
  <2>1. CASE \E a \in Actions, f \in Findings : InsertFromFinding(a, f)
    BY <1>3, <2>1 DEF InsertFromFinding
  <2>2. CASE UNCHANGED execution_status
    BY <1>4, <2>2
  <2> QED BY <1>6, <2>1, <2>2
          DEF User, PatchStatus, CreateRequest, ReadPending, tableVars
<1>7. ASSUME NEW d \in Deciders, DeciderStep(d) \/ DeciderDies(d)
      PROVE  [Permit!Next]_(Permit!vars)
  <2>1. CASE WriteRow(d)
    BY <1>2, <2>1 DEF WriteRow, RowDecision
  <2>2. CASE WriteRequest(d) \/ WriteFinding(d) \/ Dispatch(d)
             \/ DeciderDies(d)
    BY <1>4, <2>2
       DEF WriteRequest, WriteFinding, Dispatch, DeciderDies, tableVars
  <2> QED BY <1>7, <2>1, <2>2 DEF DeciderStep
<1> QED BY <1>5, <1>6, <1>7

\* Every decision is used up by the run it starts: scans, approvals and
\* executors, with their retries and crashes, implement ExecutionPermit.
THEOREM PermitsAreUsedOnce == System => PermitSpec
<1>1. SystemInit => Permit!Init
  <2> SUFFICES ASSUME SystemInit PROVE Permit!Init
    OBVIOUS
  <2>1. RunningPairs = {}
    BY DEF SystemInit, ExecInit, RunningPairs, HoldingPC
  <2> QED BY <2>1, PermitOfTyped DEF Permit!Init
<1>2. ReleaseInv /\ [SystemNext]_allVars => [Permit!Next]_(Permit!vars)
  <2> SUFFICES ASSUME ReleaseInv, [SystemNext]_allVars
               PROVE  [Permit!Next]_(Permit!vars)
    OBVIOUS
  <2>1. CASE UNCHANGED allVars
    <3>1. UNCHANGED execution_status /\ RunningPairs' = RunningPairs
      BY <2>1 DEF allVars, vars, tableVars, execVars, RunningPairs
    <3> QED BY <3>1, StutterMaps
  <2>2. TypeOK
    BY DEF ReleaseInv, SystemTypeOK
  <2> QED BY <2>1, <2>2, ExecutionMaps, GovernanceMaps DEF SystemNext
<1> QED BY <1>1, <1>2, SystemInitReleases, SystemStepReleases, PTL
        DEF System, PermitSpec, Permit!Spec

\* A claim is the only step from "claim" to "guard".
LEMMA StartIsClaim ==
  ASSUME TypeOK, NEW w \in Workers, NEW v \in Workers,
         WorkerStep(v) \/ Crash(v), pc[w] = "claim", pc'[w] = "guard"
  PROVE  Claim(w)
<1>0. pc \in [Workers -> WorkerPC]
  BY DEF TypeOK, ExecTypeOK
<1>1. Throw(v) => pc'[w] # "guard"
  BY ThrowKeepsJob
<1>2. CASE \/ ReadRefused(v) \/ ClaimRefused(v) \/ GuardThrows(v)
           \/ MarkFailed(v) \/ Crash(v)
  BY <1>1, <1>2 DEF ReadRefused, ClaimRefused, GuardThrows, MarkFailed, Crash
<1>3. CASE \/ ReadRow(v) \/ Claim(v) \/ GuardPasses(v) \/ StepsDone(v)
           \/ StepsSkipped(v) \/ StepsFail(v) \/ Finish(v) \/ FinishFails(v)
           \/ Emit(v) \/ Return(v)
  BY <1>0, <1>3 DEF ReadRow, Claim, GuardPasses, StepsDone, StepsSkipped,
                    StepsFail, Finish, FinishFails, Emit, Return, Goto
<1> QED BY <1>2, <1>3 DEF WorkerStep

-----------------------------------------------------------------------------
(***************************************************************************)
(* Who approves: behind every approved row there is a decided request.     *)
(* A decider at "row" has decided its request, which is linked to a row.   *)
(***************************************************************************)
RowsToDecide ==
  \A d \in Deciders :
    decider[d].at = "row" =>
      LET q == decider[d].request IN
      /\ request[q].status \in Verdicts
      /\ request[q].action \in Actions
      /\ Linked(q, request[q].action)

ApprovedWasDecided ==
  \A a \in Actions : approval_status[a] = "approved" => DecidedFor(a)

DecisionInv == ReleaseInv /\ RowsToDecide /\ ApprovedWasDecided

\* No plan is an approval.
LEMMA PlansApproveNothing ==
  \A p \in Plans \cup {FromFindingRow} : p.approval # "approved"
BY DEF Plans, WaitingPlans, WaitingPlan, BlockedPlan, AutomaticPlan,
       SemiAutomaticPlan, ManualPlan, FromFindingRow, Plan

\* A request that is decided stays decided, for the same row.
LEMMA DecisionsStay ==
  ASSUME SystemTypeOK, [SystemNext]_allVars,
         NEW q \in Requests, request[q].status \in Verdicts
  PROVE  /\ request'[q].status \in Verdicts
         /\ request'[q].type = request[q].type
         /\ request'[q].action = request[q].action
<1> DEFINE Stays == /\ request'[q].status \in Verdicts
                    /\ request'[q].type = request[q].type
                    /\ request'[q].action = request[q].action
<1>0. /\ request \in [Requests -> RequestRows]
      /\ decider \in [Deciders -> DeciderStates]
  BY DEF SystemTypeOK, ApprovalTypeOK
<1>1. CASE UNCHANGED request
  BY <1>1
<1>2. ASSUME NEW r \in Requests, NEW type, NEW a, NEW f, Insert(r, type, a, f)
      PROVE  Stays
  BY <1>0, <1>2 DEF Insert, Verdicts
<1>3. ASSUME NEW d \in Deciders, WriteRequest(d) PROVE Stays
  <2>1. decider[d].verdict \in Verdicts
    BY <1>0 DEF DeciderStates
  <2> DEFINE r == decider[d].request
  <2>2. request' = [request EXCEPT
                      ![r] = [request[r] EXCEPT !.status = decider[d].verdict]]
    BY <1>3 DEF WriteRequest
  <2>3. CASE r = q
    <3>1. request'[q] = [request[q] EXCEPT !.status = decider[d].verdict]
      BY <1>0, <2>2, <2>3
    <3>2. request[q] \in RequestRows
      BY <1>0
    <3> QED BY <2>1, <3>1, <3>2 DEF RequestRows
  <2>4. CASE r # q
    BY <1>0, <2>2, <2>4
  <2> QED BY <2>3, <2>4
<1>4. ASSUME NEW f \in Findings, ScanStep(f) PROVE Stays
  BY <1>1, <1>2, <1>4
     DEF ScanStep, ScanCreatesRequest, RequestsRetried, RequestsEnd,
         approvalVars
<1>5. ASSUME User PROVE Stays
  BY <1>1, <1>2, <1>5 DEF User, CreateRequest, ReadPending, approvalVars
<1>6. ASSUME NEW d \in Deciders, DeciderStep(d) \/ DeciderDies(d) PROVE Stays
  BY <1>1, <1>3, <1>6
     DEF DeciderStep, WriteRow, WriteFinding, Dispatch, DeciderDies
<1>7. ASSUME Execution PROVE Stays
  BY <1>1, <1>7 DEF Execution, approvalVars
<1> QED BY <1>1, <1>4, <1>5, <1>6, <1>7 DEF SystemNext, allVars, approvalVars

\* A decided row keeps its decided request.
LEMMA DecidedForStays ==
  ASSUME SystemTypeOK, [SystemNext]_allVars, NEW a, DecidedFor(a)
  PROVE  DecidedFor(a)'
<1>1. PICK q \in Requests : Linked(q, a) /\ request[q].status \in Verdicts
  BY DEF DecidedFor
<1>2. /\ request'[q].status \in Verdicts
      /\ request'[q].type = request[q].type
      /\ request'[q].action = request[q].action
  BY <1>1, DecisionsStay
<1> QED BY <1>1, <1>2 DEF DecidedFor, Linked

\* Only a decider that has decided its request makes a row approved.
LEMMA OnlyDecidersApprove ==
  ASSUME SystemTypeOK, [SystemNext]_allVars, NEW a \in Actions,
         approval_status'[a] = "approved", approval_status[a] # "approved"
  PROVE  \E d \in Deciders :
           /\ decider[d].at = "row" /\ decider[d].verdict = "approved"
           /\ request[decider[d].request].action = a
<1>0. /\ TypeOK /\ TableTypeOK
      /\ approval_status \in [Actions -> ApprovalStatus]
  BY DEF SystemTypeOK, TypeOK, TableTypeOK
<1>1. CASE UNCHANGED approval_status
  BY <1>1
<1>2. ASSUME NEW b \in Actions, NEW f, NEW p \in Plans \cup {FromFindingRow},
             SetRow(b, f, p)
      PROVE  FALSE
  BY <1>0, <1>2, PlansApproveNothing DEF SetRow
<1>3. ASSUME NEW f \in Findings, ScanStep(f) PROVE UNCHANGED approval_status
  <2>1. CASE RouteUpdate(f) \/ RouteInsert(f)
    BY <1>0, <1>2, <2>1
       DEF RouteUpdate, RouteInsert, TableTypeOK, ScanStates
  <2>2. CASE ~(RouteUpdate(f) \/ RouteInsert(f))
    BY <1>3, <2>2
       DEF ScanStep, RouteRead, RoutingEnds, RoutingRetried,
           ScanCreatesRequest, RequestsRetried, RequestsEnd, tableVars
  <2> QED BY <2>1, <2>2
<1>4. ASSUME User PROVE UNCHANGED approval_status
  <2>1. CASE \E b \in Actions, f \in Findings : InsertFromFinding(b, f)
    BY <1>2, <2>1 DEF InsertFromFinding
  <2>2. CASE ~\E b \in Actions, f \in Findings : InsertFromFinding(b, f)
    BY <1>4, <2>2 DEF User, PatchStatus, CreateRequest, ReadPending, tableVars
  <2> QED BY <2>1, <2>2
<1>5. ASSUME NEW d \in Deciders, DeciderStep(d) \/ DeciderDies(d)
      PROVE  \/ UNCHANGED approval_status
             \/ /\ decider[d].at = "row" /\ decider[d].verdict = "approved"
                /\ request[decider[d].request].action = a
  <2>1. CASE WriteRow(d)
    BY <1>0, <2>1 DEF WriteRow, RowDecision
  <2>2. CASE ~WriteRow(d)
    BY <1>5, <2>2
       DEF DeciderStep, WriteRequest, WriteFinding, Dispatch, DeciderDies,
           tableVars
  <2> QED BY <2>1, <2>2
<1>6. ASSUME Execution PROVE UNCHANGED approval_status
  <2>1. ASSUME NEW w \in Workers, WorkerStep(w) \/ Crash(w)
        PROVE  UNCHANGED approval_status
    BY <1>0, <2>1, WorkerStatuses
  <2> QED BY <1>6, <2>1
          DEF Execution, ApiExecute, DeliverRequested, tableVars
<1> QED BY <1>1, <1>3, <1>4, <1>5, <1>6
        DEF SystemNext, allVars, vars, tableVars

\* A decider comes to its row from its request, which it has just decided.
LEMMA RowsToDecideStep ==
  ASSUME DecisionInv, [SystemNext]_allVars
  PROVE  RowsToDecide'
<1>0. /\ SystemTypeOK
      /\ request \in [Requests -> RequestRows]
      /\ decider \in [Deciders -> DeciderStates]
      /\ \A d \in Deciders :
           decider[d].at # "idle" => decider[d].request \in Requests
  BY DEF DecisionInv, ReleaseInv, SystemTypeOK, ApprovalTypeOK
<1> SUFFICES ASSUME NEW d \in Deciders, decider'[d].at = "row"
             PROVE  LET q == decider'[d].request IN
                    /\ request'[q].status \in Verdicts
                    /\ request'[q].action \in Actions
                    /\ request'[q].type = "remediation_execution"
  BY DEF RowsToDecide, Linked
<1>1. CASE decider'[d] = decider[d]
  <2> DEFINE q == decider[d].request
  <2>1. /\ q \in Requests /\ request[q].status \in Verdicts
        /\ request[q].action \in Actions
        /\ request[q].type = "remediation_execution"
    BY <1>0, <1>1 DEF DecisionInv, RowsToDecide, Linked
  <2>2. /\ request'[q].status \in Verdicts
        /\ request'[q].type = request[q].type
        /\ request'[q].action = request[q].action
    BY <1>0, <2>1, DecisionsStay
  <2> QED BY <1>1, <2>1, <2>2
<1>2. CASE WriteRequest(d)
  <2> DEFINE q == decider[d].request
             linked == \E a \in Actions : Linked(q, a)
  <2>1. /\ decider[d] \in DeciderStates /\ q \in Requests
        /\ decider[d].verdict \in Verdicts
    BY <1>0, <1>2 DEF WriteRequest, DeciderStates
  <2>2. linked
    <3>1. ASSUME ~linked PROVE FALSE
      <4>1. DeciderGoto(d, "idle")
        BY <1>2, <3>1 DEF WriteRequest
      <4> QED BY <1>0, <4>1 DEF DeciderGoto, IdleDecider
    <3> QED BY <3>1
  <2>3. decider'[d].request = q
    <3>1. DeciderGoto(d, "row")
      BY <1>2, <2>2 DEF WriteRequest
    <3> QED BY <1>0, <2>1, <3>1 DEF DeciderGoto, DeciderStates
  <2>4. /\ request'[q].status = decider[d].verdict
        /\ request'[q].type = request[q].type
        /\ request'[q].action = request[q].action
    <3>1. request[q] \in RequestRows
      BY <1>0, <2>1
    <3>2. request'[q] = [request[q] EXCEPT !.status = decider[d].verdict]
      BY <1>0, <1>2, <2>1 DEF WriteRequest
    <3> QED BY <3>1, <3>2 DEF RequestRows
  <2> QED BY <2>1, <2>2, <2>3, <2>4 DEF Linked
<1>3. ASSUME NEW e \in Deciders, DeciderStep(e) \/ DeciderDies(e), ~WriteRequest(d)
      PROVE  decider'[d] = decider[d]
  <2>1. CASE e # d
    BY <1>0, <1>3, <2>1
       DEF DeciderStep, WriteRequest, WriteRow, WriteFinding, Dispatch,
           DeciderDies, DeciderGoto
  <2>2. ASSUME NEW label \in {"idle", "finding", "dispatch"},
               DeciderGoto(d, label)
        PROVE  decider'[d].at # "row"
    <3>1. decider[d] \in DeciderStates
      BY <1>0
    <3>2. decider'[d] = IF label = "idle" THEN IdleDecider
                        ELSE [decider[d] EXCEPT !.at = label]
      BY <1>0, <2>2 DEF DeciderGoto
    <3> QED BY <3>1, <3>2 DEF IdleDecider, DeciderStates
  <2>3. CASE e = d
    BY <1>3, <2>2, <2>3
       DEF DeciderStep, WriteRow, WriteFinding, Dispatch, DeciderDies,
           AfterFinding
  <2> QED BY <2>1, <2>3
<1>4. ASSUME NEW e \in Deciders, NEW q \in Requests, NEW verdict \in Verdicts,
             ReadPending(e, q, verdict)
      PROVE  decider'[d] = decider[d]
  BY <1>0, <1>4 DEF ReadPending
<1>5. CASE UNCHANGED decider
  BY <1>1, <1>5
<1>6. CASE User
  BY <1>1, <1>4, <1>5, <1>6 DEF User, CreateRequest, approvalVars
<1>7. ASSUME NEW f \in Findings, ScanStep(f) PROVE UNCHANGED decider
  BY <1>7 DEF ScanStep, ScanCreatesRequest, RequestsRetried, RequestsEnd,
              approvalVars
<1>8. CASE Execution
  BY <1>5, <1>8 DEF Execution, approvalVars
<1> QED BY <1>1, <1>2, <1>3, <1>5, <1>6, <1>7, <1>8
        DEF SystemNext, allVars, approvalVars

LEMMA DecisionInvStep == DecisionInv /\ [SystemNext]_allVars => DecisionInv'
<1> SUFFICES ASSUME DecisionInv, [SystemNext]_allVars PROVE DecisionInv'
  OBVIOUS
<1>1. ReleaseInv /\ ReleaseInv' /\ SystemTypeOK
  BY SystemStepReleases DEF DecisionInv, ReleaseInv
<1>2. ASSUME NEW a \in Actions, approval_status'[a] = "approved"
      PROVE  DecidedFor(a)'
  <2>1. DecidedFor(a)
    <3>1. CASE approval_status[a] = "approved"
      BY <3>1 DEF DecisionInv, ApprovedWasDecided
    <3>2. CASE approval_status[a] # "approved"
      <4>1. PICK d \in Deciders :
              /\ decider[d].at = "row"
              /\ request[decider[d].request].action = a
        BY <1>1, <1>2, <3>2, OnlyDecidersApprove
      <4>2. decider[d].request \in Requests
        BY <1>1, <4>1 DEF SystemTypeOK, ApprovalTypeOK
      <4> QED BY <4>1, <4>2 DEF DecisionInv, RowsToDecide, DecidedFor
    <3> QED BY <3>1, <3>2
  <2> QED BY <1>1, <2>1, DecidedForStays
<1>3. ApprovedWasDecided'
  BY <1>2 DEF ApprovedWasDecided
<1> QED BY <1>1, <1>3, RowsToDecideStep DEF DecisionInv

LEMMA DecisionInvInit == SystemInit => DecisionInv
<1> SUFFICES ASSUME SystemInit PROVE DecisionInv
  OBVIOUS
<1>1. RowsToDecide /\ ApprovedWasDecided
  BY DEF SystemInit, TableInit, ApprovalInit, RowsToDecide,
         ApprovedWasDecided, IdleDecider
<1> QED BY <1>1, SystemInitReleases DEF DecisionInv

\* No scan, retry or client approves a row: the approval of every approved
\* row has a decided request behind it.
THEOREM ApprovalsAreDecided == System => []ApprovedWasDecided
<1>1. DecisionInv => ApprovedWasDecided
  BY DEF DecisionInv
<1> QED BY <1>1, DecisionInvInit, DecisionInvStep, PTL DEF System

\* An unforced call starts a gated row only if it is approved when it starts,
\* and then a request for it has been decided.
THEOREM StartsAreApproved == System => StartsWereApproved
<1> DEFINE Approved ==
      \A w \in Workers :
        LET a == job[w].action IN
        pc[w] = "claim" /\ pc'[w] = "guard" /\ gated[a] /\ ~job[w].force
          => approval_status[a] = "approved" /\ DecidedFor(a)
<1>1. DecisionInv /\ [SystemNext]_allVars => [Approved]_allVars
  <2> SUFFICES ASSUME DecisionInv, SystemNext,
                      NEW w \in Workers, pc[w] = "claim", pc'[w] = "guard",
                      gated[job[w].action], ~job[w].force
               PROVE  /\ approval_status[job[w].action] = "approved"
                      /\ DecidedFor(job[w].action)
    OBVIOUS
  <2>0. TypeOK /\ job[w].action \in Actions
    BY DEF DecisionInv, ReleaseInv, SystemTypeOK, TypeOK, ExecTypeOK
  <2>1. Execution
    BY DEF SystemNext, ScanStep, ScanCreatesRequest, RequestsRetried,
           RequestsEnd, User, CreateRequest, ReadPending, DeciderStep,
           WriteRequest, WriteRow, WriteFinding, Dispatch, DeciderDies,
           execVars
  <2>2. ASSUME NEW v \in Workers, NEW a, NEW dryRun, NEW force,
               ApiExecute(v, a, dryRun, force) \/ DeliverRequested(v, a)
        PROVE  FALSE
    BY <2>0, <2>2 DEF ApiExecute, DeliverRequested, Goto, TypeOK, ExecTypeOK
  <2>3. PICK v \in Workers : WorkerStep(v) \/ Crash(v)
    BY <2>1, <2>2 DEF Execution
  <2>4. Claim(w)
    BY <2>0, <2>3, StartIsClaim
  <2>5. execution_status[job[w].action] \in {"approved", "queued"}
    BY <2>4 DEF Claim, StartStates
  <2> QED BY <2>0, <2>5
          DEF DecisionInv, ReleaseInv, GatedNeedsApproval, ApprovedWasDecided
<1> QED BY <1>1, DecisionInvInit, DecisionInvStep, PTL
        DEF System, StartsWereApproved

-----------------------------------------------------------------------------
(***************************************************************************)
(* The executor's own guarantees inside the system.  What it announces is  *)
(* recorded whatever the others write.  That it is alone with a row is     *)
(* not: an approval or a routing update may release a row whose commands   *)
(* run.  The theorems say that nothing else does, and that nothing else    *)
(* can bring two calls together.                                           *)
(***************************************************************************)

\* An approver, or a scan that routes again, writes a row that exists.
Releases(a) ==
  \/ \E d \in Deciders :
       /\ WriteRow(d) /\ decider[d].verdict = "approved"
       /\ request[decider[d].request].action = a
  \/ \E f \in Findings : RouteUpdate(f) /\ scan[f].target = a

Held(a) == \E w \in Workers : pc[w] \in HoldingPC /\ job[w].action = a

\* Nobody releases a row while its commands run.
Undisturbed == \A a \in Actions : Held(a) => ~ Releases(a)

\* What executors do in the system they do by themselves.
LEMMA ExecutionIsNext == Execution => Next
<1> SUFFICES ASSUME Execution PROVE Next
  OBVIOUS
<1>1. ASSUME NEW w \in Workers, NEW a \in Actions, NEW dryRun \in ApiDryRuns,
             NEW force \in ApiForces, ApiExecute(w, a, dryRun, force)
      PROVE  Client(w, a)
  BY <1>1, ApprovalAssumption DEF Client
<1> QED BY <1>1 DEF Execution, Next, Client

\* Scans, clients and approvers leave the calls of the executor, and what it
\* has recorded, alone.
LEMMA OthersLeaveCalls ==
  ASSUME [SystemNext]_allVars, ~ Execution
  PROVE  UNCHANGED <<pc, job, announced, executed_at>>
<1>1. ASSUME NEW f \in Findings, ScanStep(f)
      PROVE  UNCHANGED <<pc, job, announced, executed_at>>
  BY <1>1 DEF ScanStep, RouteRead, RouteUpdate, RouteInsert, RoutingEnds,
              RoutingRetried, ScanCreatesRequest, RequestsRetried, RequestsEnd,
              SetRow, tableVars, execVars
<1>2. CASE User
  BY <1>2 DEF User, InsertFromFinding, PatchStatus, CreateRequest, ReadPending,
              SetRow, tableVars, execVars
<1>3. ASSUME NEW d \in Deciders, DeciderStep(d) \/ DeciderDies(d)
      PROVE  UNCHANGED <<pc, job, announced, executed_at>>
  BY <1>3 DEF DeciderStep, WriteRequest, WriteRow, WriteFinding, Dispatch,
              DeciderDies, tableVars, execVars
<1>4. CASE UNCHANGED allVars
  BY <1>4 DEF allVars, vars, tableVars, execVars
<1> QED BY <1>1, <1>2, <1>3, <1>4 DEF SystemNext

LEMMA SystemEmitterStep ==
  ASSUME ReleaseInv, EmitterRecorded, AnnouncedWasExecuted,
         [SystemNext]_allVars
  PROVE  EmitterRecorded' /\ AnnouncedWasExecuted'
<1>1. CASE Execution
  BY <1>1, ExecutionIsNext, EmitterStep DEF ReleaseInv, SystemTypeOK
<1>2. CASE ~ Execution
  BY <1>2, OthersLeaveCalls DEF EmitterRecorded, AnnouncedWasExecuted
<1> QED BY <1>1, <1>2

LEMMA SystemInitEmitter ==
  SystemInit => EmitterRecorded /\ AnnouncedWasExecuted
BY DEF SystemInit, ExecInit, EmitterRecorded, AnnouncedWasExecuted

\* In the whole system as well, remediation.execution.completed is sent only
\* after a terminal update: approvals and scans do not take executed_at back.
THEOREM SystemAnnouncesExecuted == System => []AnnouncedWasExecuted
BY SystemInitReleases, SystemStepReleases, SystemInitEmitter,
   SystemEmitterStep, PTL DEF System

-----------------------------------------------------------------------------
\* A row that is written exists from then on.
LEMMA RowsStay ==
  ASSUME SystemTypeOK, [SystemNext]_allVars, NEW a \in Actions,
         execution_status[a] # "absent"
  PROVE  execution_status'[a] # "absent"
<1>0. /\ TypeOK /\ TableTypeOK
      /\ execution_status \in [Actions -> ExecutionStatus \cup {"absent"}]
  BY DEF SystemTypeOK, TypeOK, TableTypeOK
<1>1. CASE UNCHANGED execution_status
  BY <1>1
<1>2. ASSUME NEW b \in Actions, NEW s \in ExecutionStatus,
             execution_status' = [execution_status EXCEPT ![b] = s]
      PROVE  execution_status'[a] # "absent"
  BY <1>0, <1>2 DEF ExecutionStatus
<1>3. ASSUME NEW b \in Actions, NEW f, NEW p \in Plans \cup {FromFindingRow},
             SetRow(b, f, p)
      PROVE  execution_status'[a] # "absent"
  <2>1. p.execution \in ExecutionStatus
    BY PlansTyped, FromFindingRowTyped
  <2> QED BY <1>2, <1>3, <2>1 DEF SetRow
<1>4. ASSUME NEW f \in Findings, ScanStep(f)
      PROVE  execution_status'[a] # "absent"
  <2>1. CASE RouteUpdate(f) \/ RouteInsert(f)
    BY <1>0, <1>3, <2>1
       DEF RouteUpdate, RouteInsert, TableTypeOK, ScanStates
  <2>2. CASE ~(RouteUpdate(f) \/ RouteInsert(f))
    BY <1>1, <1>4, <2>2
       DEF ScanStep, RouteRead, RoutingEnds, RoutingRetried,
           ScanCreatesRequest, RequestsRetried, RequestsEnd, tableVars
  <2> QED BY <2>1, <2>2
<1>5. CASE User
  BY <1>1, <1>3, <1>5
     DEF User, InsertFromFinding, PatchStatus, CreateRequest, ReadPending,
         tableVars
<1>6. ASSUME NEW d \in Deciders, DeciderStep(d) \/ DeciderDies(d)
      PROVE  execution_status'[a] # "absent"
  <2>1. CASE WriteRow(d)
    BY <1>0, <2>1 DEF WriteRow, RowDecision
  <2>2. CASE ~ WriteRow(d)
    BY <1>1, <1>6, <2>2
       DEF DeciderStep, WriteRequest, WriteFinding, Dispatch, DeciderDies,
           tableVars
  <2> QED BY <2>1, <2>2
<1>7. CASE Execution
  <2>1. ASSUME NEW w \in Workers, Claim(w) \/ MarkFailed(w) \/ TerminalUpdate(w)
        PROVE  execution_status'[a] # "absent"
    BY <1>0, <2>1 DEF Claim, MarkFailed, TerminalUpdate
  <2> QED BY <1>1, <1>7, <2>1
          DEF Execution, ApiExecute, DeliverRequested, WorkerStep, Crash,
              ReadRow, ReadRefused, ClaimRefused, GuardThrows, GuardPasses,
              StepsDone, StepsSkipped, StepsFail, Finish, FinishFails, Emit,
              Return, tableVars
<1> QED BY <1>1, <1>4, <1>5, <1>6, <1>7
        DEF SystemNext, allVars, vars, tableVars

\* Among the rows that exist, only a release makes one startable that was not.
LEMMA ReopenIsRelease ==
  ASSUME ReleaseInv, [SystemNext]_allVars, NEW a \in Actions,
         execution_status[a] \notin Startable \cup {"absent"},
         execution_status'[a] \in Startable
  PROVE  Releases(a)
<1>0. /\ SystemTypeOK /\ TypeOK /\ TableTypeOK
      /\ execution_status \in [Actions -> ExecutionStatus \cup {"absent"}]
  BY DEF ReleaseInv, SystemTypeOK, TypeOK, TableTypeOK
<1>1. CASE UNCHANGED execution_status
  BY <1>1
<1>2. ASSUME NEW b \in Actions, NEW f, NEW p, SetRow(b, f, p)
      PROVE  b = a
  BY <1>0, <1>2 DEF SetRow
<1>3. ASSUME NEW b \in Actions, Fresh(b)
      PROVE  b # a
  BY <1>3 DEF Fresh, Existing
<1>4. ASSUME NEW f \in Findings, ScanStep(f)
      PROVE  Releases(a)
  <2>1. CASE RouteUpdate(f)
    <3>1. /\ scan[f].target \in Actions
          /\ SetRow(scan[f].target, f, candidate[f])
      BY <1>0, <2>1 DEF RouteUpdate, TableTypeOK, ScanStates
    <3>2. scan[f].target = a
      BY <1>2, <3>1
    <3> QED BY <2>1, <3>2 DEF Releases
  <2>2. CASE RouteInsert(f)
    BY <1>2, <1>3, <2>2 DEF RouteInsert
  <2>3. CASE ~(RouteUpdate(f) \/ RouteInsert(f))
    BY <1>1, <1>4, <2>3
       DEF ScanStep, RouteRead, RoutingEnds, RoutingRetried,
           ScanCreatesRequest, RequestsRetried, RequestsEnd, tableVars
  <2> QED BY <2>1, <2>2, <2>3
<1>5. CASE User
  <2>1. ASSUME NEW b \in Actions, NEW f \in Findings, InsertFromFinding(b, f)
        PROVE  FALSE
    BY <1>2, <1>3, <2>1 DEF InsertFromFinding
  <2> QED BY <1>1, <1>5, <2>1
          DEF User, PatchStatus, CreateRequest, ReadPending, tableVars
<1>6. ASSUME NEW d \in Deciders, DeciderStep(d) \/ DeciderDies(d)
      PROVE  Releases(a)
  <2>1. CASE WriteRow(d)
    <3>1. /\ request[decider[d].request].action = a
          /\ decider[d].verdict = "approved"
      BY <1>0, <2>1 DEF WriteRow, RowDecision, Startable
    <3> QED BY <2>1, <3>1 DEF Releases
  <2>2. CASE ~ WriteRow(d)
    BY <1>1, <1>6, <2>2
       DEF DeciderStep, WriteRequest, WriteFinding, Dispatch, DeciderDies,
           tableVars
  <2> QED BY <2>1, <2>2
<1>7. CASE Execution
  <2>1. [Next]_vars
    BY <1>7, ExecutionIsNext
  <2> QED BY <1>0, <2>1, NoReopen
<1> QED BY <1>1, <1>4, <1>5, <1>6, <1>7
        DEF SystemNext, allVars, vars, tableVars

\* No client, no retry, no crash and no failure of an execution makes a row
\* startable that was claimed, ended or cancelled: an approval does, or a scan
\* that routes the row again.
THEOREM OnlyReleasesReopen ==
  System => [][\A a \in Actions :
                 /\ execution_status[a] \notin Startable \cup {"absent"}
                 /\ execution_status'[a] \in Startable
                 => Releases(a)]_allVars
<1>1. ReleaseInv /\ [SystemNext]_allVars
        => [\A a \in Actions :
              /\ execution_status[a] \notin Startable \cup {"absent"}
              /\ execution_status'[a] \in Startable
              => Releases(a)]_allVars
  BY ReopenIsRelease
<1> QED BY <1>1, SystemInitReleases, SystemStepReleases, PTL DEF System

-----------------------------------------------------------------------------
\* A row some call holds was claimed, so it exists.
HeldExists == \A a \in Actions : Held(a) => execution_status[a] # "absent"

AloneInv == ReleaseInv /\ ExecInv /\ HeldExists

\* A call comes to hold a row by a claim, and the claim writes the row.
LEMMA HeldExistsStep ==
  ASSUME AloneInv, [SystemNext]_allVars
  PROVE  HeldExists'
<1>0. /\ SystemTypeOK /\ TypeOK /\ TableTypeOK
      /\ execution_status \in [Actions -> ExecutionStatus \cup {"absent"}]
  BY DEF AloneInv, ReleaseInv, SystemTypeOK, TypeOK, TableTypeOK
<1> SUFFICES ASSUME NEW w \in Workers, pc'[w] \in HoldingPC,
                    job'[w].action \in Actions
             PROVE  execution_status'[job'[w].action] # "absent"
  BY DEF HeldExists, Held
<1>1. CASE pc[w] \in HoldingPC /\ job'[w] = job[w]
  <2>1. execution_status[job[w].action] # "absent"
    BY <1>1 DEF AloneInv, HeldExists, Held
  <2> QED BY <1>0, <1>1, <2>1, RowsStay
<1>2. CASE Execution
  <2>1. CASE Claim(w)
    BY <1>0, <2>1 DEF Claim
  <2> QED BY <1>0, <1>1, <1>2, <2>1, ExecutionIsNext, HolderStep
<1>3. CASE ~ Execution
  BY <1>1, <1>3, OthersLeaveCalls
<1> QED BY <1>2, <1>3

\* While nobody releases a row that is held, the invariant of the executor
\* holds in the system.
LEMMA AloneStep ==
  ASSUME AloneInv, [SystemNext]_allVars, [Undisturbed]_allVars
  PROVE  AloneInv'
<1>0. ReleaseInv /\ ExecInv /\ TypeOK
  BY DEF AloneInv, ExecInv
<1>1. ReleaseInv' /\ TypeOK'
  <2>1. ReleaseInv'
    BY <1>0, SystemStepReleases
  <2> QED BY <2>1 DEF ReleaseInv, SystemTypeOK
<1>2. HeldExists'
  BY HeldExistsStep
<1>3. CASE Execution
  BY <1>0, <1>1, <1>2, <1>3, ExecutionIsNext, ExecInvStep DEF AloneInv
<1>4. CASE ~ Execution
  <2>1. UNCHANGED <<pc, job, announced, executed_at>>
    BY <1>4, OthersLeaveCalls
  <2>2. OneExecutor' /\ EmitterRecorded' /\ AnnouncedWasExecuted'
    BY <1>0, <2>1
       DEF ExecInv, OneExecutor, EmitterRecorded, AnnouncedWasExecuted
  <2>3. ASSUME NEW w \in Workers, pc[w] \in HoldingPC
        PROVE  execution_status'[job[w].action] \notin Startable
    <3>1. job[w].action \in Actions
      BY <1>0, <2>3 DEF TypeOK, ExecTypeOK, HoldingPC
    <3>2. /\ Held(job[w].action)
          /\ execution_status[job[w].action] \notin Startable
      BY <1>0, <2>3 DEF Held, ExecInv, HolderCloses
    <3>3. execution_status[job[w].action] # "absent"
      BY <3>1, <3>2 DEF AloneInv, HeldExists
    <3>4. CASE UNCHANGED allVars
      BY <3>2, <3>4 DEF allVars, vars, tableVars
    <3>5. CASE Undisturbed
      BY <1>0, <3>1, <3>2, <3>3, <3>5, ReopenIsRelease DEF Undisturbed
    <3> QED BY <3>4, <3>5
  <2>4. HolderCloses'
    BY <2>1, <2>3 DEF HolderCloses
  <2> QED BY <1>1, <1>2, <2>2, <2>4 DEF AloneInv, ExecInv
<1> QED BY <1>3, <1>4

\* Two calls run the commands of one row at the same time only if an approver
\* or a scan released it while one of them ran: any number of clients, events,
\* retries and crashes does not bring them together.
THEOREM UndisturbedRunsAreAlone ==
  System /\ [][Undisturbed]_allVars => []OneExecutor
<1>1. SystemInit => AloneInv
  <2> SUFFICES ASSUME SystemInit PROVE AloneInv
    OBVIOUS
  <2>1. \A w \in Workers : pc[w] = "idle"
    BY DEF SystemInit, ExecInit
  <2>2. ReleaseInv /\ TypeOK /\ EmitterRecorded /\ AnnouncedWasExecuted
    BY SystemInitReleases, SystemInitEmitter DEF ReleaseInv, SystemTypeOK
  <2>3. HolderCloses /\ OneExecutor /\ HeldExists
    BY <2>1 DEF HolderCloses, OneExecutor, HeldExists, Held, HoldingPC
  <2> QED BY <2>2, <2>3 DEF AloneInv, ExecInv
<1>2. AloneInv /\ [SystemNext]_allVars /\ [Undisturbed]_allVars => AloneInv'
  BY AloneStep
<1>3. AloneInv => OneExecutor
  BY DEF AloneInv, ExecInv
<1> QED BY <1>1, <1>2, <1>3, PTL DEF System
=============================================================================
