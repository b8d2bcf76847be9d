--------------------------- MODULE ApprovalWorkflow ---------------------------
(***************************************************************************)
(* Approval requests and the remediation actions they release: the scan    *)
(* workflow routes a finding and asks for approval, approvers decide       *)
(* through POST /api/approval-requests/{id}/approve and .../reject, and    *)
(* the executor runs what was released.                                    *)
(*                                                                         *)
(* A decider is one call of approve or reject.  It reads the request,      *)
(* then writes the request, the row and the finding by id in separate      *)
(* statements, none of which tests what another call wrote meanwhile.      *)
(***************************************************************************)
EXTENDS RemediationExecution

CONSTANTS
  Requests,     \* row ids of approval_requests
  Deciders,     \* concurrent calls of approve and reject
  ApiRequests,  \* the types of the requests clients create by themselves
  ApiForces,    \* the values of force that clients of the execute API send
  ApiDryRuns,   \* the values of dryRun that they send
  NoRequest     \* the decider is idle

ASSUME ApprovalAssumption ==
  /\ ApiRequests \subseteq {"remediation_execution", "other"}
  /\ ApiForces \subseteq BOOLEAN
  /\ ApiDryRuns \subseteq BOOLEAN
  /\ NoRequest \notin Requests

VARIABLES
  request,          \* approval_requests: status, type, linked row and finding
  finding_approval, \* the column approval_status of findings
  decider           \* the local state of every approve or reject call

approvalVars == <<request, finding_approval, decider>>

RequestStatus == {"absent", "pending", "approved", "rejected"}
Verdicts == {"approved", "rejected"}
DeciderPC == {"idle", "request", "row", "finding", "dispatch"}

AbsentRequest == [status |-> "absent", type |-> "other",
                  action |-> NoAction, finding |-> NoFinding]

IdleDecider == [at |-> "idle", verdict |-> "rejected", request |-> NoRequest]

RequestRows ==
  [status : RequestStatus, type : {"remediation_execution", "other"},
   action : Actions \cup {NoAction}, finding : Findings \cup {NoFinding}]

DeciderStates ==
  [at : DeciderPC, verdict : Verdicts, request : Requests \cup {NoRequest}]

ApprovalTypeOK ==
  /\ request \in [Requests -> RequestRows]
  /\ finding_approval \in [Findings -> ApprovalStatus]
  /\ decider \in [Deciders -> DeciderStates]
  /\ \A d \in Deciders :
       decider[d].at # "idle" => decider[d].request \in Requests

ApprovalInit ==
  /\ request = [q \in Requests |-> AbsentRequest]
  /\ finding_approval = [f \in Findings |-> candidate[f].approval]
  /\ decider = [d \in Deciders |-> IdleDecider]

-----------------------------------------------------------------------------
Insert(q, type, a, f) ==
  /\ request[q].status = "absent"
  /\ request' = [request EXCEPT
                   ![q] = [status |-> "pending", type |-> type,
                           action |-> a, finding |-> f]]

\* POST /api/approval-requests: an existing row, a finding or both are linked.
CreateRequest(q, type, a, f) ==
  /\ a \in Existing \cup {NoAction}
  /\ a # NoAction \/ f # NoFinding
  /\ Insert(q, type, a, f)
  /\ UNCHANGED <<finding_approval, decider, tableVars, scanVars, execVars>>

\* The step create-approval-requests of the scan workflow.
ScanCreatesRequest(f, q) ==
  /\ scan[f].at = "approvals"
  /\ Insert(q, "remediation_execution", scan[f].target, f)
  /\ scan' = [scan EXCEPT ![f] = At("requested", @.target, @.attempt)]
  /\ UNCHANGED <<finding_approval, decider, candidate, tableVars, execVars>>

\* Mutant of RequestsRetried: retries without a limit.
RequestsRetriedForever(f) ==
  /\ scan[f].at \in {"approvals", "requested"}
  /\ scan' = [scan EXCEPT ![f] = At("approvals", @.target, @.attempt + 1)]
  /\ UNCHANGED <<candidate, tableVars, execVars, approvalVars>>

\* The insert for a later finding of the loop fails: the step runs again, and
\* the requests already inserted stay.
RequestsRetried(f) ==
  /\ scan[f].at \in {"approvals", "requested"}
  /\ scan' = [scan EXCEPT
                ![f] = IF @.attempt < MaxAttempts
                       THEN At("approvals", @.target, @.attempt + 1)
                       ELSE At("done", @.target, @.attempt)]
  /\ UNCHANGED <<candidate, tableVars, execVars, approvalVars>>

RequestsEnd(f) ==
  /\ scan[f].at = "requested"
  /\ scan' = [scan EXCEPT ![f] = At("done", @.target, @.attempt)]
  /\ UNCHANGED <<candidate, tableVars, execVars, approvalVars>>

DeciderGoto(d, label) ==
  decider' = [decider EXCEPT
                ![d] = IF label = "idle" THEN IdleDecider
                                         ELSE [@ EXCEPT !.at = label]]

\* The call reads its request and finds it pending.
ReadPending(d, q, verdict) ==
  /\ decider[d].at = "idle"
  /\ request[q].status = "pending"
  /\ decider' = [decider EXCEPT
                   ![d] = [at |-> "request", verdict |-> verdict,
                           request |-> q]]
  /\ UNCHANGED <<request, finding_approval, tableVars, scanVars, execVars>>

\* Deciding the request decides the row.
Linked(q, a) ==
  request[q].type = "remediation_execution" /\ request[q].action = a

\* The request is updated by id, even if it is no longer pending.
WriteRequest(d) ==
  LET q == decider[d].request
      linked == \E a \in Actions : Linked(q, a)
  IN
  /\ decider[d].at = "request"
  /\ request' = [request EXCEPT ![q].status = decider[d].verdict]
  /\ DeciderGoto(d, IF linked THEN "row" ELSE "idle")
  /\ UNCHANGED <<finding_approval, tableVars, scanVars, execVars>>

\* Where the call goes when the finding is done with.
AfterFinding(d) ==
  IF decider[d].verdict = "approved" THEN "dispatch" ELSE "idle"

\* Mutant of RowDecision: the column approval_status is forgotten.
RowDecisionWithoutApproval(a, verdict) ==
  /\ execution_status' = [execution_status EXCEPT
                            ![a] = IF verdict = "approved" THEN "approved"
                                                           ELSE "cancelled"]
  /\ action_status' = [action_status EXCEPT ![a] = verdict]
  /\ UNCHANGED approval_status

\* Mutant of RowDecision: a rejection leaves execution_status as it is.
RowDecisionWithoutCancel(a, verdict) ==
  /\ execution_status' = [execution_status EXCEPT
                            ![a] = IF verdict = "approved" THEN "approved"
                                                           ELSE @]
  /\ approval_status' = [approval_status EXCEPT ![a] = verdict]
  /\ action_status' = [action_status EXCEPT ![a] = verdict]

\* Mutant of RowDecision: the older action_status is forgotten.
RowDecisionWithoutAction(a, verdict) ==
  /\ execution_status' = [execution_status EXCEPT
                            ![a] = IF verdict = "approved" THEN "approved"
                                                           ELSE "cancelled"]
  /\ approval_status' = [approval_status EXCEPT ![a] = verdict]
  /\ UNCHANGED action_status

\* Approved becomes executable, rejected is cancelled.
RowDecision(a, verdict) ==
  /\ execution_status' = [execution_status EXCEPT
                            ![a] = IF verdict = "approved" THEN "approved"
                                                           ELSE "cancelled"]
  /\ approval_status' = [approval_status EXCEPT ![a] = verdict]
  /\ action_status' = [action_status EXCEPT ![a] = verdict]

\* The linked row is updated by id, whatever its execution_status.
WriteRow(d) ==
  LET q == decider[d].request IN
  /\ decider[d].at = "row"
  /\ RowDecision(request[q].action, decider[d].verdict)
  /\ DeciderGoto(d, IF request[q].finding # NoFinding THEN "finding"
                                                      ELSE AfterFinding(d))
  /\ UNCHANGED <<finding_id, execution_mode, gated, executed_at,
                 request, finding_approval, scanVars, execVars>>

\* The finding is updated; an error of this statement is not looked at.
WriteFinding(d) ==
  LET f == request[decider[d].request].finding IN
  /\ decider[d].at = "finding"
  /\ \/ finding_approval' =
          [finding_approval EXCEPT ![f] = decider[d].verdict]
     \/ MayCrash /\ UNCHANGED finding_approval
  /\ DeciderGoto(d, AfterFinding(d))
  /\ UNCHANGED <<request, tableVars, scanVars, execVars>>

\* Mutant of Dispatch: only automatic rows are sent.
DispatchAutomatic(d) ==
  LET a == request[decider[d].request].action IN
  /\ decider[d].at = "dispatch"
  /\ requested' = [requested EXCEPT
                     ![a] = IF execution_mode[a] # "automatic" THEN @ ELSE @ + 1]
  /\ DeciderGoto(d, "idle")
  /\ UNCHANGED <<pc, job, announced, request, finding_approval, tableVars,
                 scanVars>>

\* The row's execution_mode is read again: unless it is manual, the executor
\* is asked for.  A delay of the send is one of the event.
Dispatch(d) ==
  LET a == request[decider[d].request].action IN
  /\ decider[d].at = "dispatch"
  /\ requested' = [requested EXCEPT
                     ![a] = IF execution_mode[a] = "manual" THEN @ ELSE @ + 1]
  /\ DeciderGoto(d, "idle")
  /\ UNCHANGED <<pc, job, announced, request, finding_approval, tableVars,
                 scanVars>>

\* A statement whose error is looked at fails, or the process dies.  The
\* request may be decided by now, and then no later call is let through.
DeciderDies(d) ==
  /\ MayCrash
  /\ decider[d].at # "idle"
  /\ DeciderGoto(d, "idle")
  /\ UNCHANGED <<request, finding_approval, tableVars, scanVars, execVars>>

DeciderStep(d) ==
  WriteRequest(d) \/ WriteRow(d) \/ WriteFinding(d) \/ Dispatch(d)

-----------------------------------------------------------------------------
allVars == <<vars, approvalVars>>

SystemInit == TableInit /\ ExecInit /\ ApprovalInit

ScanStep(f) ==
  \/ /\ \/ RouteRead(f) \/ RouteUpdate(f) \/ RouteInsert(f)
        \/ RoutingEnds(f) \/ RoutingRetried(f)
     /\ UNCHANGED <<execVars, approvalVars>>
  \/ \E q \in Requests : ScanCreatesRequest(f, q)
  \/ RequestsRetried(f)
  \/ RequestsEnd(f)

User ==
  \/ \E a \in Actions :
       /\ \/ \E f \in Findings : InsertFromFinding(a, f)
          \/ \E s \in PatchStatuses : PatchStatus(a, s)
       /\ UNCHANGED <<execVars, approvalVars>>
  \/ \E q \in Requests, type \in ApiRequests,
        a \in Actions \cup {NoAction}, f \in Findings \cup {NoFinding} :
       CreateRequest(q, type, a, f)
  \/ \E d \in Deciders, q \in Requests, verdict \in Verdicts :
       ReadPending(d, q, verdict)

Execution ==
  /\ \E w \in Workers :
       \/ \E a \in Actions, dryRun \in ApiDryRuns, force \in ApiForces :
            ApiExecute(w, a, dryRun, force)
       \/ \E a \in Actions : DeliverRequested(w, a)
       \/ WorkerStep(w)
       \/ Crash(w)
  /\ UNCHANGED <<scanVars, approvalVars>>

SystemNext ==
  \/ \E f \in Findings : ScanStep(f)
  \/ User
  \/ \E d \in Deciders : DeciderStep(d) \/ DeciderDies(d)
  \/ Execution

System == SystemInit /\ [][SystemNext]_allVars

-----------------------------------------------------------------------------
SystemTypeOK == TypeOK /\ ApprovalTypeOK

\* A row the guardrails or the human-in-the-loop switch hold back may start
\* only when an approver has released it, whatever scan, retry, approval or
\* executor wrote it last.
GatedNeedsApproval ==
  \A a \in Actions :
    gated[a] /\ execution_status[a] \in {"approved", "queued"}
      => approval_status[a] = "approved"

\* A row whose rejection is the last decision written to it may not start.
RejectedStaysStopped ==
  \A a \in Actions :
    approval_status[a] = "rejected" => execution_status[a] \notin Startable

\* "actionStatus completed/failed must be set by the execution worker
\* endpoint" (src/app/api/remediation-actions/[id]/status/route.ts): the
\* older status never claims an execution the executor did not record.
CompletedIsExecuted ==
  \A a \in Actions :
    action_status[a] \in {"completed", "failed"}
      => execution_status[a] = action_status[a]

\* An approver has decided a request for this row.
DecidedFor(a) ==
  \E q \in Requests : Linked(q, a) /\ request[q].status \in Verdicts

\* An unforced call starts the commands of a gated row only when, at that very
\* moment, the row is approved and a request for it has been decided: what the
\* call read before does not matter, and no scan, retry or client approves.
StartsWereApproved ==
  [][\A w \in Workers :
       LET a == job[w].action IN
       pc[w] = "claim" /\ pc'[w] = "guard" /\ gated[a] /\ ~job[w].force
         => approval_status[a] = "approved" /\ DecidedFor(a)]_allVars

\* The permits the rows stand for, and who runs on one.
PermitOf(status) ==
  CASE status \in {"approved", "queued"} -> "granted"
    [] status = "pending" -> "asked"
    [] OTHER -> "none"

RunningPairs ==
  {p \in Workers \X Actions : pc[p[1]] \in HoldingPC /\ job[p[1]].action = p[2]}

Permit == INSTANCE ExecutionPermit WITH
  permit <- [a \in Actions |-> PermitOf(execution_status[a])],
  running <- RunningPairs

\* Approvals, scans and the executor implement ExecutionPermit: no start
\* without a permit, and every start uses one up, so two events, a retry or a
\* second call never run twice on one decision.
PermitSpec == Permit!Spec

\* Approvers and scans that do not die write what they decided.
SystemFairness ==
  /\ \A d \in Deciders : WF_allVars(DeciderStep(d))
  /\ \A w \in Workers :
       WF_allVars(WorkerStep(w) /\ UNCHANGED <<scanVars, approvalVars>>)
  /\ \A a \in Actions :
       SF_allVars(/\ \E w \in Workers : DeliverRequested(w, a)
                  /\ UNCHANGED <<scanVars, approvalVars>>)

FairSystem == System /\ SystemFairness

\* An approved row that nobody has to start by hand.
AwaitsExecution(a) ==
  /\ approval_status[a] = "approved" /\ execution_status[a] = "approved"
  /\ execution_mode[a] # "manual"

\* "non-manual approved remediation actions automatically emit execution
\* request events and run through an Inngest remediation executor workflow"
\* (README.md): such a row is executed, unless a rejection or a scan takes the
\* approval back before; although two calls decide at once and a scan routes the
\* row again, although an event may come while the row may not start and use up
\* its attempts, and although an approval can be written under a running
\* execution, whose end overwrites it.
ApprovedIsExecuted ==
  \A a \in Actions :
    AwaitsExecution(a)
      ~> \/ execution_status[a] \in {"completed", "failed", "cancelled"}
         \/ approval_status[a] # "approved"

\* The same sentence of README.md: an event that was sent is never left behind.
DispatchedIsTaken ==
  \A a \in Actions : requested[a] > 0 ~> requested[a] = 0

\* Decisions at rest: nobody is in the middle of deciding.
Settled == \A d \in Deciders : decider[d].at = "idle"

\* "rejecting `remediation_execution` requests now cancels linked remediation
\* execution" (README.md): when every call has returned, the row of a
\* rejected request may not start.
RejectedRequestStops ==
  Settled =>
    \A q \in Requests, a \in Actions :
      Linked(q, a) /\ request[q].status = "rejected"
        => execution_status[a] \notin Startable

\* What the gated row invariants need of each other to be inductive.
ReleaseInv ==
  /\ SystemTypeOK
  /\ GatedNeedsApproval
  /\ RejectedStaysStopped
=============================================================================
