--------------------------- MODULE RemediationTable ---------------------------
(***************************************************************************)
(* The table remediation_actions and the operations that write a row of it *)
(* outside an execution and outside an approval decision: the insert of    *)
(* POST /api/remediation-actions/from-finding, the step of the scan        *)
(* workflow that routes a finding (route-remediation-candidates in         *)
(* scan-tenant.ts, routeRemediationCandidate in remediationAgent.ts) and   *)
(* the patch of PATCH /api/remediation-actions/{id}/status.                *)
(*                                                                         *)
(* Each column a property tells apart is a variable, a function of the row *)
(* id, under the column's own name.  Ids stand for created_at order: a row *)
(* inserted later has the larger id.                                       *)
(***************************************************************************)
EXTENDS Integers, RemediationPlans

CONSTANTS
  Actions,        \* row ids of remediation_actions
  Findings,       \* ids of findings rows; a scan run inserts its own
  MaxAttempts,    \* attempts Inngest makes at a step
  PatchStatuses,  \* the action_status values a client sends in a PATCH
  NoAction,       \* no row was found
  NoFinding       \* no finding is named

ASSUME TableAssumption ==
  /\ Actions \subseteq Nat
  /\ NoAction \notin Actions
  /\ NoFinding \notin Findings
  /\ MaxAttempts \in Nat \ {0}
  /\ PatchStatuses \subseteq
       {"proposed", "approved", "rejected", "in_progress", "cancelled"}

VARIABLES
  finding_id,        \* the finding a row belongs to
  execution_status,  \* operational state; "absent" while there is no row
  action_status,     \* the older, user-visible state
  approval_status,   \* governance state
  execution_mode,    \* manual, semi_automatic or automatic
  gated,             \* routed as something that must not run unattended
  executed_at,       \* whether the column executed_at is set
  candidate,         \* the plan of each finding, fixed by a memoized step
  scan               \* where the scan workflow is with each finding

tableVars == <<finding_id, execution_status, action_status, approval_status,
               execution_mode, gated, executed_at>>

scanVars == <<candidate, scan>>

ExecutionStatus == {"pending", "approved", "queued", "running", "completed",
                    "failed", "cancelled"}
ActionStatus == {"proposed", "approved", "rejected", "in_progress",
                 "completed", "failed", "cancelled"}
ApprovalStatus == {"not_required", "pending", "approved", "rejected"}
ExecutionMode == {"manual", "semi_automatic", "automatic"}

\* The row POST from-finding inserts: the column defaults of the migrations,
\* and an execution_payload without guardrails.
FromFindingRow == Plan("manual", "pending", "proposed", "not_required", FALSE)

Existing == {a \in Actions : execution_status[a] # "absent"}

Fresh(a) == a \in Actions \ Existing /\ \A b \in Existing : b < a

RowsOf(f) == {a \in Existing : finding_id[a] = f}

\* order by created_at desc limit 1
IsLatest(f, a) ==
  \/ a \in RowsOf(f) /\ \A b \in RowsOf(f) : b <= a
  \/ a = NoAction /\ RowsOf(f) = {}

ScanPC == {"route", "write", "routed", "approvals", "requested", "done"}

At(label, target, attempt) ==
  [at |-> label, target |-> target, attempt |-> attempt]

ScanStates == [at : ScanPC, target : Actions \cup {NoAction},
               attempt : 1..MaxAttempts]

TableTypeOK ==
  /\ finding_id \in [Actions -> Findings \cup {NoFinding}]
  /\ execution_status \in [Actions -> ExecutionStatus \cup {"absent"}]
  /\ action_status \in [Actions -> ActionStatus]
  /\ approval_status \in [Actions -> ApprovalStatus]
  /\ execution_mode \in [Actions -> ExecutionMode]
  /\ gated \in [Actions -> BOOLEAN]
  /\ executed_at \in [Actions -> BOOLEAN]
  /\ candidate \in [Findings -> Plans]
  /\ scan \in [Findings -> ScanStates]

\* Before the first scan or the first POST the table is empty.
TableInit ==
  /\ finding_id = [a \in Actions |-> NoFinding]
  /\ execution_status = [a \in Actions |-> "absent"]
  /\ action_status = [a \in Actions |-> "proposed"]
  /\ approval_status = [a \in Actions |-> "not_required"]
  /\ execution_mode = [a \in Actions |-> "manual"]
  /\ gated = [a \in Actions |-> FALSE]
  /\ executed_at = [a \in Actions |-> FALSE]
  /\ candidate \in [Findings -> Plans]
  /\ scan = [f \in Findings |-> At("route", NoAction, 1)]

-----------------------------------------------------------------------------
\* The columns an insert or a routing update assigns, all in one statement.
SetRow(a, f, p) ==
  /\ finding_id' = [finding_id EXCEPT ![a] = f]
  /\ execution_status' = [execution_status EXCEPT ![a] = p.execution]
  /\ action_status' = [action_status EXCEPT ![a] = p.action]
  /\ approval_status' = [approval_status EXCEPT ![a] = p.approval]
  /\ execution_mode' = [execution_mode EXCEPT ![a] = p.mode]
  /\ gated' = [gated EXCEPT ![a] = p.gated]
  /\ UNCHANGED executed_at

\* POST /api/remediation-actions/from-finding.
InsertFromFinding(a, f) ==
  /\ Fresh(a)
  /\ SetRow(a, f, FromFindingRow)
  /\ UNCHANGED scanVars

\* routeRemediationCandidate selects the finding's latest row; the write
\* comes in a later round trip.  An error of the select is not looked at: it
\* reads like no row.
RouteRead(f) ==
  /\ scan[f].at = "route"
  /\ \E a \in Actions \cup {NoAction} :
       /\ IsLatest(f, a) \/ a = NoAction
       /\ scan' = [scan EXCEPT ![f] = At("write", a, @.attempt)]
  /\ UNCHANGED <<candidate, tableVars>>

\* The row that was the latest is overwritten by id, whatever it holds now.
RouteUpdate(f) ==
  /\ scan[f].at = "write"
  /\ scan[f].target # NoAction
  /\ SetRow(scan[f].target, f, candidate[f])
  /\ scan' = [scan EXCEPT ![f] = At("routed", @.target, @.attempt)]
  /\ UNCHANGED candidate

\* No row was found: a row is inserted, even if one exists by now, or existed
\* when the select failed.
RouteInsert(f) ==
  /\ scan[f].at = "write"
  /\ scan[f].target = NoAction
  /\ \E a \in Actions :
       /\ Fresh(a)
       /\ SetRow(a, f, candidate[f])
       /\ scan' = [scan EXCEPT ![f] = At("routed", a, @.attempt)]
  /\ UNCHANGED candidate

\* The step has routed every finding of the run and its result is memoized.
RoutingEnds(f) ==
  /\ scan[f].at = "routed"
  /\ scan' = [scan EXCEPT
                ![f] = IF candidate[f].approval = "pending"
                       THEN At("approvals", @.target, 1)
                       ELSE At("done", @.target, 1)]
  /\ UNCHANGED <<candidate, tableVars>>

\* The routing of a later finding of the loop throws, or the process dies:
\* Inngest runs the whole step again, or the run fails.
RoutingRetried(f) ==
  /\ scan[f].at \in {"write", "routed"}
  /\ scan' = [scan EXCEPT
                ![f] = IF @.attempt < MaxAttempts
                       THEN At("route", NoAction, @.attempt + 1)
                       ELSE At("done", @.target, @.attempt)]
  /\ UNCHANGED <<candidate, tableVars>>

\* PATCH status: any status but completed and failed, and only that column.
PatchStatus(a, s) ==
  /\ a \in Existing
  /\ action_status' = [action_status EXCEPT ![a] = s]
  /\ UNCHANGED <<finding_id, execution_status, approval_status,
                 execution_mode, gated, executed_at, scanVars>>
=============================================================================
