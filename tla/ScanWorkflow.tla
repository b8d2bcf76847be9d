----------------------------- MODULE ScanWorkflow -----------------------------
(***************************************************************************)
(* Runs: rows of scan_runs and the Inngest function runs that work on      *)
(* them, scanTenantRequested for securewatch/scan.requested and            *)
(* monitoringAlertReceived for an alert; who asks for scans (clients, the  *)
(* cron function enqueueScheduledScans, the revalidation after an          *)
(* executed remediation); and what a run leaves behind for its findings.   *)
(*                                                                         *)
(* A function is a sequence of memoized steps.  A step that throws, or     *)
(* whose acknowledgement is lost, runs again as a whole, over what it      *)
(* wrote before; after MaxAttempts the function catches the error, marks   *)
(* its run failed in one more step and gives up.  Steps that write none of *)
(* the rows below (the scanner, compliance, assets, priorities, incidents, *)
(* evidence) only matter in that they may throw: OtherStepThrows.          *)
(***************************************************************************)
EXTENDS Integers, FiniteSets

CONSTANTS
  Targets,       \* ids of scan_targets rows
  Workflows,     \* Inngest runs of the two functions
  ScanRuns,      \* ids of scan_runs rows
  Findings,      \* ids of findings rows
  Scheduled,     \* the targets of enabled schedules
  MaxAttempts,   \* attempts of a step
  MaxFailures,   \* steps that throw or lose their acknowledgement
  MaxRequested,  \* scan requests that wait at a time, for a target
  NoTarget,      \* the target of an alert, and of an idle function run
  NoRun          \* no scan_runs row yet

ASSUME ScanAssumption ==
  /\ NoTarget \notin Targets
  /\ NoRun \notin ScanRuns \cup Workflows
  /\ Scheduled \subseteq Targets
  /\ MaxAttempts \in Nat \ {0}
  /\ {MaxFailures, MaxRequested} \subseteq Nat

VARIABLES
  requested,      \* securewatch/scan.requested events to be taken, by target
  active,         \* the targets with status active
  run_status,     \* scan_runs.status, or absent
  workflow,       \* scan_runs.workflow_run_id
  finding_run,    \* findings.scan_run_id
  approval,       \* findings.approval_status, undecided before evaluation
  wanted,         \* findings whose decision_result asks for a remediation
  routed,         \* findings that have a remediation action
  asked,          \* findings that have a pending approval request
  function,       \* local state of every function run, with memoized results
  cron,           \* targets enqueueScheduledScans has still to send, or idle
  failures        \* how many failures there were

runVars == <<run_status, workflow>>
findingVars == <<finding_run, approval, wanted, routed, asked>>
vars == <<requested, active, runVars, findingVars, function, cron, failures>>

\* The steps of a function that write rows, in order.
Following ==
  [scan  |-> [create |-> "target", target |-> "running", running |-> "insert",
              insert |-> "evaluate", evaluate |-> "route",
              route |-> "ask", ask |-> "complete", complete |-> "done",
              fail |-> "dead"],
   alert |-> [create |-> "running", running |-> "insert",
              insert |-> "complete", complete |-> "done", fail |-> "dead"]]

Steps == {"create", "target", "running", "insert", "evaluate", "route", "ask",
          "complete", "fail"}

IdleFunction == [at |-> "idle", kind |-> "scan", target |-> NoTarget,
                 run |-> NoRun, inserted |-> {}, attempt |-> 1]

FunctionStates ==
  [at : Steps \cup {"idle", "done", "dead"}, kind : {"scan", "alert"},
   target : Targets \cup {NoTarget}, run : ScanRuns \cup {NoRun},
   inserted : SUBSET Findings, attempt : 1..MaxAttempts]

TypeOK ==
  /\ requested \in [Targets -> 0..MaxRequested]
  /\ active \subseteq Targets
  /\ run_status \in
       [ScanRuns -> {"absent", "queued", "running", "completed", "failed"}]
  /\ workflow \in [ScanRuns -> Workflows \cup {NoRun}]
  /\ \A s \in ScanRuns : run_status[s] = "absent" <=> workflow[s] = NoRun
  /\ finding_run \in [Findings -> ScanRuns \cup {NoRun}]
  /\ approval \in [Findings -> {"undecided", "not_required", "pending"}]
  /\ wanted \subseteq Findings /\ routed \subseteq Findings
  /\ asked \subseteq Findings
  /\ function \in [Workflows -> FunctionStates]
  /\ \A w \in Workflows :
       function[w].at \in Steps => function[w].at \in DOMAIN Following[function[w].kind]
  /\ cron \in [at : {"idle", "send"}, todo : SUBSET Targets]
  /\ failures \in 0..MaxFailures

Init ==
  /\ requested = [t \in Targets |-> 0]
  /\ active \in SUBSET Targets
  /\ run_status = [s \in ScanRuns |-> "absent"]
  /\ workflow = [s \in ScanRuns |-> NoRun]
  /\ finding_run = [f \in Findings |-> NoRun]
  /\ approval = [f \in Findings |-> "undecided"]
  /\ wanted = {} /\ routed = {} /\ asked = {}
  /\ function = [w \in Workflows |-> IdleFunction]
  /\ cron = [at |-> "idle", todo |-> {}]
  /\ failures = 0

-----------------------------------------------------------------------------
\* inngest.send, as far as it is bounded here.
Send(t) ==
  /\ requested[t] < MaxRequested
  /\ requested' = [requested EXCEPT ![t] = @ + 1]

\* POST /api/scans/request
RequestScan(t) ==
  /\ Send(t)
  /\ UNCHANGED <<active, runVars, findingVars, function, cron, failures>>

\* The status of a target changes in the database alone: no route writes it,
\* and every scan reads it.
ToggleTarget(t) ==
  /\ active' = IF t \in active THEN active \ {t} ELSE active \cup {t}
  /\ UNCHANGED <<requested, runVars, findingVars, function, cron, failures>>

TargetOf(s) == function[workflow[s]].target

\* postRemediationRevalidationRequested: the target of the run that found
\* what an executed remediation was for; an alert has none.
Revalidate(f) ==
  /\ f \in routed
  /\ TargetOf(finding_run[f]) # NoTarget
  /\ Send(TargetOf(finding_run[f]))
  /\ UNCHANGED <<active, runVars, findingVars, function, cron, failures>>

\* The single step of enqueueScheduledScans: the targets are collected once,
\* those of a tenant only if active, then sent one by one.
CronLoads(due) ==
  /\ cron.at = "idle"
  /\ cron' = [at |-> "send", todo |-> due]
  /\ UNCHANGED <<requested, active, runVars, findingVars, function, failures>>

CronSends(t) ==
  /\ t \in cron.todo
  /\ Send(t)
  /\ cron' = [cron EXCEPT !.todo = @ \ {t}]
  /\ UNCHANGED <<active, runVars, findingVars, function, failures>>

\* All sent: the schedules are stamped.  Or the step throws half way and its
\* retry loads everything again.
CronEnds ==
  /\ cron.at = "send"
  /\ cron' = [at |-> "idle", todo |-> {}]
  /\ \/ cron.todo = {} /\ UNCHANGED failures
     \/ failures < MaxFailures /\ failures' = failures + 1
  /\ UNCHANGED <<requested, active, runVars, findingVars, function>>

-----------------------------------------------------------------------------
Goto(w, r) == function' = [function EXCEPT ![w] = r]

\* The step is acknowledged: its result, if any, is part of r.
Acknowledged(w, r) ==
  /\ Goto(w, [r EXCEPT !.at = Following[r.kind][r.at], !.attempt = 1])
  /\ UNCHANGED failures

\* Mutant of AfterLastAttempt: complete-run is outside the try block.
AfterLastAttemptUncaught(r) ==
  IF r.run = NoRun \/ r.at \in {"complete", "fail"} THEN "dead" ELSE "fail"

\* The catch block: there is a run to mark, unless it could not be created;
\* what the marking step throws is only logged.
AfterLastAttempt(r) == IF r.run = NoRun \/ r.at = "fail" THEN "dead" ELSE "fail"

\* Mutant of Retried: one attempt too many.
RetriedOnceMore(w) ==
  LET r == function[w] IN
  Goto(w, IF r.attempt <= MaxAttempts
          THEN [r EXCEPT !.attempt = @ + 1]
          ELSE [r EXCEPT !.at = AfterLastAttempt(r), !.attempt = 1])

Retried(w) ==
  LET r == function[w] IN
  Goto(w, IF r.attempt < MaxAttempts
          THEN [r EXCEPT !.attempt = @ + 1]
          ELSE [r EXCEPT !.at = AfterLastAttempt(r), !.attempt = 1])

\* The step throws, dies or loses its acknowledgement.
Faulty(w) ==
  /\ failures < MaxFailures
  /\ failures' = failures + 1
  /\ Retried(w)

\* The step has done its writes and is acknowledged with r, or not.
DoneOrLost(w, r) == Acknowledged(w, r) \/ Faulty(w)

\* A run of a function starts; an alert has no target.
Start(w, t) ==
  /\ function[w].at = "idle"
  /\ \/ /\ t \in Targets /\ requested[t] > 0
        /\ requested' = [requested EXCEPT ![t] = @ - 1]
        /\ Goto(w, [IdleFunction EXCEPT !.at = "create", !.target = t])
     \/ /\ t = NoTarget
        /\ Goto(w, [IdleFunction EXCEPT !.at = "create", !.kind = "alert"])
        /\ UNCHANGED requested
  /\ UNCHANGED <<active, runVars, findingVars, cron, failures>>

\* create-run-record, create-alert-run
CreateRun(w, s) ==
  /\ function[w].at = "create"
  /\ run_status[s] = "absent"
  /\ run_status' = [run_status EXCEPT ![s] = "queued"]
  /\ workflow' = [workflow EXCEPT ![s] = w]
  /\ DoneOrLost(w, [function[w] EXCEPT !.run = s])
  /\ UNCHANGED <<requested, active, findingVars, cron>>

\* load-target; "Scan target is not active" is no fault, but the step is
\* tried again all the same.
LoadTarget(w) ==
  /\ function[w].at = "target"
  /\ \/ function[w].target \in active /\ Acknowledged(w, function[w])
     \/ function[w].target \notin active /\ Retried(w) /\ UNCHANGED failures
     \/ Faulty(w)
  /\ UNCHANGED <<requested, active, runVars, findingVars, cron>>

\* Mutant of Marks: rows are found by workflow_run_id.
MarksOfWorkflow(w, mark) ==
  run_status' =
    [s \in ScanRuns |-> IF workflow[s] = w THEN mark ELSE run_status[s]]

\* An update of scan_runs by id.
Marks(w, mark) == run_status' = [run_status EXCEPT ![function[w].run] = mark]

\* Mutant of MarkRun: an error of the update is not looked at.
MarkRunUnseen(w, label, mark) ==
  /\ function[w].at = label
  /\ Marks(w, mark) \/ UNCHANGED run_status
  /\ DoneOrLost(w, function[w])
  /\ UNCHANGED <<requested, active, workflow, findingVars, cron>>

MarkRun(w, label, mark) ==
  /\ function[w].at = label
  /\ Marks(w, mark)
  /\ DoneOrLost(w, function[w])
  /\ UNCHANGED <<requested, active, workflow, findingVars, cron>>

\* mark-run-running, complete-run, fail-run and their siblings for alerts
MarkRunRunning(w) == MarkRun(w, "running", "running")

CompleteRun(w) == MarkRun(w, "complete", "completed")

FailRun(w) == MarkRun(w, "fail", "failed")

\* insert-findings, create-finding-if-needed: all in one statement.
InsertFindings(w, rows) ==
  /\ function[w].at = "insert"
  /\ \A f \in rows : finding_run[f] = NoRun
  /\ function[w].kind = "alert" => Cardinality(rows) <= 1
  /\ finding_run' = [f \in Findings |-> IF f \in rows THEN function[w].run
                                                      ELSE finding_run[f]]
  /\ DoneOrLost(w, [function[w] EXCEPT !.inserted = rows])
  /\ UNCHANGED <<requested, active, runVars, approval, wanted, routed, asked,
                 cron>>

\* evaluate-findings decides finding after finding: whether it needs an
\* approval and whether its action is one that asks for a remediation
\* (shouldCreateRemediationAction), each with or without the other.  A retry
\* may decide otherwise.  Only an acknowledged loop has been through all of
\* them, so that its memoized decisions are those of the columns.
EvaluateFindings(w, through, gated, remediable) ==
  LET rows == function[w].inserted IN
  /\ function[w].at = "evaluate"
  /\ approval' = [f \in Findings |-> IF f \in gated THEN "pending"
                                     ELSE IF f \in through THEN "not_required"
                                     ELSE approval[f]]
  /\ wanted' = (wanted \ through) \cup remediable
  /\ \/ through = rows /\ Acknowledged(w, function[w])
     \/ Faulty(w)
  /\ UNCHANGED <<requested, active, runVars, finding_run, routed, asked, cron>>

\* prepare-remediation-candidates
Candidates(w) == function[w].inserted \cap wanted

\* Mutant of RouteCandidates: what a candidate throws is logged and the loop
\* goes on.
RouteCandidatesSwallowed(w, through) ==
  /\ function[w].at = "route"
  /\ through \subseteq Candidates(w)
  /\ routed' = routed \cup through
  /\ Acknowledged(w, function[w])
  /\ UNCHANGED <<requested, active, runVars, finding_run, approval, wanted,
                 asked, cron>>

\* route-remediation-candidates: any other finding gets no row, even if it
\* waits for an approval.
RouteCandidates(w, through) ==
  /\ function[w].at = "route"
  /\ through \subseteq Candidates(w)
  /\ routed' = routed \cup through
  /\ \/ through = Candidates(w) /\ Acknowledged(w, function[w])
     \/ Faulty(w)
  /\ UNCHANGED <<requested, active, runVars, finding_run, approval, wanted,
                 asked, cron>>

\* What was routed and needs an approval.
Gated(w) == {f \in function[w].inserted \cap routed : approval[f] = "pending"}

\* Mutant of CreateRequests: an error is logged, as in the evidence step.
CreateRequestsSwallowed(w, through) ==
  /\ function[w].at = "ask"
  /\ through \subseteq Gated(w)
  /\ asked' = asked \cup through
  /\ Acknowledged(w, function[w])
  /\ UNCHANGED <<requested, active, runVars, finding_run, approval, wanted,
                 routed, cron>>

\* create-approval-requests
CreateRequests(w, through) ==
  /\ function[w].at = "ask"
  /\ through \subseteq Gated(w)
  /\ asked' = asked \cup through
  /\ \/ through = Gated(w) /\ Acknowledged(w, function[w])
     \/ Faulty(w)
  /\ UNCHANGED <<requested, active, runVars, finding_run, approval, wanted,
                 routed, cron>>

\* A step without a tracked write throws, or this one before its first.
OtherStepThrows(w) ==
  /\ function[w].at \in Steps
  /\ Faulty(w)
  /\ UNCHANGED <<requested, active, runVars, findingVars, cron>>

-----------------------------------------------------------------------------
FunctionStep(w) ==
  \/ \E s \in ScanRuns : CreateRun(w, s)
  \/ LoadTarget(w) \/ MarkRunRunning(w) \/ CompleteRun(w) \/ FailRun(w)
  \/ \E rows \in SUBSET Findings : InsertFindings(w, rows)
  \/ \E through \in SUBSET function[w].inserted :
       \E gated \in SUBSET through : \E remediable \in SUBSET through :
         EvaluateFindings(w, through, gated, remediable)
  \/ \E through \in SUBSET function[w].inserted :
       RouteCandidates(w, through) \/ CreateRequests(w, through)

Requesters ==
  \/ \E t \in Targets : RequestScan(t) \/ ToggleTarget(t) \/ CronSends(t)
  \/ \E f \in Findings : Revalidate(f)
  \/ \E due \in SUBSET Scheduled : CronLoads(due)
  \/ CronEnds

Next ==
  \/ Requesters
  \/ \E w \in Workflows :
       \/ FunctionStep(w) \/ OtherStepThrows(w)
       \/ \E t \in Targets \cup {NoTarget} : Start(w, t)

Spec == Init /\ [][Next]_vars

\* Inngest goes on calling a function until it has returned or given up.
FairSpec == Spec /\ \A w \in Workflows : WF_vars(FunctionStep(w))

-----------------------------------------------------------------------------
\* The retry of the first step leaves queued rows behind, but of all the rows
\* of a function run only the memoized one ever leaves that state.
OneLiveRun ==
  \A s1, s2 \in ScanRuns :
    /\ {run_status[s1], run_status[s2]} \cap {"absent", "queued"} = {}
    /\ workflow[s1] = workflow[s2]
    => s1 = s2

\* A scan that has returned has decided all findings it knows of; exactly those
\* whose decision asks for a remediation have an action, and of these exactly
\* those that need an approval have a request somebody can approve.  It does
\* not matter which steps ran half and again, or that an earlier attempt of the
\* evaluation decided otherwise.  A finding that needs an approval but asks for
\* no remediation is asked about by nobody.
CompletedIsTriaged ==
  \A w \in Workflows :
    function[w].kind = "scan" /\ function[w].at = "done" =>
      \A f \in function[w].inserted :
        /\ approval[f] # "undecided"
        /\ f \in routed <=> f \in wanted
        /\ f \in asked <=> f \in wanted /\ approval[f] = "pending"

\* The status a function run shows, under the row it has memoized.
Shown(w) ==
  IF function[w].run = NoRun THEN "none" ELSE run_status[function[w].run]

Ledger ==
  INSTANCE ScanLedger
    WITH shown <- [w \in Workflows |-> Shown(w)],
         returned <- {w \in Workflows : function[w].at = "done"}

\* Although every step may run several times and rows are left behind, the row
\* of a function run goes from queued to running to completed, and only a
\* function that has not returned shows failed: the runs implement ScanLedger.
LedgerSpec == Ledger!Spec

\* So many failures can use up all attempts of a step and then those of the
\* step in the catch block: nothing marks the run failed any more.
Exhausted == failures >= 2 * MaxAttempts

\* A run that shows as running ends as completed or failed, whatever fails,
\* unless the marking of the failure fails for good as well.
RunEnds ==
  \A s \in ScanRuns :
    run_status[s] = "running"
      ~> run_status[s] \in {"completed", "failed"} \/ Exhausted

\* A remediation that waits for an approval: its finding's columns say so.
AwaitsApproval(f) == f \in wanted /\ approval[f] = "pending"

\* "Approvals: Generated from decision outputs requiring approval"
\* (README.md), as far as the code goes: a remediation that waits for an
\* approval is asked about, unless a retry decides otherwise, or its run says
\* failed: it is not left waiting under a run that looks fine.
AskedOrFailed ==
  \A f \in Findings :
    AwaitsApproval(f) ~>
      \/ f \in asked \/ ~ AwaitsApproval(f)
      \/ run_status[finding_run[f]] = "failed" \/ Exhausted
=============================================================================
