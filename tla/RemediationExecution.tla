------------------------- MODULE RemediationExecution -------------------------
(***************************************************************************)
(* The execution of remediation actions:                                   *)
(* executeRemediationActionById (src/lib/remediationExecution.ts), called  *)
(* by POST /api/remediation-actions/{id}/execute and by the Inngest        *)
(* function remediation-execution-requested.                               *)
(*                                                                         *)
(* A worker is one call.  Between two of its steps the process awaits the  *)
(* database, a child process or Inngest, and anyone may run.  Inngest runs *)
(* its step again when it throws or its acknowledgement is lost, up to     *)
(* MaxAttempts times; a call of the API is not retried.                    *)
(***************************************************************************)
EXTENDS RemediationTable

CONSTANTS
  Workers,      \* concurrent calls of the executor
  LiveBlocked,  \* what isSimulationLiveExecutionBlocked answers: TRUE in a
                \* simulation or demo deployment, both when the environment
                \* changes or deployments share the database
  MayCrash,     \* whether processes die and messages to them are lost
  MaxRequested  \* bound: events other parts of the system send by themselves

ASSUME ExecutionAssumption ==
  /\ LiveBlocked \in SUBSET BOOLEAN \ {{}}
  /\ MayCrash \in BOOLEAN
  /\ MaxRequested \in Nat

VARIABLES
  pc,         \* where each worker is
  job,        \* the arguments of its call and what it read
  requested,  \* per row, the remediation.execution.requested events in flight
  announced   \* the rows with a remediation.execution.completed event

execVars == <<pc, job, requested, announced>>

WorkerPC == {"idle", "start", "claim", "guard", "steps", "finish",
             "cancel", "fail", "emit", "return"}

\* Between the claim of the row and its terminal update.
HoldingPC == {"guard", "steps", "finish", "cancel", "fail"}

Job(a, source, dryRun, force) ==
  [action |-> a, source |-> source, dryRun |-> dryRun, force |-> force,
   attempt |-> 1]

IdleJob == Job(NoAction, "api", FALSE, FALSE)

Jobs ==
  [action : Actions \cup {NoAction}, source : {"api", "workflow"},
   dryRun : BOOLEAN, force : BOOLEAN, attempt : 1..MaxAttempts]

ExecTypeOK ==
  /\ pc \in [Workers -> WorkerPC]
  /\ job \in [Workers -> Jobs]
  /\ \A w \in Workers : pc[w] # "idle" => job[w].action \in Actions
  /\ requested \in [Actions -> Nat]
  /\ announced \subseteq Actions

ExecInit ==
  /\ pc = [w \in Workers |-> "idle"]
  /\ job = [w \in Workers |-> IdleJob]
  /\ requested = [a \in Actions |-> 0]
  /\ announced = {}

-----------------------------------------------------------------------------
Goto(w, label) == pc' = [pc EXCEPT ![w] = label]

Retried(w) == job[w].source = "workflow" /\ job[w].attempt < MaxAttempts

\* Mutant of Throw: retries without a limit.
ThrowForever(w) ==
  \/ /\ job[w].source = "workflow"
     /\ Goto(w, "start")
     /\ job' = [job EXCEPT ![w].attempt = @ + 1]
  \/ /\ job[w].source = "api"
     /\ Goto(w, "idle")
     /\ job' = [job EXCEPT ![w] = IdleJob]

\* The call ends with an exception: Inngest starts the step again, the API
\* answers 500.
Throw(w) ==
  \/ /\ Retried(w)
     /\ Goto(w, "start")
     /\ job' = [job EXCEPT ![w].attempt = @ + 1]
  \/ /\ ~Retried(w)
     /\ Goto(w, "idle")
     /\ job' = [job EXCEPT ![w] = IdleJob]

\* Mutant of StartStates: the status an approval writes is forgotten.
StartStatesWithoutApproved(w) ==
  {"queued"} \cup (IF job[w].force THEN {"pending"} ELSE {})

\* Mutant of StartStates: a pending row needs no force.
StartStatesWithPending(w) == {"approved", "queued", "pending"}

StartStates(w) ==
  {"approved", "queued"} \cup (IF job[w].force THEN {"pending"} ELSE {})

\* POST /api/remediation-actions/{id}/execute.
ApiExecute(w, a, dryRun, force) ==
  /\ pc[w] = "idle"
  /\ a \in Existing
  /\ Goto(w, "start")
  /\ job' = [job EXCEPT ![w] = Job(a, "api", dryRun, force)]
  /\ UNCHANGED <<requested, announced, tableVars>>

\* Mutant of DeliverRequested: the event is delivered again and again.
DeliverRequestedAgain(w, a) ==
  /\ pc[w] = "idle"
  /\ requested[a] > 0
  /\ Goto(w, "start")
  /\ job' = [job EXCEPT ![w] = Job(a, "workflow", FALSE, FALSE)]
  /\ UNCHANGED <<requested, announced, tableVars>>

\* Inngest delivers a remediation.execution.requested event.
DeliverRequested(w, a) ==
  /\ pc[w] = "idle"
  /\ requested[a] > 0
  /\ requested' = [requested EXCEPT ![a] = @ - 1]
  /\ Goto(w, "start")
  /\ job' = [job EXCEPT ![w] = Job(a, "workflow", FALSE, FALSE)]
  /\ UNCHANGED <<announced, tableVars>>

\* The row is read and its execution_status may start.
ReadRow(w) ==
  /\ pc[w] = "start"
  /\ execution_status[job[w].action] \in StartStates(w)
  /\ Goto(w, "claim")
  /\ UNCHANGED <<job, requested, announced, tableVars>>

\* The row is read and may not start: "Execution not allowed from status".
ReadRefused(w) ==
  /\ pc[w] = "start"
  /\ execution_status[job[w].action] \notin StartStates(w)
  /\ Throw(w)
  /\ UNCHANGED <<requested, announced, tableVars>>

\* Mutant of Claim: the update tests the id alone.
ClaimUntested(w) ==
  LET a == job[w].action IN
  /\ pc[w] = "claim"
  /\ execution_status' = [execution_status EXCEPT ![a] = "running"]
  /\ action_status' = [action_status EXCEPT ![a] = "in_progress"]
  /\ Goto(w, "guard")
  /\ UNCHANGED <<job, requested, announced, finding_id, approval_status,
                 execution_mode, gated, executed_at>>

\* update ... in (execution_status, allowedStartStates): one statement, so
\* the status is tested and set in one step.
Claim(w) ==
  LET a == job[w].action IN
  /\ pc[w] = "claim"
  /\ execution_status[a] \in StartStates(w)
  /\ execution_status' = [execution_status EXCEPT ![a] = "running"]
  /\ action_status' = [action_status EXCEPT ![a] = "in_progress"]
  /\ Goto(w, "guard")
  /\ UNCHANGED <<job, requested, announced, finding_id, approval_status,
                 execution_mode, gated, executed_at>>

\* No row matched: "stale state or concurrent execution".
ClaimRefused(w) ==
  /\ pc[w] = "claim"
  /\ execution_status[job[w].action] \notin StartStates(w)
  /\ Throw(w)
  /\ UNCHANGED <<requested, announced, tableVars>>

\* assertLiveRemediationExecutionAllowed throws after the claim and outside
\* the try block: the row is left running.  So would the throw for an adapter
\* that is not supported, which follows it and stops dry runs too; no writer of
\* the repository stores such a key, and where MayCrash a Crash at "guard" does
\* what it would.
GuardThrows(w) ==
  /\ pc[w] = "guard"
  /\ TRUE \in LiveBlocked /\ ~job[w].dryRun
  /\ Throw(w)
  /\ UNCHANGED <<requested, announced, tableVars>>

GuardPasses(w) ==
  /\ pc[w] = "guard"
  /\ FALSE \in LiveBlocked \/ job[w].dryRun
  /\ Goto(w, "steps")
  /\ UNCHANGED <<job, requested, announced, tableVars>>

\* Mutant of StepsDone: the event is sent before the terminal update.
StepsDoneAnnounceFirst(w) ==
  /\ pc[w] = "steps"
  /\ Goto(w, "emit")
  /\ UNCHANGED <<job, requested, announced, tableVars>>

\* buildExecutionSteps: a dry run simulates every step, a live run executes
\* the configured commands.
StepsDone(w) ==
  /\ pc[w] = "steps"
  /\ Goto(w, "finish")
  /\ UNCHANGED <<job, requested, announced, tableVars>>

\* No command is configured for any step of a live run.
StepsSkipped(w) ==
  /\ pc[w] = "steps"
  /\ ~job[w].dryRun
  /\ Goto(w, "cancel")
  /\ UNCHANGED <<job, requested, announced, tableVars>>

\* A command fails or times out.
StepsFail(w) ==
  /\ pc[w] = "steps"
  /\ ~job[w].dryRun
  /\ Goto(w, "fail")
  /\ UNCHANGED <<job, requested, announced, tableVars>>

\* Mutant of MarkFailed: the row is queued again for a retry.
MarkFailedRequeues(w) ==
  LET a == job[w].action IN
  /\ pc[w] = "fail"
  /\ execution_status' = [execution_status EXCEPT ![a] = "queued"]
  /\ Throw(w)
  /\ UNCHANGED <<requested, announced, finding_id, action_status,
                 approval_status, execution_mode, gated, executed_at>>

\* Mutant of MarkFailed: the failure is not recorded.
MarkFailedForgets(w) ==
  /\ pc[w] = "fail"
  /\ Throw(w)
  /\ UNCHANGED <<requested, announced, tableVars>>

\* markFailed updates by id alone, then the error is thrown again.
MarkFailed(w) ==
  LET a == job[w].action IN
  /\ pc[w] = "fail"
  /\ execution_status' = [execution_status EXCEPT ![a] = "failed"]
  /\ action_status' = [action_status EXCEPT ![a] = "failed"]
  /\ Throw(w)
  /\ UNCHANGED <<requested, announced, finding_id, approval_status,
                 execution_mode, gated, executed_at>>

\* The columns the terminal update assigns, by id alone: a live run whose
\* steps were all skipped is cancelled, any other is completed.
TerminalUpdate(w) ==
  LET a == job[w].action
      skipped == pc[w] = "cancel"
  IN
  /\ execution_status' = [execution_status EXCEPT
                            ![a] = IF skipped THEN "cancelled" ELSE "completed"]
  /\ action_status' = [action_status EXCEPT
                         ![a] = IF skipped THEN "approved" ELSE "completed"]
  /\ executed_at' = [executed_at EXCEPT ![a] = TRUE]
  /\ UNCHANGED <<finding_id, approval_status, execution_mode, gated>>

Finish(w) ==
  /\ pc[w] \in {"finish", "cancel"}
  /\ TerminalUpdate(w)
  /\ Goto(w, IF pc[w] = "cancel" THEN "return" ELSE "emit")
  /\ UNCHANGED <<job, requested, announced>>

\* The terminal update returns an error, and the row is to be marked failed:
\* the statement failed, or it took effect and the answer was lost.
FinishFails(w) ==
  /\ pc[w] \in {"finish", "cancel"}
  /\ \/ UNCHANGED tableVars
     \/ MayCrash /\ TerminalUpdate(w)
  /\ Goto(w, "fail")
  /\ UNCHANGED <<job, requested, announced>>

\* remediation.execution.completed, sent for a dry run too.
Emit(w) ==
  /\ pc[w] = "emit"
  /\ announced' = announced \cup {job[w].action}
  /\ Goto(w, "return")
  /\ UNCHANGED <<job, requested, tableVars>>

Return(w) ==
  /\ pc[w] = "return"
  /\ Goto(w, "idle")
  /\ job' = [job EXCEPT ![w] = IdleJob]
  /\ UNCHANGED <<requested, announced, tableVars>>

\* The process dies, a request to the database or to Inngest fails where the
\* code does not handle it, or the acknowledgement of the step is lost.
Crash(w) ==
  /\ MayCrash
  /\ pc[w] # "idle"
  /\ Throw(w)
  /\ UNCHANGED <<requested, announced, tableVars>>

WorkerStep(w) ==
  \/ ReadRow(w) \/ ReadRefused(w) \/ Claim(w) \/ ClaimRefused(w)
  \/ GuardThrows(w) \/ GuardPasses(w) \/ StepsDone(w) \/ StepsSkipped(w)
  \/ StepsFail(w) \/ MarkFailed(w) \/ Finish(w) \/ FinishFails(w) \/ Emit(w) \/ Return(w)

-----------------------------------------------------------------------------
(***************************************************************************)
(* The executor by itself: a table of rows nobody else writes, clients of  *)
(* the API, and events from elsewhere.                                     *)
(***************************************************************************)
vars == <<tableVars, scanVars, execVars>>

RowInit(f, p) ==
  /\ finding_id = f
  /\ execution_status = [a \in Actions |-> p[a].execution]
  /\ action_status = [a \in Actions |-> p[a].action]
  /\ approval_status = [a \in Actions |-> p[a].approval]
  /\ execution_mode = [a \in Actions |-> p[a].mode]
  /\ gated = [a \in Actions |-> p[a].gated]

Init ==
  /\ \E f \in [Actions -> Findings], p \in [Actions -> Plans] : RowInit(f, p)
  /\ executed_at = [a \in Actions |-> FALSE]
  /\ candidate = [f \in Findings |-> ManualPlan]
  /\ scan = [f \in Findings |-> At("done", NoAction, 1)]
  /\ ExecInit

\* Any part of the system may send a remediation.execution.requested event.
ExternalRequest(a) ==
  /\ requested[a] < MaxRequested
  /\ requested' = [requested EXCEPT ![a] = @ + 1]
  /\ UNCHANGED <<pc, job, announced, tableVars>>

Client(w, a) ==
  \/ \E dryRun, force \in BOOLEAN : ApiExecute(w, a, dryRun, force)
  \/ DeliverRequested(w, a)

Next ==
  /\ \/ \E a \in Actions : ExternalRequest(a) \/ \E w \in Workers : Client(w, a)
     \/ \E w \in Workers : WorkerStep(w) \/ Crash(w)
  /\ UNCHANGED scanVars

Spec == Init /\ [][Next]_vars

\* A worker that does not crash goes on: Node runs the continuation of every
\* await and execFile has a timeout of 120 s.  Inngest delivers every event:
\* a slot of Workers is free again and again, so the fairness is strong.
Fairness ==
  /\ \A w \in Workers : WF_vars(WorkerStep(w) /\ UNCHANGED scanVars)
  /\ \A a \in Actions :
       SF_vars(\E w \in Workers : DeliverRequested(w, a) /\ UNCHANGED scanVars)

FairSpec == Spec /\ Fairness

-----------------------------------------------------------------------------
\* Every column and every local variable holds a value the code can store.
TypeOK == TableTypeOK /\ ExecTypeOK

Startable == {"pending", "approved", "queued"}

\* No two calls run the commands of one row at the same time, whatever mix of
\* API calls, events and retries asks for it: the claim tests and sets the
\* status in one statement.
OneExecutor ==
  \A w1, w2 \in Workers :
    /\ pc[w1] \in HoldingPC /\ pc[w2] \in HoldingPC
    /\ job[w1].action = job[w2].action
    => w1 = w2

\* A row that was claimed never becomes startable again, in particular not
\* by a failure or a retry of the workflow: its commands run at most once.
ClaimIsFinal ==
  [][\A a \in Actions :
       execution_status[a] \notin Startable
         => execution_status'[a] \notin Startable]_vars

\* remediation.execution.completed is sent only after the terminal update is
\* in the database, so a revalidation scan never runs ahead of it.
AnnouncedWasExecuted == \A a \in announced : executed_at[a]

\* As long as nobody but the executor writes the row, what was announced stays
\* true as well: the row says completed for good, although the call that sent
\* the event may crash and be run again, and although a call whose terminal
\* update only seemed to fail marks a completed row failed.
AnnouncedIsCompleted ==
  \A a \in announced : executed_at[a] /\ execution_status[a] = "completed"

\* The inductive invariant behind OneExecutor and AnnouncedWasExecuted: a row
\* some call holds cannot be claimed again, and a call that is about to
\* announce a row has recorded its execution.
HolderCloses ==
  \A w \in Workers :
    pc[w] \in HoldingPC => execution_status[job[w].action] \notin Startable

EmitterRecorded ==
  \A w \in Workers : pc[w] = "emit" => executed_at[job[w].action]

ExecInv ==
  /\ TypeOK
  /\ HolderCloses
  /\ OneExecutor
  /\ EmitterRecorded
  /\ AnnouncedWasExecuted

\* "marks remediation execution `running -> completed`" (README.md): no row
\* is left running for good.
RunningEnds ==
  \A a \in Actions :
    execution_status[a] = "running" ~> execution_status[a] # "running"

\* A row that may start and has an event in flight is eventually started.
EventuallyStarted ==
  \A a \in Actions :
    requested[a] > 0 /\ execution_status[a] \in {"approved", "queued"}
      ~> execution_status[a] \notin {"approved", "queued"}
=============================================================================
