--------------------- MODULE RemediationExecution_proofs ---------------------
(***************************************************************************)
(* Theorems about the executor, for any number of rows, of calls and of    *)
(* retries, with and without crashes.                                      *)
(***************************************************************************)
EXTENDS RemediationExecution, TLAPS

\* The table's plans hold values its columns can store.
LEMMA PlansTyped ==
  \A p \in Plans :
    /\ p.execution \in ExecutionStatus
    /\ p.action \in ActionStatus
    /\ p.approval \in ApprovalStatus
    /\ p.mode \in ExecutionMode
    /\ p.gated \in BOOLEAN
<1> USE DEF Plan, ExecutionStatus, ActionStatus, ApprovalStatus, ExecutionMode
<1> TAKE p \in Plans
<1>1. CASE p \in WaitingPlans
  <2>1. PICK ap \in {"pending", "not_required"} :
          p = Plan("manual", "pending", "proposed", ap, TRUE)
    BY <1>1 DEF WaitingPlans, WaitingPlan
  <2> QED BY <2>1
<1>2. CASE p = BlockedPlan
  BY <1>2 DEF BlockedPlan
<1>3. CASE p = AutomaticPlan
  BY <1>3 DEF AutomaticPlan
<1>4. CASE p = SemiAutomaticPlan
  BY <1>4 DEF SemiAutomaticPlan
<1>5. CASE p = ManualPlan
  BY <1>5 DEF ManualPlan
<1> QED BY <1>1, <1>2, <1>3, <1>4, <1>5 DEF Plans

\* The plan the executor's own Init uses is one of the table's plans.
LEMMA ManualPlanIsAPlan == ManualPlan \in Plans
BY DEF Plans

\* A call starts with its first attempt.
LEMMA JobTyped ==
  ASSUME NEW a \in Actions \cup {NoAction}, NEW source \in {"api", "workflow"},
         NEW dryRun \in BOOLEAN, NEW force \in BOOLEAN
  PROVE  Job(a, source, dryRun, force) \in Jobs
<1>1. 1 \in 1..MaxAttempts
  BY TableAssumption
<1> QED BY <1>1 DEF Job, Jobs

\* A call that throws keeps its row and at most restarts.
LEMMA ThrowKeepsJob ==
  ASSUME TypeOK, NEW w \in Workers, Throw(w)
  PROVE  /\ pc' \in [Workers -> WorkerPC]
         /\ job' \in [Workers -> Jobs]
         /\ pc'[w] \in {"idle", "start"}
         /\ pc'[w] = "start" => job'[w].action = job[w].action
         /\ \A v \in Workers \ {w} : pc'[v] = pc[v] /\ job'[v] = job[v]
<1>1. pc \in [Workers -> WorkerPC] /\ job \in [Workers -> Jobs]
  BY DEF TypeOK, ExecTypeOK
<1>2. CASE Retried(w)
  <2>1. job[w].attempt + 1 \in 1..MaxAttempts
    BY <1>1, <1>2, TableAssumption DEF Retried, Jobs
  <2>2. [job[w] EXCEPT !.attempt = @ + 1] \in Jobs
    BY <1>1, <2>1 DEF Jobs
  <2>3. /\ pc' = [pc EXCEPT ![w] = "start"]
        /\ job' = [job EXCEPT ![w] = [job[w] EXCEPT !.attempt = @ + 1]]
    BY <1>1, <1>2 DEF Throw, Goto
  <2> QED BY <1>1, <2>2, <2>3 DEF WorkerPC, Jobs
<1>3. CASE ~Retried(w)
  <2>1. IdleJob \in Jobs
    BY JobTyped DEF IdleJob
  <2>2. /\ pc' = [pc EXCEPT ![w] = "idle"]
        /\ job' = [job EXCEPT ![w] = IdleJob]
    BY <1>3 DEF Throw, Goto
  <2> QED BY <1>1, <2>1, <2>2 DEF WorkerPC
<1> QED BY <1>2, <1>3

-----------------------------------------------------------------------------
\* A call that throws leaves the types alone, if the table's columns keep
\* theirs.
LEMMA ThrowTyped ==
  ASSUME TypeOK, NEW w \in Workers, pc[w] # "idle", Throw(w), TableTypeOK',
         UNCHANGED <<requested, announced>>
  PROVE  TypeOK'
<1>1. job[w].action \in Actions
  BY DEF TypeOK, ExecTypeOK
<1>2. ExecTypeOK'
  BY <1>1, ThrowKeepsJob DEF TypeOK, ExecTypeOK
<1> QED BY <1>2 DEF TypeOK

\* So does a call that goes on to its next step.
LEMMA GotoTyped ==
  ASSUME TypeOK, NEW w \in Workers, pc[w] # "idle",
         NEW label \in WorkerPC, Goto(w, label), TableTypeOK',
         UNCHANGED <<job, requested>>, announced' \subseteq Actions
  PROVE  TypeOK'
BY DEF TypeOK, ExecTypeOK, Goto

\* A step that leaves the table and the scan alone keeps the columns typed.
LEMMA TableUnchangedTyped ==
  ASSUME TypeOK, UNCHANGED <<tableVars, scanVars>>
  PROVE  TableTypeOK'
BY DEF TypeOK, TableTypeOK, tableVars, scanVars

\* An update of the status columns and of executed_at is typed.
LEMMA StatusUpdateTyped ==
  ASSUME TypeOK, NEW a \in Actions,
         NEW es \in ExecutionStatus, NEW as \in ActionStatus,
         execution_status' = [execution_status EXCEPT ![a] = es],
         action_status' = [action_status EXCEPT ![a] = as],
         \/ UNCHANGED executed_at
         \/ executed_at' = [executed_at EXCEPT ![a] = TRUE],
         UNCHANGED <<finding_id, approval_status, execution_mode, gated,
                     scanVars>>
  PROVE  TableTypeOK'
<1>1. /\ execution_status' \in [Actions -> ExecutionStatus \cup {"absent"}]
      /\ action_status' \in [Actions -> ActionStatus]
      /\ executed_at' \in [Actions -> BOOLEAN]
  BY DEF TypeOK, TableTypeOK
<1> QED BY <1>1 DEF TypeOK, TableTypeOK, scanVars

\* Every step of a call keeps every column and local variable in its type.
LEMMA WorkerStepTyped ==
  ASSUME TypeOK, NEW w \in Workers, WorkerStep(w) \/ Crash(w),
         UNCHANGED scanVars
  PROVE  TypeOK'
<1> USE DEF WorkerPC
<1>1. pc[w] # "idle"
  BY DEF WorkerStep, ReadRow, ReadRefused, Claim, ClaimRefused, GuardThrows,
         GuardPasses, StepsDone, StepsSkipped, StepsFail, MarkFailed, Finish,
         FinishFails, Emit, Return, Crash
<1>2. job[w].action \in Actions /\ announced \subseteq Actions
  BY <1>1 DEF TypeOK, ExecTypeOK
<1>3. CASE ReadRefused(w) \/ ClaimRefused(w) \/ GuardThrows(w) \/ Crash(w)
  BY <1>1, <1>3, ThrowTyped, TableUnchangedTyped
     DEF ReadRefused, ClaimRefused, GuardThrows, Crash
<1>4. CASE \/ ReadRow(w) \/ GuardPasses(w) \/ StepsDone(w)
           \/ StepsSkipped(w) \/ StepsFail(w)
  <2>1. PICK label \in WorkerPC : Goto(w, label)
    BY <1>4 DEF ReadRow, GuardPasses, StepsDone, StepsSkipped, StepsFail
  <2>2. UNCHANGED <<job, requested, announced, tableVars>>
    BY <1>4 DEF ReadRow, GuardPasses, StepsDone, StepsSkipped, StepsFail
  <2> QED BY <1>1, <1>2, <2>1, <2>2, GotoTyped, TableUnchangedTyped
<1>5. CASE Claim(w)
  <2>1. TableTypeOK'
    BY <1>2, <1>5, StatusUpdateTyped DEF Claim, ExecutionStatus, ActionStatus
  <2> QED BY <1>1, <1>2, <1>5, <2>1, GotoTyped DEF Claim
<1>6. CASE MarkFailed(w)
  <2>1. TableTypeOK'
    BY <1>2, <1>6, StatusUpdateTyped
       DEF MarkFailed, ExecutionStatus, ActionStatus
  <2> QED BY <1>1, <1>6, <2>1, ThrowTyped DEF MarkFailed
<1>7. ASSUME TerminalUpdate(w)
      PROVE  TableTypeOK'
  <2>1. PICK es \in ExecutionStatus, as \in ActionStatus :
          /\ execution_status' = [execution_status EXCEPT ![job[w].action] = es]
          /\ action_status' = [action_status EXCEPT ![job[w].action] = as]
    BY <1>7 DEF TerminalUpdate, ExecutionStatus, ActionStatus
  <2> QED BY <1>2, <1>7, <2>1, StatusUpdateTyped DEF TerminalUpdate
<1>8. CASE Finish(w)
  <2>1. PICK label \in WorkerPC : Goto(w, label)
    BY <1>8 DEF Finish
  <2> QED BY <1>1, <1>2, <1>7, <1>8, <2>1, GotoTyped DEF Finish
<1>9. CASE FinishFails(w)
  <2>1. TableTypeOK'
    BY <1>7, <1>9, TableUnchangedTyped DEF FinishFails
  <2> QED BY <1>1, <1>2, <1>9, <2>1, GotoTyped DEF FinishFails
<1>10. CASE Emit(w)
  <2>1. announced' \subseteq Actions
    BY <1>2, <1>10 DEF Emit
  <2> QED BY <1>1, <1>10, <2>1, GotoTyped, TableUnchangedTyped DEF Emit
<1>11. CASE Return(w)
  <2>1. IdleJob \in Jobs
    BY JobTyped DEF IdleJob
  <2>2. TableTypeOK'
    BY <1>11, TableUnchangedTyped DEF Return
  <2> QED BY <1>11, <2>1, <2>2 DEF Return, Goto, TypeOK, ExecTypeOK
<1> QED BY <1>3, <1>4, <1>5, <1>6, <1>8, <1>9, <1>10, <1>11 DEF WorkerStep

\* A new call is typed.
LEMMA ClientTyped ==
  ASSUME TypeOK, NEW w \in Workers, NEW a \in Actions, Client(w, a),
         UNCHANGED scanVars
  PROVE  TypeOK'
<1> USE DEF WorkerPC
<1>1. PICK j \in Jobs :
        /\ j.action = a
        /\ job' = [job EXCEPT ![w] = j]
  BY JobTyped DEF Client, ApiExecute, DeliverRequested, Job
<1>2. Goto(w, "start") /\ UNCHANGED <<announced, tableVars>>
  BY DEF Client, ApiExecute, DeliverRequested
<1>3. requested' \in [Actions -> Nat]
  <2>1. requested \in [Actions -> Nat]
    BY DEF TypeOK, ExecTypeOK
  <2>2. CASE requested' = requested
    BY <2>1, <2>2
  <2>3. CASE requested[a] > 0 /\ requested' = [requested EXCEPT ![a] = @ - 1]
    BY <2>1, <2>3
  <2> QED BY <2>2, <2>3 DEF Client, ApiExecute, DeliverRequested
<1> QED
  BY <1>1, <1>2, <1>3, TableUnchangedTyped DEF Goto, TypeOK, ExecTypeOK

-----------------------------------------------------------------------------
\* The rows a scan has routed are typed, and no call has started.
LEMMA InitTyped == Init => TypeOK
<1> SUFFICES ASSUME Init PROVE TypeOK
  OBVIOUS
<1>1. PICK fs \in [Actions -> Findings], p \in [Actions -> Plans] :
        RowInit(fs, p)
  BY DEF Init
<1>2. \A a \in Actions : p[a] \in Plans
  OBVIOUS
<1>3. /\ finding_id \in [Actions -> Findings]
      /\ execution_status \in [Actions -> ExecutionStatus]
      /\ action_status \in [Actions -> ActionStatus]
      /\ approval_status \in [Actions -> ApprovalStatus]
      /\ execution_mode \in [Actions -> ExecutionMode]
      /\ gated \in [Actions -> BOOLEAN]
  BY <1>1, <1>2, PlansTyped DEF RowInit
<1>4. scan \in [Findings -> ScanStates]
  BY TableAssumption DEF Init, At, ScanPC, ScanStates
<1>5. TableTypeOK
  BY <1>3, <1>4, ManualPlanIsAPlan DEF Init, TableTypeOK
<1>6. ExecTypeOK
  <2>1. IdleJob \in Jobs
    BY JobTyped DEF IdleJob
  <2> QED BY <2>1 DEF Init, ExecInit, ExecTypeOK, WorkerPC
<1> QED BY <1>5, <1>6 DEF TypeOK

\* Every step of a client, of an event or of a call keeps the types.
LEMMA StepTyped == TypeOK /\ [Next]_vars => TypeOK'
<1> SUFFICES ASSUME TypeOK, [Next]_vars PROVE TypeOK'
  OBVIOUS
<1>1. CASE UNCHANGED vars
  BY <1>1 DEF vars, tableVars, scanVars, execVars, TypeOK, TableTypeOK,
              ExecTypeOK
<1>2. ASSUME NEW a \in Actions, ExternalRequest(a), UNCHANGED scanVars
      PROVE  TypeOK'
  <2>1. TableTypeOK'
    BY <1>2, TableUnchangedTyped DEF ExternalRequest
  <2>2. requested' \in [Actions -> Nat]
    BY <1>2 DEF ExternalRequest, TypeOK, ExecTypeOK
  <2> QED BY <1>2, <2>1, <2>2 DEF ExternalRequest, TypeOK, ExecTypeOK
<1> QED BY <1>1, <1>2, WorkerStepTyped, ClientTyped DEF Next

\* Whatever is called, dies or is retried, every column and every local
\* variable of the executor holds a value of its type.
THEOREM TypeCorrect == Spec => []TypeOK
<1>1. Init => TypeOK
  BY InitTyped
<1>2. TypeOK /\ [Next]_vars => TypeOK'
  BY StepTyped
<1> QED BY <1>1, <1>2, PTL DEF Spec

-----------------------------------------------------------------------------
\* Only a claim makes a call a holder of a row: any other holder held the
\* same row before.
LEMMA HolderStep ==
  ASSUME TypeOK, [Next]_vars, NEW w \in Workers, pc'[w] \in HoldingPC
  PROVE  \/ Claim(w)
         \/ pc[w] \in HoldingPC /\ job'[w] = job[w]
<1> USE DEF HoldingPC
<1>0. pc \in [Workers -> WorkerPC] /\ job \in [Workers -> Jobs]
  BY DEF TypeOK, ExecTypeOK
<1>1. CASE UNCHANGED <<pc, job>>
  BY <1>1
<1>2. ASSUME NEW a \in Actions, ExternalRequest(a)
      PROVE  UNCHANGED <<pc, job>>
  BY <1>2 DEF ExternalRequest
<1>3. ASSUME NEW v \in Workers, NEW a \in Actions, Client(v, a)
      PROVE  pc[w] \in HoldingPC /\ job'[w] = job[w]
  BY <1>0, <1>3 DEF Client, ApiExecute, DeliverRequested, Goto
<1>4. ASSUME NEW v \in Workers, Throw(v)
      PROVE  pc[w] \in HoldingPC /\ job'[w] = job[w]
  BY <1>0, <1>4, ThrowKeepsJob
<1>5. ASSUME NEW v \in Workers, WorkerStep(v) \/ Crash(v)
      PROVE  \/ Claim(w)
             \/ pc[w] \in HoldingPC /\ job'[w] = job[w]
  <2>1. CASE \/ ReadRefused(v) \/ ClaimRefused(v) \/ GuardThrows(v)
             \/ MarkFailed(v) \/ Crash(v)
    BY <1>4, <2>1
       DEF ReadRefused, ClaimRefused, GuardThrows, MarkFailed, Crash
  <2>2. CASE ReadRow(v) \/ Emit(v) \/ Return(v)
    BY <1>0, <2>2 DEF ReadRow, Emit, Return, Goto
  <2>3. CASE Claim(v)
    BY <1>0, <2>3 DEF Claim, Goto
  <2>4. CASE \/ GuardPasses(v) \/ StepsDone(v) \/ StepsSkipped(v)
             \/ StepsFail(v)
    BY <1>0, <2>4 DEF GuardPasses, StepsDone, StepsSkipped, StepsFail, Goto
  <2>5. CASE Finish(v) \/ FinishFails(v)
    BY <1>0, <2>5 DEF Finish, FinishFails, Goto
  <2> QED BY <1>5, <2>1, <2>2, <2>3, <2>4, <2>5 DEF WorkerStep
<1> QED BY <1>1, <1>2, <1>3, <1>5 DEF Next, vars, execVars

\* No step makes a row that may not start startable.
LEMMA NoReopen ==
  ASSUME TypeOK, [Next]_vars, NEW a \in Actions,
         execution_status[a] \notin Startable
  PROVE  execution_status'[a] \notin Startable
<1> USE DEF Startable
<1>1. execution_status \in [Actions -> ExecutionStatus \cup {"absent"}]
  BY DEF TypeOK, TableTypeOK
<1>2. CASE UNCHANGED execution_status
  BY <1>2
<1>3. ASSUME NEW w \in Workers, Claim(w) \/ MarkFailed(w) \/ TerminalUpdate(w)
      PROVE  execution_status'[a] \notin Startable
  BY <1>1, <1>3 DEF Claim, MarkFailed, TerminalUpdate
<1>4. ASSUME NEW w \in Workers, WorkerStep(w) \/ Crash(w)
      PROVE  execution_status'[a] \notin Startable
  <2>1. CASE \/ ReadRow(w) \/ ReadRefused(w) \/ ClaimRefused(w)
             \/ GuardThrows(w) \/ GuardPasses(w) \/ StepsDone(w)
             \/ StepsSkipped(w) \/ StepsFail(w) \/ Emit(w) \/ Return(w)
             \/ Crash(w)
    BY <1>2, <2>1
       DEF ReadRow, ReadRefused, ClaimRefused, GuardThrows, GuardPasses,
           StepsDone, StepsSkipped, StepsFail, Emit, Return, Crash, tableVars
  <2>2. CASE Claim(w) \/ MarkFailed(w) \/ Finish(w) \/ FinishFails(w)
    BY <1>2, <1>3, <2>2 DEF Finish, FinishFails, tableVars
  <2> QED BY <1>4, <2>1, <2>2 DEF WorkerStep
<1>5. ASSUME NEW w \in Workers, NEW b \in Actions, Client(w, b)
      PROVE  UNCHANGED execution_status
  BY <1>5 DEF Client, ApiExecute, DeliverRequested, tableVars
<1>6. ASSUME NEW b \in Actions, ExternalRequest(b)
      PROVE  UNCHANGED execution_status
  BY <1>6 DEF ExternalRequest, tableVars
<1> QED BY <1>2, <1>4, <1>5, <1>6 DEF Next, vars, tableVars

\* A call is about to announce a row only after a terminal update of it, and
\* executed_at is never reset.
LEMMA EmitterStep ==
  ASSUME TypeOK, EmitterRecorded, AnnouncedWasExecuted, [Next]_vars
  PROVE  EmitterRecorded' /\ AnnouncedWasExecuted'
<1>0. /\ pc \in [Workers -> WorkerPC] /\ job \in [Workers -> Jobs]
      /\ executed_at \in [Actions -> BOOLEAN] /\ announced \subseteq Actions
      /\ \A w \in Workers : pc[w] # "idle" => job[w].action \in Actions
  BY DEF TypeOK, TableTypeOK, ExecTypeOK
<1>1. ASSUME UNCHANGED <<executed_at, announced>>,
             \A w \in Workers :
               pc'[w] = "emit" => pc[w] = "emit" /\ job'[w] = job[w]
      PROVE  EmitterRecorded' /\ AnnouncedWasExecuted'
  BY <1>1 DEF EmitterRecorded, AnnouncedWasExecuted
<1>2. ASSUME NEW w \in Workers, Throw(w), UNCHANGED <<executed_at, announced>>
      PROVE  EmitterRecorded' /\ AnnouncedWasExecuted'
  BY <1>0, <1>1, <1>2, ThrowKeepsJob
<1>3. ASSUME NEW w \in Workers, NEW label \in WorkerPC, Goto(w, label),
             label # "emit", UNCHANGED <<executed_at, announced, job>>
      PROVE  EmitterRecorded' /\ AnnouncedWasExecuted'
  BY <1>0, <1>1, <1>3 DEF Goto
<1>4. ASSUME NEW w \in Workers, WorkerStep(w) \/ Crash(w)
      PROVE  EmitterRecorded' /\ AnnouncedWasExecuted'
  <2>1. CASE \/ ReadRefused(w) \/ ClaimRefused(w) \/ GuardThrows(w)
             \/ MarkFailed(w) \/ Crash(w)
    BY <1>2, <2>1 DEF ReadRefused, ClaimRefused, GuardThrows, MarkFailed,
                      Crash, tableVars
  <2>2. CASE \/ ReadRow(w) \/ Claim(w) \/ GuardPasses(w) \/ StepsDone(w)
             \/ StepsSkipped(w) \/ StepsFail(w)
    BY <1>3, <2>2 DEF ReadRow, Claim, GuardPasses, StepsDone, StepsSkipped,
                      StepsFail, tableVars, WorkerPC
  <2>3. CASE Finish(w) \/ FinishFails(w)
    <3>1. /\ pc[w] # "idle" /\ UNCHANGED <<job, announced>>
          /\ \A v \in Workers \ {w} : pc'[v] = pc[v]
          /\ \/ UNCHANGED executed_at /\ pc'[w] # "emit"
             \/ executed_at' = [executed_at EXCEPT ![job[w].action] = TRUE]
      BY <1>0, <2>3 DEF Finish, FinishFails, TerminalUpdate, Goto, tableVars
    <3>2. /\ \A a \in Actions : executed_at[a] => executed_at'[a]
          /\ pc'[w] = "emit" => executed_at'[job[w].action]
      BY <1>0, <3>1
    <3> QED BY <1>0, <3>1, <3>2 DEF EmitterRecorded, AnnouncedWasExecuted
  <2>4. CASE Emit(w)
    BY <1>0, <2>4 DEF Emit, Goto, EmitterRecorded, AnnouncedWasExecuted,
                      tableVars
  <2>5. CASE Return(w)
    BY <1>0, <1>1, <2>5 DEF Return, Goto, tableVars
  <2> QED BY <1>4, <2>1, <2>2, <2>3, <2>4, <2>5 DEF WorkerStep
<1>5. ASSUME NEW w \in Workers, NEW a \in Actions, Client(w, a)
      PROVE  EmitterRecorded' /\ AnnouncedWasExecuted'
  BY <1>0, <1>1, <1>5 DEF Client, ApiExecute, DeliverRequested, Goto, tableVars
<1>6. ASSUME NEW a \in Actions, ExternalRequest(a)
      PROVE  EmitterRecorded' /\ AnnouncedWasExecuted'
  BY <1>1, <1>6 DEF ExternalRequest, tableVars
<1>7. CASE UNCHANGED vars
  BY <1>1, <1>7 DEF vars, execVars, tableVars
<1> QED BY <1>4, <1>5, <1>6, <1>7 DEF Next

\* The invariant is inductive: only the claim makes a call the holder of a
\* row, and it finds the row startable, so nobody else holds it.
LEMMA ExecInvStep == ExecInv /\ [Next]_vars => ExecInv'
<1> SUFFICES ASSUME ExecInv, [Next]_vars PROVE ExecInv'
  OBVIOUS
<1> USE DEF ExecInv
<1>1. TypeOK'
  BY StepTyped
<1>2. ASSUME NEW w \in Workers, Claim(w)
      PROVE  /\ job[w].action \in Actions
             /\ execution_status[job[w].action] \in Startable
             /\ execution_status'[job[w].action] \notin Startable
             /\ job' = job
             /\ \A v \in Workers \ {w} : pc'[v] = pc[v]
  BY <1>2 DEF Claim, StartStates, Startable, Goto, TypeOK, TableTypeOK,
              ExecTypeOK
<1>3. HolderCloses'
  <2> SUFFICES ASSUME NEW w \in Workers, pc'[w] \in HoldingPC
               PROVE  execution_status'[job'[w].action] \notin Startable
    BY DEF HolderCloses, Startable, HoldingPC
  <2>1. CASE Claim(w)
    BY <1>2, <2>1
  <2>2. CASE pc[w] \in HoldingPC /\ job'[w] = job[w]
    <3>1. job[w].action \in Actions
      BY <2>2 DEF TypeOK, ExecTypeOK, HoldingPC
    <3> QED BY <2>2, <3>1, NoReopen DEF HolderCloses
  <2> QED BY <2>1, <2>2, HolderStep
<1>4. OneExecutor'
  <2> SUFFICES ASSUME NEW w1 \in Workers, NEW w2 \in Workers, w1 # w2,
                      pc'[w1] \in HoldingPC, pc'[w2] \in HoldingPC,
                      job'[w1].action = job'[w2].action
               PROVE  FALSE
    BY DEF OneExecutor, HoldingPC
  <2>1. ASSUME NEW u \in Workers, NEW v \in Workers, u # v, Claim(u),
               pc'[v] \in HoldingPC, job'[u].action = job'[v].action
        PROVE  FALSE
    BY <1>2, <2>1 DEF HolderCloses
  <2>2. CASE /\ pc[w1] \in HoldingPC /\ job'[w1] = job[w1]
             /\ pc[w2] \in HoldingPC /\ job'[w2] = job[w2]
    BY <2>2 DEF OneExecutor
  <2> QED BY <2>1, <2>2, HolderStep
<1> QED BY <1>1, <1>3, <1>4, EmitterStep

\* No call has started, so nobody holds or announces a row.
LEMMA InitInv == Init => ExecInv
<1> SUFFICES ASSUME Init PROVE ExecInv
  OBVIOUS
<1>1. TypeOK
  BY InitTyped
<1>2. \A w \in Workers : pc[w] = "idle"
  BY DEF Init, ExecInit
<1>3. announced = {}
  BY DEF Init, ExecInit
<1> QED BY <1>1, <1>2, <1>3
        DEF ExecInv, HolderCloses, OneExecutor, EmitterRecorded,
            AnnouncedWasExecuted, HoldingPC

\* The invariant behind the two theorems that follow: a row some call holds is
\* not startable, and a call about to announce a row has recorded its execution.
THEOREM ExecInvHolds == Spec => []ExecInv
BY InitInv, ExecInvStep, PTL DEF Spec

\* No two calls run the commands of one row at the same time.
THEOREM AtMostOneExecutor == Spec => []OneExecutor
<1>1. ExecInv => OneExecutor
  BY DEF ExecInv
<1> QED BY <1>1, InitInv, ExecInvStep, PTL DEF Spec

\* remediation.execution.completed follows the terminal update in the database.
THEOREM AnnouncedAfterExecution == Spec => []AnnouncedWasExecuted
<1>1. ExecInv => AnnouncedWasExecuted
  BY DEF ExecInv
<1> QED BY <1>1, InitInv, ExecInvStep, PTL DEF Spec

\* No failure and no retry makes a claimed row startable again.
THEOREM ClaimedOnce == Spec => ClaimIsFinal
<1>1. TypeOK /\ [Next]_vars =>
        [\A a \in Actions :
           execution_status[a] \notin Startable
             => execution_status'[a] \notin Startable]_vars
  BY NoReopen
<1> QED BY <1>1, InitTyped, StepTyped, PTL DEF Spec, ClaimIsFinal
-----------------------------------------------------------------------------
\* The execution of a row is over: it is recorded as completed, and no call
\* holds the row that could still mark it failed.
SettledRow(a) ==
  /\ executed_at[a] /\ execution_status[a] = "completed"
  /\ \A v \in Workers : pc[v] \in HoldingPC => job[v].action # a

\* Rows that are or were announced are settled.
SettledInv ==
  /\ ExecInv
  /\ \A w \in Workers : pc[w] = "emit" => SettledRow(job[w].action)
  /\ \A a \in announced : SettledRow(a)

\* A settled row can be claimed by nobody, and only a holder updates a row.
LEMMA SettledStays ==
  ASSUME ExecInv, [Next]_vars, NEW a \in Actions, SettledRow(a)
  PROVE  SettledRow(a)'
<1>1. /\ TypeOK /\ executed_at[a] /\ execution_status[a] = "completed"
      /\ \A v \in Workers : pc[v] \in HoldingPC => job[v].action # a
      /\ execution_status \in [Actions -> ExecutionStatus \cup {"absent"}]
      /\ executed_at \in [Actions -> BOOLEAN]
  BY DEF ExecInv, TypeOK, TableTypeOK, SettledRow
<1>2. ASSUME NEW v \in Workers, Claim(v) PROVE job[v].action # a
  BY <1>1, <1>2 DEF Claim, StartStates
<1>3. ASSUME NEW v \in Workers, pc'[v] \in HoldingPC PROVE job'[v].action # a
  <2>1. CASE Claim(v)
    BY <1>2, <2>1 DEF Claim
  <2>2. CASE pc[v] \in HoldingPC /\ job'[v] = job[v]
    BY <1>1, <2>2
  <2> QED BY <1>1, <1>3, <2>1, <2>2, HolderStep
<1> DEFINE Kept == executed_at'[a] /\ execution_status'[a] = "completed"
<1>4. ASSUME UNCHANGED <<executed_at, execution_status>> PROVE Kept
  BY <1>1, <1>4
<1>5. ASSUME NEW v \in Workers, job[v].action # a,
             Claim(v) \/ MarkFailed(v) \/ TerminalUpdate(v)
      PROVE  Kept
  BY <1>1, <1>5 DEF Claim, MarkFailed, TerminalUpdate
<1>6. ASSUME NEW v \in Workers, WorkerStep(v) \/ Crash(v) PROVE Kept
  <2>1. CASE \/ ReadRow(v) \/ ReadRefused(v) \/ ClaimRefused(v)
             \/ GuardThrows(v) \/ GuardPasses(v) \/ StepsDone(v)
             \/ StepsSkipped(v) \/ StepsFail(v) \/ Emit(v) \/ Return(v)
             \/ Crash(v)
    BY <1>4, <2>1
       DEF ReadRow, ReadRefused, ClaimRefused, GuardThrows, GuardPasses,
           StepsDone, StepsSkipped, StepsFail, Emit, Return, Crash, tableVars
  <2>2. CASE Claim(v)
    BY <1>2, <1>5, <2>2
  <2>3. CASE MarkFailed(v) \/ Finish(v) \/ FinishFails(v)
    <3>1. job[v].action # a
      BY <1>1, <2>3 DEF MarkFailed, Finish, FinishFails, HoldingPC
    <3> QED BY <1>4, <1>5, <2>3, <3>1 DEF Finish, FinishFails, tableVars
  <2> QED BY <1>6, <2>1, <2>2, <2>3 DEF WorkerStep
<1>7. ASSUME NEW v \in Workers, NEW b \in Actions, Client(v, b) PROVE Kept
  BY <1>4, <1>7 DEF Client, ApiExecute, DeliverRequested, tableVars
<1>8. ASSUME NEW b \in Actions, ExternalRequest(b) PROVE Kept
  BY <1>4, <1>8 DEF ExternalRequest, tableVars
<1>9. Kept
  BY <1>4, <1>6, <1>7, <1>8 DEF Next, vars, tableVars
<1> QED BY <1>3, <1>9 DEF SettledRow

\* A call becomes the one that announces a row by completing it, and then it
\* was the only holder.
LEMMA EmitterSettles ==
  ASSUME ExecInv, [Next]_vars, NEW w \in Workers, pc'[w] = "emit"
  PROVE  /\ job'[w] = job[w] /\ job[w].action \in Actions
         /\ pc[w] = "emit" \/ SettledRow(job[w].action)'
<1>1. /\ TypeOK /\ OneExecutor
      /\ pc \in [Workers -> WorkerPC] /\ job \in [Workers -> Jobs]
      /\ execution_status \in [Actions -> ExecutionStatus \cup {"absent"}]
      /\ executed_at \in [Actions -> BOOLEAN]
      /\ \A v \in Workers : pc[v] # "idle" => job[v].action \in Actions
  BY DEF ExecInv, TypeOK, TableTypeOK, ExecTypeOK
<1>2. ASSUME NEW v \in Workers, Throw(v) PROVE pc[w] = "emit" /\ job'[w] = job[w]
  BY <1>1, <1>2, ThrowKeepsJob
<1>3. ASSUME NEW v \in Workers, NEW a \in Actions, Client(v, a)
      PROVE  pc[w] = "emit" /\ job'[w] = job[w]
  BY <1>1, <1>3 DEF Client, ApiExecute, DeliverRequested, Goto
<1>4. CASE UNCHANGED <<pc, job>>
  BY <1>1, <1>4
<1>5. CASE pc[w] = "emit" /\ job'[w] = job[w]
  BY <1>1, <1>5
<1>6. ASSUME NEW v \in Workers, WorkerStep(v) \/ Crash(v)
      PROVE  \/ pc[w] = "emit" /\ job'[w] = job[w]
             \/ v = w /\ Finish(w) /\ pc[w] = "finish"
  <2>1. CASE \/ ReadRefused(v) \/ ClaimRefused(v) \/ GuardThrows(v)
             \/ MarkFailed(v) \/ Crash(v)
    BY <1>2, <2>1 DEF ReadRefused, ClaimRefused, GuardThrows, MarkFailed, Crash
  <2>2. CASE \/ ReadRow(v) \/ Claim(v) \/ GuardPasses(v) \/ StepsDone(v)
             \/ StepsSkipped(v) \/ StepsFail(v) \/ FinishFails(v) \/ Emit(v)
             \/ Return(v)
    BY <1>1, <2>2
       DEF ReadRow, Claim, GuardPasses, StepsDone, StepsSkipped, StepsFail,
           FinishFails, Emit, Return, Goto
  <2>3. CASE Finish(v)
    BY <1>1, <2>3 DEF Finish, Goto
  <2> QED BY <1>6, <2>1, <2>2, <2>3 DEF WorkerStep
<1>7. CASE Finish(w) /\ pc[w] = "finish"
  <2> DEFINE a == job[w].action
  <2>1. a \in Actions /\ job' = job
    BY <1>1, <1>7 DEF Finish
  <2>2. executed_at'[a] /\ execution_status'[a] = "completed"
    BY <1>1, <1>7, <2>1 DEF Finish, TerminalUpdate
  <2>3. ASSUME NEW v \in Workers, pc'[v] \in HoldingPC PROVE job'[v].action # a
    <3>1. v # w /\ pc[v] \in HoldingPC
      BY <1>1, <1>7, <2>3 DEF Finish, Goto, HoldingPC
    <3> QED BY <1>1, <1>7, <2>1, <3>1 DEF OneExecutor, HoldingPC
  <2> QED BY <2>1, <2>2, <2>3 DEF SettledRow
<1>8. ASSUME NEW b \in Actions, ExternalRequest(b) PROVE UNCHANGED <<pc, job>>
  BY <1>8 DEF ExternalRequest
<1> QED BY <1>3, <1>4, <1>5, <1>6, <1>7, <1>8 DEF Next, vars, execVars

LEMMA SettledInvStep == SettledInv /\ [Next]_vars => SettledInv'
<1> SUFFICES ASSUME SettledInv, [Next]_vars PROVE SettledInv'
  OBVIOUS
<1>1. ExecInv /\ ExecInv' /\ TypeOK /\ announced \subseteq Actions
  BY ExecInvStep DEF SettledInv, ExecInv, TypeOK, ExecTypeOK
<1>2. ASSUME NEW w \in Workers, pc'[w] = "emit" PROVE SettledRow(job[w].action)'
  <2>1. CASE pc[w] = "emit"
    <3>1. job[w].action \in Actions /\ SettledRow(job[w].action)
      BY <1>1, <1>2, <2>1, EmitterSettles DEF SettledInv
    <3>2. \A a \in Actions : SettledRow(a) => SettledRow(a)'
      BY <1>1, SettledStays
    <3>3. /\ \A a \in Actions : SettledRow(a) =>
               /\ executed_at'[a] /\ execution_status'[a] = "completed"
               /\ \A v \in Workers : pc'[v] \in HoldingPC => job'[v].action # a
      BY <3>2 DEF SettledRow
    <3>4. job'[w].action = job[w].action
      BY <1>1, <1>2, EmitterSettles
    <3> QED BY <3>1, <3>3, <3>4 DEF SettledRow
  <2> QED BY <1>1, <1>2, <2>1, EmitterSettles
<1>3. ASSUME NEW a \in announced' PROVE SettledRow(a)'
  <2>1. CASE a \in announced
    BY <1>1, <2>1, SettledStays DEF SettledInv
  <2>2. CASE a \notin announced
    <3>1. PICK w \in Workers : Emit(w) /\ a = job[w].action
      BY <1>3, <2>2
         DEF Next, WorkerStep, ReadRow, ReadRefused, Claim, ClaimRefused,
             GuardThrows, GuardPasses, StepsDone, StepsSkipped, StepsFail,
             MarkFailed, Finish, FinishFails, Emit, Return, Crash, Client,
             ApiExecute, DeliverRequested, ExternalRequest, vars, execVars
    <3>2. pc[w] = "emit" /\ a \in Actions
      BY <1>1, <3>1 DEF Emit, TypeOK, ExecTypeOK
    <3> QED BY <1>1, <3>1, <3>2, SettledStays DEF SettledInv
  <2> QED BY <2>1, <2>2
<1>4. \A w \in Workers : pc'[w] = "emit" => job'[w] = job[w]
  BY <1>1, EmitterSettles
<1>5. ASSUME NEW w \in Workers, pc'[w] = "emit" PROVE SettledRow(job[w].action)'
  BY <1>2, <1>5
<1> QED BY <1>1, <1>3, <1>4, <1>5 DEF SettledInv, SettledRow

\* While only the executor writes the rows, a row for which
\* remediation.execution.completed was sent says completed for good.
THEOREM AnnouncedStaysCompleted == Spec => []AnnouncedIsCompleted
<1>1. Init => SettledInv
  BY InitInv DEF Init, ExecInit, SettledInv
<1>2. SettledInv => AnnouncedIsCompleted
  BY DEF SettledInv, SettledRow, AnnouncedIsCompleted
<1> QED BY <1>1, <1>2, SettledInvStep, PTL DEF Spec
=============================================================================
