------------------------------- MODULE SlaSweep -------------------------------
(***************************************************************************)
(* Deadlines of approval requests and risk exceptions, and the two hourly  *)
(* cron functions that look for missed ones: approvalRiskSlaSweep, one     *)
(* handler that marks row after row, and slaBreachSweepFunction, memoized  *)
(* steps that fetch, announce and mark.  Both start at minute 0.           *)
(*                                                                         *)
(* Warnings of deadlines to come only send an event and are not modelled.  *)
(* How rows are opened and decided is the environment's affair (modules    *)
(* ApprovalWorkflow and RiskExceptions).                                   *)
(***************************************************************************)
EXTENDS Integers

CONSTANTS
  Approvals,    \* ids of approval_requests rows
  Exceptions,   \* ids of risk_exceptions rows
  ApprovalSla,  \* APPROVAL_DEFAULT_SLA_HOURS
  ReviewSla,    \* RISK_EXCEPTION_REVIEW_SLA_HOURS
  MaxClock,     \* the last hour of a behaviour
  MaxFailures   \* statements and runs that fail in a behaviour

ASSUME SlaAssumption ==
  /\ Approvals \cap Exceptions = {}
  /\ {ApprovalSla, ReviewSla, MaxClock, MaxFailures} \subseteq Nat

VARIABLES
  clock,             \* the hour
  status,            \* waiting stands for pending and for requested
  sla_due_at,        \* also review_sla_due_at
  sla_breached_at,
  escalation_level,
  decided_at,        \* history variable: when a row was decided
  riskSweep,         \* a run of approvalRiskSlaSweep
  breachSweep,       \* a run of slaBreachSweepFunction
  announced,         \* rows an sla.breach.violated event was sent for
  failures           \* how many failures there were

rowVars == <<status, sla_due_at, decided_at>>
markVars == <<sla_breached_at, escalation_level>>
vars == <<clock, rowVars, markVars, riskSweep, breachSweep, announced,
             failures>>

Rows == Approvals \cup Exceptions

\* No time: the value of a null timestamp.
Never == -1

Times == {Never} \cup Nat

SlaHours(r) == IF r \in Approvals THEN ApprovalSla ELSE ReviewSla

IdleRiskSweep == [at |-> "idle", now |-> Never, todo |-> {}]

IdleBreachSweep == [at |-> "idle", overdue |-> {}]

TypeOK ==
  /\ clock \in Nat
  /\ status \in [Rows -> {"absent", "waiting", "decided"}]
  /\ sla_due_at \in [Rows -> Nat]
  /\ sla_breached_at \in [Rows -> Times]
  /\ escalation_level \in [Rows -> {0, 1}]
  /\ decided_at \in [Rows -> Times]
  /\ riskSweep \in [at : {"idle", "approvals", "exceptions"},
                    now : Times, todo : SUBSET Rows]
  /\ breachSweep \in [at : {"idle", "emit", "approvals", "exceptions"},
                      overdue : SUBSET Rows]
  /\ announced \subseteq Rows
  /\ failures \in 0..MaxFailures

Init ==
  /\ clock = 0
  /\ status = [r \in Rows |-> "absent"]
  /\ sla_due_at = [r \in Rows |-> 0]
  /\ sla_breached_at = [r \in Rows |-> Never]
  /\ escalation_level = [r \in Rows |-> 0]
  /\ decided_at = [r \in Rows |-> Never]
  /\ riskSweep = IdleRiskSweep
  /\ breachSweep = IdleBreachSweep
  /\ announced = {}
  /\ failures = 0

-----------------------------------------------------------------------------
Tick ==
  /\ clock < MaxClock
  /\ clock' = clock + 1
  /\ UNCHANGED <<rowVars, markVars, riskSweep, breachSweep, announced,
                 failures>>

Fail == failures < MaxFailures /\ failures' = failures + 1

\* Mutant of OpenRow: a writer forgets the deadline.
OpenRowWithoutDeadline(r) ==
  /\ status[r] = "absent"
  /\ status' = [status EXCEPT ![r] = "waiting"]
  /\ sla_due_at' = [sla_due_at EXCEPT ![r] = Never]
  /\ UNCHANGED <<clock, decided_at, markVars, riskSweep, breachSweep, announced,
                 failures>>

\* buildApprovalSlaFields and its sibling: the deadline of a new row.
OpenRow(r) ==
  /\ status[r] = "absent"
  /\ status' = [status EXCEPT ![r] = "waiting"]
  /\ sla_due_at' = [sla_due_at EXCEPT ![r] = clock + SlaHours(r)]
  /\ UNCHANGED <<clock, decided_at, markVars, riskSweep, breachSweep, announced,
                 failures>>

\* Approved or rejected.  A second decision that read the row before the
\* first one changes nothing the sweeps look at.
DecideRow(r) ==
  /\ status[r] = "waiting"
  /\ status' = [status EXCEPT ![r] = "decided"]
  /\ decided_at' = [decided_at EXCEPT ![r] = clock]
  /\ UNCHANGED <<clock, sla_due_at, markVars, riskSweep, breachSweep, announced,
                 failures>>

-----------------------------------------------------------------------------
\* Mutant of Unmarked: the comparison is the wrong way round.
UnmarkedSwapped(table, now) ==
  {r \in table : /\ status[r] = "waiting"
                 /\ now < sla_due_at[r]
                 /\ sla_breached_at[r] = Never}

\* Waiting, past its deadline and not yet marked.
Unmarked(table, now) ==
  {r \in table : /\ status[r] = "waiting"
                 /\ sla_due_at[r] < now
                 /\ sla_breached_at[r] = Never}

\* The run takes the time once and selects overdue approval requests.
StartRiskSweep ==
  /\ riskSweep.at = "idle"
  /\ riskSweep' = [at |-> "approvals", now |-> clock,
                   todo |-> Unmarked(Approvals, clock)]
  /\ UNCHANGED <<clock, rowVars, markVars, breachSweep, announced, failures>>

\* One turn of a loop: the row is marked by id with the time of the run.
MarkRow(r) ==
  /\ r \in riskSweep.todo
  /\ sla_breached_at' = [sla_breached_at EXCEPT ![r] = riskSweep.now]
  /\ escalation_level' = [escalation_level EXCEPT ![r] = 1]
  /\ riskSweep' = [riskSweep EXCEPT !.todo = @ \ {r}]
  /\ UNCHANGED <<clock, rowVars, breachSweep, announced, failures>>

\* Mutant of NextTable: the first loop is not awaited.
NextTableEarly ==
  /\ riskSweep.at = "approvals"
  /\ riskSweep' = [riskSweep EXCEPT !.at = "exceptions",
                                    !.todo = Unmarked(Exceptions, riskSweep.now)]
  /\ UNCHANGED <<clock, rowVars, markVars, breachSweep, announced, failures>>

\* The first loop is over: overdue risk exceptions are selected.
NextTable ==
  /\ riskSweep.at = "approvals" /\ riskSweep.todo = {}
  /\ riskSweep' = [riskSweep EXCEPT !.at = "exceptions",
                                    !.todo = Unmarked(Exceptions, riskSweep.now)]
  /\ UNCHANGED <<clock, rowVars, markVars, breachSweep, announced, failures>>

EndRiskSweep ==
  /\ riskSweep.at = "exceptions" /\ riskSweep.todo = {}
  /\ riskSweep' = IdleRiskSweep
  /\ UNCHANGED <<clock, rowVars, markVars, breachSweep, announced, failures>>

\* A statement fails and the handler throws, or the process dies.  The one
\* retry starts from the beginning, like the run of the next hour.
RiskSweepThrows ==
  /\ riskSweep.at # "idle"
  /\ Fail
  /\ riskSweep' = IdleRiskSweep
  /\ UNCHANGED <<clock, rowVars, markVars, breachSweep, announced>>

RiskSweepStep ==
  \/ StartRiskSweep \/ NextTable \/ EndRiskSweep
  \/ \E r \in Rows : MarkRow(r)

-----------------------------------------------------------------------------
BreachGoto(label) == breachSweep' = [breachSweep EXCEPT !.at = label]

\* Waiting and due; whether the row is marked already is not asked.
Due(table) == {r \in table : status[r] = "waiting" /\ sla_due_at[r] <= clock}

\* fetch-sla-items: a query that fails returns no rows, no matter why.
FetchItems ==
  /\ breachSweep.at = "idle"
  /\ \/ /\ breachSweep' = [at |-> "emit", overdue |-> Due(Rows)]
        /\ UNCHANGED failures
     \/ /\ Fail
        /\ \E table \in {Approvals, Exceptions, {}} :
             breachSweep' = [at |-> "emit", overdue |-> Due(table)]
  /\ UNCHANGED <<clock, rowVars, markVars, riskSweep, announced>>

\* Mutant of EmitEvents: events are sent for the rows still waiting.
EmitStillWaiting ==
  /\ breachSweep.at = "emit"
  /\ announced' =
       announced \cup {r \in breachSweep.overdue : status[r] = "waiting"}
  /\ BreachGoto("approvals")
  /\ UNCHANGED <<clock, rowVars, markVars, riskSweep, failures>>

\* emit-sla-events; when its acknowledgement is lost the step runs again.
EmitEvents ==
  /\ breachSweep.at = "emit"
  /\ announced' = announced \cup breachSweep.overdue
  /\ \/ BreachGoto("approvals") /\ UNCHANGED failures
     \/ Fail /\ UNCHANGED breachSweep
  /\ UNCHANGED <<clock, rowVars, markVars, riskSweep>>

\* One update with in(ids) and is(null); the function body runs again for
\* every step, so the time is that of the step.
StoreMarks(rows) ==
  sla_breached_at' =
    [r \in Rows |-> IF r \in rows /\ sla_breached_at[r] = Never
                    THEN clock ELSE sla_breached_at[r]]

\* A marking step: an error of the update is not looked at, and a step whose
\* acknowledgement is lost runs again.
MarkBreaches(label, table, next) ==
  /\ breachSweep.at = label
  /\ \/ /\ StoreMarks(breachSweep.overdue \cap table)
        /\ breachSweep' = next
        /\ UNCHANGED failures
     \/ /\ StoreMarks(breachSweep.overdue \cap table)
        /\ UNCHANGED breachSweep
        /\ Fail
     \/ /\ UNCHANGED sla_breached_at
        /\ breachSweep' = next
        /\ Fail
  /\ UNCHANGED <<clock, rowVars, escalation_level, riskSweep, announced>>

MarkApprovals ==
  MarkBreaches("approvals", Approvals, [breachSweep EXCEPT !.at = "exceptions"])

MarkExceptions == MarkBreaches("exceptions", Exceptions, IdleBreachSweep)

\* A step fails for good.
BreachSweepFails ==
  /\ breachSweep.at # "idle"
  /\ Fail
  /\ breachSweep' = IdleBreachSweep
  /\ UNCHANGED <<clock, rowVars, markVars, riskSweep, announced>>

BreachSweepStep ==
  FetchItems \/ EmitEvents \/ MarkApprovals \/ MarkExceptions

Next ==
  \/ Tick
  \/ \E r \in Rows : OpenRow(r) \/ DecideRow(r)
  \/ RiskSweepStep \/ RiskSweepThrows
  \/ BreachSweepStep \/ BreachSweepFails

Spec == Init /\ [][Next]_vars

\* Cron starts approvalRiskSlaSweep every hour and time goes on; nobody
\* promises that rows are decided or that the other sweep runs.
FairSpec == Spec /\ WF_vars(Tick) /\ WF_vars(RiskSweepStep)

-----------------------------------------------------------------------------
\* A row bears a breach mark only if it was still waiting when its deadline
\* passed and the mark is not before the deadline, although it may have been
\* decided between a sweep's read and its write.
MarkedWasOverdue ==
  \A r \in Rows :
    sla_breached_at[r] # Never =>
      /\ status[r] # "absent"
      /\ sla_due_at[r] <= sla_breached_at[r]
      /\ sla_breached_at[r] <= clock
      /\ decided_at[r] # Never => sla_due_at[r] <= decided_at[r]

\* Every breach is told to somebody: a marked row is escalated, or an event
\* was sent for it before.
BreachIsTold ==
  \A r \in Rows :
    sla_breached_at[r] # Never => escalation_level[r] = 1 \/ r \in announced

\* Overdue at time t, still waiting and without a mark.
MissedAt(r, t) ==
  status[r] = "waiting" /\ sla_due_at[r] < t /\ sla_breached_at[r] = Never

\* What a run of the risk sweep has selected once and works off by id is, at
\* every moment, all that is left of its table, and a table it is done with
\* has nothing left: rows that are opened, decided or marked by the other sweep
\* while it runs escape it only when they were not overdue at its time.  A run
\* that ends has therefore marked everything.
SweepMissesNothing ==
  /\ riskSweep.at = "approvals" =>
       \A r \in Approvals : MissedAt(r, riskSweep.now) => r \in riskSweep.todo
  /\ riskSweep.at = "exceptions" =>
       /\ \A r \in Approvals : ~ MissedAt(r, riskSweep.now)
       /\ \A r \in Exceptions :
            MissedAt(r, riskSweep.now) => r \in riskSweep.todo

\* A row that goes on waiting past its deadline gets its mark in the end,
\* whatever the other sweep does.
OverdueIsMarked ==
  \A r \in Rows :
    (status[r] = "waiting" /\ sla_due_at[r] < clock)
      ~> (status[r] # "waiting" \/ sla_breached_at[r] # Never)
=============================================================================
