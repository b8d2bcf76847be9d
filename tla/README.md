# SecureWatch 360: specification and proofs

SecureWatch 360 scans a tenant's assets, turns what it finds into findings, and
decides for each finding whether to remediate it by itself, to ask a human, or
to leave it. Commands that isolate, patch or rebuild hosts run at the end of
that chain, so the chain's concurrency matters more than its volume: a Next.js
API, an Inngest worker and several cron functions write the same PostgreSQL
rows through PostgREST, without transactions that span two statements.

This directory holds TLA+ models of that chain, TLC configurations that check
them on small instances, and TLAPS proofs that hold for every size.

    tlc -workers 2 -config MCApprovalWorkflow_release.cfg MCApprovalWorkflow
    tlapm ApprovalWorkflow_proofs.tla

Paths below are relative to the repository; `README.md:NN` is the repository's
own README.

## 1. Inventory

The whole inventory, with the source of every part and what is modelled of it,
is `components` in `PROJECT.json`. The parts that carry the program's logic:

| part | state | operations | hard behaviour |
|---|---|---|---|
| scan workflow (`inngest/functions/scan-tenant.ts`) | `scan_runs`, `findings`, memoized steps | one Inngest function of some twenty steps: resolve target, scan, store findings, evaluate policy, route remediations, create incidents, create approval requests | a step that throws runs again *as a whole*; what it wrote before stays |
| remediation policy (`lib/remediationAgent.ts`, `core/safety/remediationGuardrails.ts`, `lib/decisionEngine.ts`) | none | candidate → plan | a matrix of severities, modes and switches where one wrong cell runs a command unattended |
| remediation table (`remediation_actions`) | status columns of a row | routing upsert, from-finding insert, status patch | writes by id of rows read a round trip earlier |
| approval requests (`api/approval-requests`) | `approval_requests` | create, approve, reject | three statements per decision, no compare-and-set, events |
| executor (`lib/remediationExecution.ts`) | the row's status while commands run | claim, guard, steps, terminal update, event | concurrent calls, retries, crashes between statements |
| incidents (`lib/incident*.ts`, `api/incidents`) | one JSON payload per incident | create, transition, automatic progress | read-modify-write of a whole document |
| SLA sweeps (`inngest/functions/approval-risk-sla-sweep.ts`, `slaBreachSweep.ts`) | deadlines, breach marks, escalation levels | two hourly cron functions | two writers of one mark, each over what it read earlier; a failed update nobody looks at |
| risk exceptions (`api/risk-exceptions`) | `risk_exceptions`, two columns of the finding | request, approve, reject | check then insert; row and finding in two statements |
| alerts, revalidation, schedules (`monitoring-alert-received.ts`, `post-remediation-revalidation.ts`, `scheduled-scans.ts`) | `scan_runs`, events | alert → run; completed execution → new scan; daily and weekly dispatch | loops and duplicates through events |
| voice commands (`server/voice`) | commands and confirmation requests | challenge, confirm, dispatch | a dispatch before the writes that end the challenge; a lookback of five rows |

How they interact: the scan workflow calls the policy, writes the remediation
table and creates approval requests and incidents; an approval writes the
remediation row and sends `remediation.execution.requested`; that event, or the
execute API, calls the executor; the executor's `remediation.execution.completed`
starts a revalidation scan; a finding that becomes resolved progresses its
incident; the sweeps mark approval requests and risk exceptions that wait too
long; a confirmed voice command sends the same events as the routes.
Everything else reads.

What makes each part correct:

- *executor*: commands of a row run once per decision and in one call at a time;
  a claimed row does not become startable again; the completed event follows the
  terminal update; a row does not stay `running`.
- *approval*: a row the guardrails hold back starts only when it is approved;
  a rejected row does not start; what is approved is executed.
- *incidents*: a payload's state, history, attestation and lifecycle belong
  together; validation has evidence; the state never goes back.
- *policy*: a plan that must wait for a human is never stored as startable.
- *scan*: one run row per function run; a run ends; a remediation that needs an
  approval is asked for, or its run shows the failure.
- *sweeps*: only rows that really missed their deadline are marked; every mark
  was told to somebody; a row that goes on waiting is marked.
- *risk exceptions*: how far beyond one active exception a finding can get; what
  a finding shows as approved was approved.
- *voice*: how often one confirmation can dispatch; a follow-up finds the
  challenge it answers.

`hazards` in `PROJECT.json` lists, line by line, what is hard to test here and
the property that covers it.

## 2. Modules

    RemediationPlans            the plans a finding can be routed with
      ├ RemediationPolicy       which finding gets which plan
      └ RemediationTable        the table, routing, other writers
          └ RemediationExecution   + calls of the executor       (Spec, FairSpec)
              └ ApprovalWorkflow   + requests, approvers, the scan
                                                           (System, FairSystem)
                  └ implements ExecutionPermit                      (abstract)
    IncidentLifecycle           incidents, transitions, automatic progress
    ScanWorkflow                runs, their functions, who asks for scans
      └ implements ScanLedger                                       (abstract)
    SlaSweep                    deadlines and the two hourly sweeps
    RiskExceptions              requests, reviews, the finding's columns
    VoiceConfirmation           challenges, follow-ups, dispatches

    RemediationExecution_proofs ── ApprovalWorkflow_proofs
    IncidentLifecycle_proofs   RemediationPolicy_proofs   ScanWorkflow_proofs
    SlaSweep_proofs            RiskExceptions_proofs      VoiceConfirmation_proofs

`MC*.tla` only add symmetry sets and the texts of `RemediationPolicy`; all
constants get their values in the `.cfg`.

**RemediationTable.** Each column of `remediation_actions` that a property tells
apart is a function of the row id under the column's name; ids stand for
`created_at`, since every "latest row" in the code orders by it. `scan` is the
position of the Inngest function per finding; `candidate` the plan the memoized
policy step fixed. `RouteRead` selects the latest row and `RouteUpdate` or
`RouteInsert` writes a round trip later, as in `routeRemediationCandidate`; a
select that fails reads like no row, because nobody looks at its error.
`RoutingRetried` is the retry of the whole step. A finding may have any plan of
`RemediationPlans`, the five outcomes of `determineExecutionPlan` with the
approval status of the candidate.

**RemediationPolicy** says where these plans come from. `OpaDecides` takes any
answer of the server (its policy is outside; `v4_decision.rego` is a sample),
`RulesDecide` folds the six rules of `decisionEngine.ts` in their order, `Route`
reads deployment and switch and computes `PlanFor`. A finding is what the rules
tell apart of it; its text is the set of the words some rule looks for, one word
standing for each group of synonyms. `FromScan` limits what is routed to the
findings `scan-tenant.ts` can build; `POST /api/policy/simulate` asks about any.

**RemediationExecution.** A *worker* is one call of
`executeRemediationActionById`; its program counter stops at every await:

| `pc` | code (`src/src/lib/remediationExecution.ts`) | actions |
|---|---|---|
| `start` | select of the row, start state test 245-265 | `ReadRow`, `ReadRefused` |
| `claim` | conditional update to `running` 267-286 | `Claim`, `ClaimRefused` |
| `guard` | `assertLiveRemediationExecutionAllowed` 288-296, adapter test 304-306 | `GuardThrows`, `GuardPasses` |
| `steps` | `buildExecutionSteps` 353-367 | `StepsDone`, `StepsSkipped`, `StepsFail` |
| `finish`, `cancel` | terminal update 369-420 | `Finish`, `FinishFails` |
| `fail` | `markFailed` 316-351 | `MarkFailed` |
| `emit`, `return` | event and answer 442-461 | `Emit`, `Return` |

`Throw` is what every exception does: Inngest runs the step again up to
`MaxAttempts` times, the API answers 500. `Crash` is a death of the process, a
failed request the code does not handle, or a lost acknowledgement, at any
program counter. The throw for an unsupported adapter (304-306) is at the same
place as the guard's and leaves the row running too, after a dry run as well; the
adapter keys that the repository stores are all supported, so it has no action of its
own, and in the runs with crashes `Crash` at `guard` is what it would be. The
commands themselves, their output and the audit rows are not modelled.

**ApprovalWorkflow.** A *decider* is one call of approve or reject: it reads a
pending request, then writes request, row and finding by id in three statements
and, for an approval, sends the event if the row's mode is not manual.
`DeciderDies` may stop it between any two. `Execution` embeds the executor;
`User` the clients.

**ExecutionPermit** says what the three promise together: a run needs a permit
and uses it up. `permit` is granted for a startable row, asked for a pending one
(which only `force` overrides), none otherwise; `running` is the set of calls
between claim and terminal update. The refinement mapping is at the end of
`ApprovalWorkflow`.

**IncidentLifecycle.** `payload[i]` is the JSON document of an incident. A
*call* is one `POST .../transition` that reads the document, looks at finding
and remediation in two further statements when it validates, and writes the
document back by id. A *patch* is one `PATCH /api/findings/{id}/status` with the
automatic progress it triggers. `created` counts what the scan step inserted,
because its retry inserts a twin. `resolvedOnce` and `completedOnce` are history
variables: what has ever been evidence.

**ScanWorkflow.** A *function* is one Inngest run of `scanTenantRequested` or,
in its short form, of `monitoringAlertReceived`; `at` is the memoized step it is
in, `Following` their order, `run` and `inserted` the memoized results later
steps use.

| `at` | step of `scan-tenant.ts` | action |
|---|---|---|
| `create` | `create-scan-run` | `CreateRun`: a retry inserts another row |
| `target` | load of the target, which must be active | `LoadTarget` |
| `running` | `mark-run-running` | `MarkRunRunning` |
| `insert` | `insert-findings` | `InsertFindings` |
| `evaluate`, `route`, `ask` | loops over findings that stop half way | `EvaluateFindings`, `RouteCandidates`, `CreateRequests` |
| `complete` | `complete-run` | `CompleteRun` |
| `fail` | `fail-run` in the catch block | `FailRun` |

A step ends acknowledged, or it fails, before, amid or after its writes, and runs
again as a whole (`Retried`); after `MaxAttempts` the function goes to `fail`.
`OtherStepThrows` stands for the steps that write nothing the properties see.
`RequestScan`, `CronLoads`/`CronSends`/`CronEnds` and `Revalidate` are the senders
of `securewatch/scan.requested`.

The evaluation decides two things about a finding, each with or without the
other: whether it needs an approval (`approval`), and whether its action asks for a
remediation (`wanted`, `shouldCreateRemediationAction`). Only what asks for one is a
candidate, and only a candidate that needs an approval gets a request: a finding
that needs one under the action `allow`, `monitor_only` or `block` stays `pending`
and nobody is asked (section 4). `ScanWorkflow` looks at the whole run and what is
known of a finding; `RemediationTable` and `ApprovalWorkflow` look at the rows that
the steps `route` and `ask` write.

**ScanLedger** says what the row of a function run tells whoever looks at it:
queued, running, then completed or failed, never back to an earlier state, and
completed for good once the function has returned. `Shown(w)` in `ScanWorkflow`
maps to it the row whose id the function has memoized, and nothing before there is
one; the other rows of a retried first step stay `queued` and are nobody's. A completed row may still become failed
while the function has not returned: that is the lost acknowledgement of section 4.

**SlaSweep.** Approval requests and risk exceptions share their columns here.
`riskSweep` is a run of the handler that selects overdue rows with one time
stamp and marks them one after another, by id; `breachSweep` a run of the
function whose steps fetch, announce, and mark with `is(sla_breached_at, null)`.
`DecideRow` may come between any two. `clock` is the hour.

**RiskExceptions.** A *post* is a call of `POST /api/risk-exceptions` (select,
insert, update of the finding), a *review* a call of approve or reject (select,
update of the exception, update of the finding), each of which may die between
two statements. `FindingEvaluated` and `FindingPatched` are the scan step and the
route that write the same two columns of a finding.

**VoiceConfirmation.** A *call* is one call of `handleVoiceCommand`: either it
stores a challenge (`InsertCommand`, `InsertConfirmation`), or it hears
"confirm", lists the newest awaiting commands, looks at one after another,
checks phrase, role and time, dispatches, and then writes both rows. Every write
may be lost, because the repository logs its errors and goes on. `lapsed` is a
history variable: calls that dispatched and left no trace.

## 3. Runs

The instances are as small as the hazards allow: a race needs two calls, a
retry two attempts, a lost message one crash, a duplicate two requests or two
incidents. The theorems of section 5 do not depend on the sizes.

| run | what it asks | bounds |
|---|---|---|
| `exec_safety` | is a row executed by one call at a time, is its result final, does a row stay completed once its event was sent | 1 row, 3 calls, 2 attempts, 2 events in flight, crashes, guard either way |
| `approval_release` | does a gated row wait for an approval, does a rejection hold, does every unforced start have an approval and a decided request, is every permit used once, does the older status stay true | the scan, 2 requests for one row, 1 approver after another, 2 calls, patches, retries, crashes |
| `approval_liveness` | does an approved row that is not manual get executed, are events taken, do runs start and end | 1 request, 2 approvers at once, execute requests, 2 attempts, no crash, fairness below |
| `policy_plans` | is every plan one the table knows; do high-touch classes and reviews wait; is what runs unattended safe; are the deployments ordered | every finding, 7 texts, every OPA answer, 4 deployments, the switch on and off |
| `incident_safety` | do payloads stay coherent and validations have evidence; does only a stale write take an incident back | 2 incidents, 2 transition calls, 1 status call |
| `scan_runs` | does one row per run live and end, does it keep the ledger, does a completed scan have actions and requests for exactly the findings its decisions say, is each of these asked about unless the run shows its failure | 1 function run, 2 run rows, 2 findings, 2 attempts, 4 failures, fairness below |
| `sla_hourly` | are marks deserved and told, does a sweep miss a row, is an overdue row marked | 1 request with no hour to go, 1 exception with one, 3 hours, 1 failure, fairness below |
| `risk_bounded` | how many active exceptions can there be, is an approval shown a real one | 1 finding, 4 exceptions, 2 posts, 2 reviews, deaths anywhere |
| `voice_bounded` | how often can one confirmation dispatch, was what is executed dispatched, is a pending challenge found | 2 commands, 2 calls, a lookback of 1, 2 lost writes |
| `exec_stuck` | *violated*: does a running row end | guard blocks |
| `approval_race` | *violated*: does a rejected request stop its row | 2 approvers |
| `incident_goes_back` | *violated*: does the state only advance | 2 calls |

`approval_liveness`, `policy_plans` and `scan_runs` set `CHECK_DEADLOCK FALSE`,
since their systems really come to rest: one request decided and executed, a
finding routed once, a function run done with no id left for another.

**Bounds.** `MaxAttempts` caps Inngest retries, `MaxRequested` the events sent by
parts that are not modelled, `MaxFailures` and `MaxLost` the failures of a
behaviour, `MaxClock` its hours; the id sets cap rows, requests and incidents.
All are guards named for what they bound. Two of them deserve a word:

- `voice_bounded` has a lookback of 1 where the code has 5: a list that is cut
  off is then two commands long instead of six. `PendingIsReachable` is proved for
  every lookback. Under it the run covers only states in which no write was lost
  or is under way; `DispatchIsBounded` is checked with two losses.
- `scan_runs` has 4 failures at 2 attempts a step, enough to exhaust a step *and*
  `fail-run`, which reports it. The run then stays `running` and nothing in the
  repository looks for such rows; `RunEnds` and `AskedOrFailed` name that case
  (`Exhausted`) and hold in every other.

**Fairness.** Weak fairness for every step of a call that has begun: Node runs
the continuation of every await and `execFile` has a timeout
(`remediationExecution.ts`, 120 s). Strong fairness for the delivery of an event:
Inngest keeps an event until a slot is free, and slots are free again and again.
Inngest goes on calling a function until it returns or gives up
(`WF(FunctionStep)` of `scan_runs`), and cron starts `approvalRiskSlaSweep` every
hour (`WF(RiskSweepStep)`); nothing is assumed of the other sweep, because the
property has to hold even if that one marks first or fails half way. None for
clients, approvers or the start of a scan: nobody has to call. `approval_liveness`
excludes crashes, because a dead process keeps no promise.

## 4. Where code and documents disagree

Three are runs that TLC must find violated, listed under `findings`:

1. `exec_stuck`: the live-execution guard throws after the claim and outside the
   `try`, so in a simulation deployment a row stays `running` for ever
   (README.md:103: "`running -> completed`").
2. `approval_race`: approve and reject do not test that the request is still
   pending when they write; a rejected request can leave an approved row
   (README.md:119).
3. `incident_goes_back`: transitions and automatic progress overwrite each
   other's documents, so a rejoined incident can become `validated` or
   `contained` again, its later history gone (README.md:79-84).

TLC finds three more on the same modules, which the invariants are stated
around:

- the terminal update is by id alone (`remediationExecution.ts:408`) and completes
  a row rejected while its commands ran;
- a retried routing step (`remediationAgent.ts:404`) or an approval
  (`approve/route.ts:109`) makes a running row startable, and a second call runs
  its commands beside the first: `OneExecutor` is a property of the executor, not
  of the system;
- the request is decided before its row (`approve/route.ts:97-113`): a failure in
  between leaves the row undecided, and no call may decide it again
  (`ApprovedIsExecuted` speaks of the rows an approval did reach).

*Sweeps.* `slaBreachSweep` marks rows without raising `escalation_level`, and the
other sweep then skips them as marked, although the column's comment says
"Increments when SLA is breached" (`20260425001000_approval_risk_sla.sql:16-17`);
`BreachIsTold` therefore says *escalated or announced*. The order "events, then
marks" is what makes it hold.

*Risk exceptions.* An approval and a rejection that race leave the finding out of
line with its exception (README.md:245: "updated to keep triage state aligned"); a second active
exception, which two concurrent requests produce, makes `maybeSingle` fail in
every later request for that finding; no code ever expires or revokes one.

*Scans.* If the acknowledgement of `complete-run` is lost on the last attempt, the
catch block turns a completed run into a failed one. A retry of `create-scan-run`
leaves `queued` rows nothing ends; a retry of `insert-findings` stores the
findings twice and only the second set is triaged. The cron function skips a
tenant whose targets it could not read, and stamps its schedules all the same
(`scheduled-scans.ts:57-63,103-107`). A remediation that never fixes its finding
can be executed, revalidated and found again without an end. Approvals are
"generated from decision outputs requiring approval" (README.md:234), but the column
`approval_status` says `pending` for all of these (`scan-tenant.ts:567`) and
`prepare-remediation-candidates` skips those whose action asks for no remediation
(685-688): such a finding, say of medium severity in a regulated context, stays
`pending` under a completed run without an action or a request. `CompletedIsTriaged`
and `AskedOrFailed` are therefore about the findings in `wanted`.

*Voice.* Nothing makes a confirmation good for one use: two calls that look at the
same pending row dispatch it twice, and a call whose writes are both lost leaves
it pending.

Also seen, in the policy: the OPA answer replaces the rules' decision, although
README.md:171 says both "are merged by precedence rules" (the merging
`policyEvaluationService.ts`, and with it the fail-closed switch of README.md:227,
is imported by nothing), and the provider defaults to OPA, not to the rules
(README.md:225); the rule that allows automatic remediation wants a public image
or manifest, but `inferExposure` knows no exposure of these, so in a scan only OPA
ever decides `auto_remediate`; a plan the guardrails alone
hold back waits, but nothing requests its approval either; with the
human-in-the-loop switch on, a config change the matrix denies is pending instead
of cancelled, so a human can approve what would be blocked with the switch off;
"port" is looked for inside words, so a finding about a "report" becomes an
isolation.

Seen elsewhere while modelling and not made a run, since no sentence of the documents is
broken or nothing reads the state: `executed_at` is also set for a run whose steps were all
skipped, although the migration comments it as the time of success; `force`
starts a pending row that the guardrails gate; a manual plan that was approved
never sends the execution event, and a `queued` plan has no sender at all; a dry
run completes the row and sends the completed event; from-finding and routing
may both insert a row for one finding, as routing does when its select fails; the retry of the step that creates
approval requests or incidents duplicates them; errors of the finding update in
approve/reject, of `markFailed` and of the automatic progress's write are
ignored; the lifecycle step `approval.waiting_for_human` belongs to no state and
is never completed; an automatic attestation claims a clean scan that was not
looked at.

## 5. Proofs

TLAPS proves, from the assumptions on the constants alone:

| module | theorem | statement |
|---|---|---|
| `RemediationExecution_proofs` | `TypeCorrect` | `Spec => []TypeOK` |
| | `ExecInvHolds` | `Spec => []ExecInv`, the inductive invariant |
| | `AtMostOneExecutor` | `Spec => []OneExecutor` |
| | `AnnouncedAfterExecution` | `Spec => []AnnouncedWasExecuted` |
| | `AnnouncedStaysCompleted` | `Spec => []AnnouncedIsCompleted` |
| | `ClaimedOnce` | `Spec => ClaimIsFinal` |
| `ApprovalWorkflow_proofs` | `SystemTypeCorrect` | `System => []SystemTypeOK` |
| | `GatedRowsWait` | `System => []GatedNeedsApproval` |
| | `RejectionsHold` | `System => []RejectedStaysStopped` |
| | `ClaimsAreTrue` | `System => []CompletedIsExecuted` |
| | `ApprovalsAreDecided` | `System => []ApprovedWasDecided`: every approved row has a decided request |
| | `StartsAreApproved` | `System => StartsWereApproved` |
| | `OnlyReleasesReopen` | only an approval or a routing update makes an existing row startable that was not |
| | `SystemAnnouncesExecuted` | `System => []AnnouncedWasExecuted` |
| | `UndisturbedRunsAreAlone` | `System /\ [][Undisturbed]_allVars => []OneExecutor` |
| | `PermitsAreUsedOnce` | `System => PermitSpec`, the refinement |
| `IncidentLifecycle_proofs` | `IncidentsTyped`, `PayloadsBelongTogether`, `ValidationHadEvidence`, `GoesBackOnlyIfStale` | `Spec => []TypeOK`, `[]PayloadCoherent`, `[]EvidenceBeforeValidation`, `OnlyStaleWritesGoBack` |
| | `CurrentReadingsOnlyAdvance` | `NeverGoesBack`, if the state a transition call read still holds when it writes |
| `RemediationPolicy_proofs` | `PlansAreKnown`, `HighTouchIsHeld`, `ReviewsAreKept`, `UnattendedRunsAreSafe`, `DeploymentsAreOrdered` | `Spec => []TypeOK` (the plan is one of `Plans`), `[]HighTouchWaits`, `[]ReviewIsKept`, `[]UnattendedIsSafe`, `[]StricterReleasesLess` |
| `ScanWorkflow_proofs` | `TypeCorrect`, `OneRunIsLive`, `CompletedScansAreTriaged`, `RunsKeepTheLedger`, `ReturnedIsCompleted` | `Spec => []TypeOK`, `[]OneLiveRun`, `[]CompletedIsTriaged`, `LedgerSpec` (the refinement), a function that returned has a completed run |
| `SlaSweep_proofs` | `TypeCorrect`, `MarksAreDeserved`, `BreachesAreTold`, `NothingIsMissed`, `EndedSweepMarkedAll`, `MarksStay` | `Spec => []TypeOK`, `[]MarkedWasOverdue`, `[]BreachIsTold`, `[]SweepMissesNothing`; a sweep that ends has left no due row unmarked; no mark is taken back |
| `RiskExceptions_proofs` | `TypeCorrect`, `ActiveBounded`, `ApprovalsAreReal` | `Spec => []TypeOK`, `[]ActiveIsBounded`, `[]ApprovedHasException` |
| `VoiceConfirmation_proofs` | `TypeCorrect`, `DispatchesAreBounded`, `ChallengesAreReachable` | `Spec => []TypeOK`, `[]DispatchIsBounded`, `[]PendingIsReachable` |

*Executor.* `OneExecutor` is not inductive: nothing in it says why a second call
cannot claim. `ExecInv` adds that a row held by a call is not startable
(`HolderCloses`); the claim tests and sets the status in one statement, so a new
holder finds no other. `EmitterRecorded` plays the same role for the event.
That an announced row *stays* completed needs more (`SettledInv`): a call whose
terminal update only seemed to fail marks a completed row failed, and the retry
of a call that died after its event comes back to the row. Neither can reach an
announced row: the call that announces it was the only holder when it completed
it (`EmitterSettles`), and a settled row is held by nobody and claimed by nobody
(`SettledStays`).

*Executor in the system.* There `OneExecutor` breaks, rightly: other writers make
running rows startable (section 4). The proofs say how far the damage goes.
`ExecutionIsNext` makes every executor step of `System` a step of the executor's own
specification, so that its lemmas serve again; `OthersLeaveCalls` is the rest.
Together they give `SystemAnnouncesExecuted` without a condition, and
`UndisturbedRunsAreAlone` under one: nobody approves or re-routes a row while its
commands run (`Undisturbed`). `ReopenIsRelease` shows that these two writers are all there
is to fear. The condition is no hidden assumption of the other theorems; with it the
instance of `approval_release` has 210052 states without a violation, and without it
TLC violates `HolderCloses`.

*Approval.* `ReleaseInv` is its own strengthening once types are added, because
every writer assigns the governing columns in one statement: a plan is either
gated or startable (`PlansHoldBack`), a decision writes status and approval
together (`DecisionReleases`), and the executor only takes rows out of the
startable states (`WorkerStatuses`). No argument about what a call read before
is needed, which is why the races of finding 2 do not touch these invariants.
`StartsWereApproved` needs one: `DecisionInv` adds that a call about to write its
row has decided its request (`RowsToDecide`), and that every approved row has such a
request (`ApprovedWasDecided`), which stays because requests are inserted once and
never become pending again (`DecisionsStay`), and because no plan is an approval
(`PlansApproveNothing`).

*Refinement.* Every action maps to `Decide` (scan, clients, deciders), `Start` or
`Override` (the claim), `Stop` (leaving the holding states) or a stutter. A call
that throws keeps or loses its permit; both are abstract steps.

*Incidents.* `IncidentInv` extends the two invariants to the local state of the
calls: what a call read was coherent (`CallSawEvidence`, `PatchSawEvidence`), and
a call past a gate has seen the evidence, which the history variables remember.
`MovedCoherent` and `AutoProgressedCoherent` say that one step from a coherent
document makes a coherent document, so an overwrite can lose a document but
never mix two. `GoesBackOnlyIfStale` is the positive half of finding 3. The states an
incident has passed tell its state and a transition adds exactly one to them
(`PassedGrows`), so a write that goes back has been overtaken by more than its own
step; automatic progress always writes the last state (`StepGoesBackOnlyIfStale`).
So an update conditional on the state that was read would be all that `NeverGoesBack`
needs (`CurrentReadingsOnlyAdvance`): the condition is a hypothesis of that theorem, and
the run `incident_goes_back` shows that the code does not meet it.

*Policy.* The state holds what the functions return (`PolicyInv`), so the work is
in the lemmas: `PlanCases` says which plan each branch gives, `AllowedMeans` what
passing both layers of guardrails amounts to, `RulesDecideOnce` follows the
approval through the six rules in order. They hold for every set of texts;
`PlansAreKnown` is the assumption under which the theorems about the table,
where `candidate` starts anywhere in `Plans`, speak about the code.

*Scans.* `ScanInv` says what the memoized steps know. `LiveIsMemoized` is the
strengthening of `OneLiveRun`: every update is by the memoized id, so a row that
left `queued` is that id. `DecidedSoFar` follows a scan through its loops:
`TriagedAt` says what is established of a finding at each step, in both directions,
since a retried evaluation may decide otherwise, but only before the first action is
routed; `RoutedHaveRun` starts it, a finding not inserted yet has none.
`InsertedAreOwn` keeps two function runs from sharing a finding, without which
one run's retry could undecide what the other has decided. For the ledger,
`ShownInv` ties what a function run shows to the step it is in; `Moves` lists the
ways a step may change it, and `MovesTurn` finds the abstract step of each. A row that
the first step inserts is shown by nobody until its id is memoized, so a lost answer to
that insert is a stutter, and only the attempt that is acknowledged queues the run.

*Sweeps.* `MissedBy(r, t)` is what a sweep knows of a row when it selects it,
and it is stable: no decision takes it back. That is why a mark by id over a stale
read is right all the same (`RiskSweepKnows`, `BreachSweepKnows`). `EventsBeforeMarks` is the
order the second half needs. `SweepMissesNothing` turns from the marks to the rows: a
selection is made at once, no row joins later those that were due at the sweep's time (a
new deadline is not before it and a mark stays: `NoneIsAdded`), and a row leaves `todo`
only marked or decided. It does not hold of `slaBreachSweep`, whose marking update may
fail unseen.

*Risk exceptions.* Counting active exceptions is not inductive: a rejected one
comes back when an approval that read it earlier writes. `LiveIsBounded` counts
these and the posts past their select too. The bound is one less than the calls,
because some call must have ended the exception a post found gone (`SomebodyIsFree`).

*Voice.* `Counted` has two halves: while both rows of a command wait, dispatches
are the calls that still owe a write and those that never will; after the first write no call
joins those that hold the command. That "executed" has a dispatch behind it is `ExecutedInv`,
which follows the word through the local state of the call that writes it. `PileInv` counts the awaiting commands without a pending
challenge against the writes lost (`UncoveredGrows`); fewer of these than the
lookback leave it room for a pending one (`FewOrphans`, `NewestExists`).

*Older status.* `CompletedIsExecuted` is inductive by itself once it is stated
for both columns: every writer either assigns the two in one statement or gives
the older one a word that claims no execution.

Only model-checked: the liveness properties with the fairness they need
(`ApprovedIsExecuted`, `DispatchedIsTaken`, `RunningEnds`, `EventuallyStarted`,
`RunEnds`, `AskedOrFailed`, `OverdueIsMarked`). The violation runs are
counterexamples on their instance.

## 6. Not modelled

Everything `components` marks `not_modelled`, each with its reason there. Most of
the repository is of this kind: the console and its demonstration shells, which keep no
shared state; scanners, OSINT and other calls to external systems; compliance
scoring, posture formulas and reports, which derive documents from rows; role
checks, which every handler makes first (the models start behind them); the
wording gateway with its budgets and caches, whose text no decision reads; the
demo replay, which lives in one browser tab; the simulator, the catalog data and
the infrastructure files.

Within what is modelled: audit rows, resolution evidence and notifications are left out
everywhere, since no code reads them to decide anything; of a scan the steps
that only call out, and the agents' own functions; of voice commands the
classification of an utterance and the commands dispatched without a challenge.
The effects of commands on hosts are outside the repository.

## 7. Plan

Done: the core chain table → executor → approvals with its refinement, the
policy that feeds it, incidents, runs with the ledger they implement and their
requesters, sweeps, risk exceptions, voice confirmations; every safety invariant the runs check is proved.
What could follow:

1. `IncidentLifecycle` composed with `ApprovalWorkflow` in place of
   `RemediationChanges`, and the events of `VoiceConfirmation` with the executor.
2. Proofs about the composition: which of the executor's and of the approvals'
   theorems survive when incidents and voice commands are among the other writers.
3. The agents' own functions (discovery, OSINT, vulnerability scan) as further
   kinds of function in `ScanWorkflow`.
4. `voice_bounded` with a longer lookback: with three commands and a lookback
   of two it has over nine million states.
