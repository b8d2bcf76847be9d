--------------------------- MODULE IncidentLifecycle ---------------------------
(***************************************************************************)
(* Incidents: rows of evidence_records of type incident_response, whose    *)
(* whole life is one JSON payload.  The scan workflow and clients create   *)
(* them; POST /api/incidents/{id}/transition moves them one state further  *)
(* behind its gates; PATCH /api/findings/{id}/status moves the latest      *)
(* incident of a finding that became resolved                              *)
(* (autoProgressIncidentForResolvedFinding).                               *)
(*                                                                         *)
(* Every writer reads the payload, computes the next one and writes it     *)
(* back by id, with awaits in between: a write replaces what others wrote  *)
(* since.  Audit rows are not modelled, nothing reads them.                *)
(***************************************************************************)
EXTENDS Integers, Sequences

CONSTANTS
  Incidents,    \* row ids; a row inserted later has the larger id
  Findings,     \* ids of findings rows
  Calls,        \* concurrent calls of the transition endpoint
  Patches,      \* concurrent calls of the finding status endpoint
  MaxAttempts,  \* attempts of the scan step that creates incidents
  NoIncident,   \* a call works on no incident
  NoFinding     \* an incident is linked to no finding

\* The link of a row that is not there yet.
Unborn == "unborn"

ASSUME IncidentAssumption ==
  /\ Incidents \subseteq Nat
  /\ NoIncident \notin Incidents
  /\ {NoFinding, Unborn} \cap Findings = {}
  /\ NoFinding # Unborn
  /\ MaxAttempts \in Nat

VARIABLES
  payload,         \* payload.incident of every row
  finding_id,      \* the finding a row is linked to
  finding_status,  \* findings.status: resolved, or "open" for any other
  remediation,     \* the latest remediation action of a finding
  created,         \* incidents the scan workflow inserted for a finding
  call,            \* local state of every transition call
  patch,           \* local state of every finding status call
  resolvedOnce,    \* history variable: findings that have been resolved
  completedOnce    \* history variable: findings whose latest action has
                   \* been completed

incidentVars == <<payload, finding_id>>
findingVars == <<finding_status, remediation, resolvedOnce, completedOnce>>
vars == <<incidentVars, findingVars, created, call, patch>>

IncidentState == {"open", "contained", "remediated", "validated", "rejoined"}

AllowedTransitions ==
  [open |-> {"contained"}, contained |-> {"remediated"},
   remediated |-> {"validated"}, validated |-> {"rejoined"}, rejoined |-> {}]

CompletionEvents ==
  [open       |-> {"incident.created"},
   contained  |-> {"containment.started", "device.offline",
                   "network.vlan.quarantine"},
   remediated |-> {"remediation.patch_or_rebuild"},
   validated  |-> {"validation.started", "validation.completed"},
   rejoined   |-> {"recovery.rejoin_requested", "recovery.rejoin_completed"}]

LifecycleEvents == UNION {CompletionEvents[s] : s \in IncidentState}

\* The steps buildLifecycle marks completed when the incident is created.
CompletedAtCreation(waitingForApproval) ==
  {"incident.created", "containment.started"}
    \cup IF waitingForApproval THEN {}
         ELSE {"device.offline", "network.vlan.quarantine",
               "remediation.patch_or_rebuild", "validation.started"}

Entry(from, to) == [from |-> from, to |-> to]

Entries == [from : IncidentState \cup {"none"}, to : IncidentState]

\* lifecycle is the steps the payload lists, completed those it marks so.
Payloads ==
  [state : IncidentState, history : Seq(Entries), attested : BOOLEAN,
   lifecycle : SUBSET LifecycleEvents, completed : SUBSET LifecycleEvents]

\* No row: the value of payload before the insert.
NoPayload == [state |-> "open", history |-> <<>>, attested |-> FALSE,
              lifecycle |-> {}, completed |-> {}]

\* { incident: { state: "open" } }, with no lifecycle and no history.
ManualPayload == NoPayload

ScanPayload(waitingForApproval) ==
  [state |-> "open", history |-> <<Entry("none", "open")>>, attested |-> FALSE,
   lifecycle |-> LifecycleEvents,
   completed |-> CompletedAtCreation(waitingForApproval)]

Existing == {i \in Incidents : finding_id[i] # Unborn}

Fresh(i) == i \in Incidents \ Existing /\ \A j \in Existing : j < i

IncidentsOf(f) == {i \in Existing : finding_id[i] = f}

\* Mutant of IsLatest: the latest incident of any finding.
IsLatestOfAny(f, i) == i \in Existing /\ \A j \in Existing : j <= i

\* order by created_at desc limit 1
IsLatest(f, i) == i \in IncidentsOf(f) /\ \A j \in IncidentsOf(f) : j <= i

CallPC == {"idle", "finding", "remediation", "write"}

IdleCall == [at |-> "idle", incident |-> NoIncident, to |-> "open",
             read |-> NoPayload]

CallStates == [at : CallPC, incident : Incidents \cup {NoIncident},
               to : IncidentState, read : Payloads]

PatchPC == {"idle", "write", "incident", "remediation", "progress"}

IdlePatch == [at |-> "idle", finding |-> NoFinding, to |-> "open",
              was |-> "open", incident |-> NoIncident, read |-> NoPayload]

PatchStates == [at : PatchPC, finding : Findings \cup {NoFinding},
                to : {"open", "resolved"}, was : {"open", "resolved"},
                incident : Incidents \cup {NoIncident}, read : Payloads]

TypeOK ==
  /\ payload \in [Incidents -> Payloads]
  /\ finding_id \in [Incidents -> Findings \cup {NoFinding, Unborn}]
  /\ finding_status \in [Findings -> {"open", "resolved"}]
  /\ remediation \in [Findings -> {"none", "pending", "completed"}]
  /\ created \in [Findings -> 0..MaxAttempts]
  /\ call \in [Calls -> CallStates]
  /\ \A c \in Calls : call[c].at # "idle" => call[c].incident \in Existing
  /\ patch \in [Patches -> PatchStates]
  /\ \A p \in Patches :
       /\ patch[p].at # "idle" => patch[p].finding \in Findings
       /\ patch[p].at \in {"remediation", "progress"}
            => patch[p].incident \in IncidentsOf(patch[p].finding)
  /\ resolvedOnce \subseteq Findings
  /\ completedOnce \subseteq Findings

Init ==
  /\ payload = [i \in Incidents |-> NoPayload]
  /\ finding_id = [i \in Incidents |-> Unborn]
  /\ finding_status = [f \in Findings |-> "open"]
  /\ remediation = [f \in Findings |-> "none"]
  /\ created = [f \in Findings |-> 0]
  /\ call = [c \in Calls |-> IdleCall]
  /\ patch = [p \in Patches |-> IdlePatch]
  /\ resolvedOnce = {}
  /\ completedOnce = {}

-----------------------------------------------------------------------------
\* The payload one transition makes of another.
Moved(p, to) ==
  [p EXCEPT !.state = to,
            !.history = Append(@, Entry(p.state, to)),
            !.attested = IF to = "validated" THEN TRUE ELSE @,
            !.completed = @ \cup (p.lifecycle \cap CompletionEvents[to])]

\* POST /api/incidents, with or without a finding.
CreateManually(i, f) ==
  /\ Fresh(i)
  /\ payload' = [payload EXCEPT ![i] = ManualPayload]
  /\ finding_id' = [finding_id EXCEPT ![i] = f]
  /\ UNCHANGED <<findingVars, created, call, patch>>

\* create-incident-response-records, for a finding of medium severity or
\* more.  A retry of the step inserts another row.
CreateForFinding(i, f, waitingForApproval) ==
  /\ created[f] < MaxAttempts
  /\ Fresh(i)
  /\ payload' = [payload EXCEPT ![i] = ScanPayload(waitingForApproval)]
  /\ finding_id' = [finding_id EXCEPT ![i] = f]
  /\ created' = [created EXCEPT ![f] = @ + 1]
  /\ UNCHANGED <<findingVars, call, patch>>

\* Routing, approvals and executions: a finding gets a new latest action, or
\* the status of the latest one changes (module ApprovalWorkflow).
RemediationChanges(f, status) ==
  /\ remediation' = [remediation EXCEPT ![f] = status]
  /\ completedOnce' =
       IF status = "completed" THEN completedOnce \cup {f} ELSE completedOnce
  /\ UNCHANGED <<incidentVars, finding_status, resolvedOnce, created, call,
                 patch>>

-----------------------------------------------------------------------------
CallGoto(c, label) ==
  call' = [call EXCEPT ![c] = IF label = "idle" THEN IdleCall
                                                ELSE [@ EXCEPT !.at = label]]

\* Mutant of ReadIncident: the transition is looked up by the state asked for,
\* so any other state is allowed.
ReadIncidentAnyState(c, i, to, clean) ==
  /\ call[c].at = "idle"
  /\ i \in Existing
  /\ to \in IncidentState \ {payload[i].state}
  /\ to = "validated" => clean /\ finding_id[i] # NoFinding
  /\ to = "rejoined" => payload[i].attested
  /\ call' = [call EXCEPT
                ![c] = [at |-> IF to = "validated" THEN "finding" ELSE "write",
                        incident |-> i, to |-> to, read |-> payload[i]]]
  /\ UNCHANGED <<incidentVars, findingVars, created, patch>>

\* The row is read; a refused transition changes nothing.  clean: the body
\* says postRemediationScanClean and policyChecksPassed.
ReadIncident(c, i, to, clean) ==
  /\ call[c].at = "idle"
  /\ i \in Existing
  /\ to \in AllowedTransitions[payload[i].state]
  /\ to = "validated" => clean /\ finding_id[i] # NoFinding
  /\ to = "rejoined" => payload[i].attested
  /\ call' = [call EXCEPT
                ![c] = [at |-> IF to = "validated" THEN "finding" ELSE "write",
                        incident |-> i, to |-> to, read |-> payload[i]]]
  /\ UNCHANGED <<incidentVars, findingVars, created, patch>>

\* "Finding must be resolved before validation".
CheckFinding(c) ==
  /\ call[c].at = "finding"
  /\ CallGoto(c, IF finding_status[finding_id[call[c].incident]] = "resolved"
                 THEN "remediation" ELSE "idle")
  /\ UNCHANGED <<incidentVars, findingVars, created, patch>>

\* "Remediation must be completed before validation".
CheckRemediation(c) ==
  /\ call[c].at = "remediation"
  /\ CallGoto(c, IF remediation[finding_id[call[c].incident]] = "completed"
                 THEN "write" ELSE "idle")
  /\ UNCHANGED <<incidentVars, findingVars, created, patch>>

\* Mutant of WriteTransition: the state and the history are merged into the
\* stored payload instead of replacing it.
WriteTransitionMerged(c) ==
  LET i == call[c].incident IN
  /\ call[c].at = "write"
  /\ payload' = [payload EXCEPT
                   ![i] = [Moved(call[c].read, call[c].to) EXCEPT
                             !.history = Append(payload[i].history,
                                Entry(call[c].read.state, call[c].to))]]
  /\ CallGoto(c, "idle")
  /\ UNCHANGED <<finding_id, findingVars, created, patch>>

\* The payload is replaced by id by what follows from the one that was read.
WriteTransition(c) ==
  /\ call[c].at = "write"
  /\ payload' = [payload EXCEPT
                   ![call[c].incident] = Moved(call[c].read, call[c].to)]
  /\ CallGoto(c, "idle")
  /\ UNCHANGED <<finding_id, findingVars, created, patch>>

\* A statement fails or the process dies: the call has no effect any more.
CallDies(c) ==
  /\ call[c].at # "idle"
  /\ CallGoto(c, "idle")
  /\ UNCHANGED <<incidentVars, findingVars, created, patch>>

-----------------------------------------------------------------------------
PatchGoto(p, label) ==
  patch' = [patch EXCEPT ![p] = IF label = "idle" THEN IdlePatch
                                                  ELSE [@ EXCEPT !.at = label]]

\* PATCH /api/findings/{id}/status reads the finding.
ReadFinding(p, f, to) ==
  /\ patch[p].at = "idle"
  /\ patch' = [patch EXCEPT
                 ![p] = [IdlePatch EXCEPT !.at = "write", !.finding = f,
                                          !.to = to, !.was = finding_status[f]]]
  /\ UNCHANGED <<incidentVars, findingVars, created, call>>

\* The status is written by id; becameResolved compares it with the one read.
WriteFinding(p) ==
  LET f == patch[p].finding
      becameResolved == patch[p].was # "resolved" /\ patch[p].to = "resolved"
  IN
  /\ patch[p].at = "write"
  /\ finding_status' = [finding_status EXCEPT ![f] = patch[p].to]
  /\ resolvedOnce' =
       IF patch[p].to = "resolved" THEN resolvedOnce \cup {f} ELSE resolvedOnce
  /\ PatchGoto(p, IF becameResolved THEN "incident" ELSE "idle")
  /\ UNCHANGED <<incidentVars, remediation, completedOnce, created, call>>

\* The finding's latest incident is read.
ReadLatestIncident(p) ==
  LET f == patch[p].finding IN
  /\ patch[p].at = "incident"
  /\ \/ IncidentsOf(f) = {} /\ PatchGoto(p, "idle")
     \/ \E i \in Incidents :
          /\ IsLatest(f, i)
          /\ patch' = [patch EXCEPT ![p] = [@ EXCEPT !.at = "remediation",
                                                     !.incident = i,
                                                     !.read = payload[i]]]
  /\ UNCHANGED <<incidentVars, findingVars, created, call>>

\* Mutant of ReadLatestRemediation: its status is not looked at.
ReadLatestRemediationUntested(p) ==
  /\ patch[p].at = "remediation"
  /\ PatchGoto(p, IF patch[p].read.state \in {"remediated", "validated"}
                  THEN "progress" ELSE "idle")
  /\ UNCHANGED <<incidentVars, findingVars, created, call>>

\* Only a remediated or validated incident with a completed remediation is
\* progressed.
ReadLatestRemediation(p) ==
  /\ patch[p].at = "remediation"
  /\ PatchGoto(p, IF /\ remediation[patch[p].finding] = "completed"
                     /\ patch[p].read.state \in {"remediated", "validated"}
                  THEN "progress" ELSE "idle")
  /\ UNCHANGED <<incidentVars, findingVars, created, call>>

\* remediated -> validated -> rejoined, or validated -> rejoined, with an
\* attestation of its own.
AutoProgressed(p) ==
  LET q == IF p.state = "remediated" THEN Moved(p, "validated") ELSE p IN
  [Moved(q, "rejoined") EXCEPT !.attested = TRUE]

\* The payload is replaced by id; an error of the statement is not looked at.
WriteProgress(p) ==
  /\ patch[p].at = "progress"
  /\ payload' = [payload EXCEPT
                   ![patch[p].incident] = AutoProgressed(patch[p].read)]
  /\ PatchGoto(p, "idle")
  /\ UNCHANGED <<finding_id, findingVars, created, call>>

PatchDies(p) ==
  /\ patch[p].at # "idle"
  /\ PatchGoto(p, "idle")
  /\ UNCHANGED <<incidentVars, findingVars, created, call>>

-----------------------------------------------------------------------------
CallStep(c) ==
  \/ CheckFinding(c) \/ CheckRemediation(c) \/ WriteTransition(c)
  \/ CallDies(c)
  \/ \E i \in Incidents, to \in IncidentState, clean \in BOOLEAN :
       ReadIncident(c, i, to, clean)

PatchStep(p) ==
  \/ WriteFinding(p) \/ ReadLatestIncident(p) \/ ReadLatestRemediation(p)
  \/ WriteProgress(p) \/ PatchDies(p)
  \/ \E f \in Findings, to \in {"open", "resolved"} : ReadFinding(p, f, to)

Environment ==
  \/ \E i \in Incidents, f \in Findings \cup {NoFinding} : CreateManually(i, f)
  \/ \E i \in Incidents, f \in Findings, waiting \in BOOLEAN :
       CreateForFinding(i, f, waiting)
  \/ \E f \in Findings, status \in {"pending", "completed"} :
       RemediationChanges(f, status)

Next ==
  \/ \E c \in Calls : CallStep(c)
  \/ \E p \in Patches : PatchStep(p)
  \/ Environment

Spec == Init /\ [][Next]_vars

-----------------------------------------------------------------------------
\* The states an incident in state s has been through.
Passed ==
  [open |-> {"open"},
   contained |-> {"open", "contained"},
   remediated |-> {"open", "contained", "remediated"},
   validated |-> {"open", "contained", "remediated", "validated"},
   rejoined |-> IncidentState]

\* The history is a walk along the allowed transitions that ends in s.
Walk(h, s) ==
  /\ Len(h) = 0 => s = "open"
  /\ Len(h) > 0 =>
       /\ h[1] \in {Entry("none", "open"), Entry("open", "contained")}
       /\ s = h[Len(h)].to
  /\ \A n \in 2..Len(h) :
       /\ h[n].from = h[n - 1].to
       /\ h[n].to \in AllowedTransitions[h[n].from]

\* An incident that passed a state has completed the state's steps.
LifecycleReached(p) ==
  \A s \in Passed[p.state] :
    p.lifecycle \cap CompletionEvents[s] \subseteq p.completed

\* The steps that tell the device may come back are not completed early.
LifecycleNotAhead(p) ==
  /\ "validation.completed" \in p.completed => "validated" \in Passed[p.state]
  /\ CompletionEvents["rejoined"] \cap p.completed # {} => p.state = "rejoined"

Coherent(p) ==
  /\ Walk(p.history, p.state)
  /\ p.attested <=> "validated" \in Passed[p.state]
  /\ LifecycleReached(p)
  /\ LifecycleNotAhead(p)

\* Although writers overwrite each other, the state, the history, the
\* attestation and the lifecycle a payload holds always belong together: a
\* validated or rejoined incident has its attestation and the whole walk.
PayloadCoherent == \A i \in Existing : Coherent(payload[i])

\* No incident is validated or rejoined, by hand or automatically, unless its
\* finding has been resolved and a remediation of it has been completed.
EvidenceBeforeValidation ==
  \A i \in Existing :
    "validated" \in Passed[payload[i].state]
      => finding_id[i] \in resolvedOnce \cap completedOnce

\* What a call has read is coherent too, and a call that is past a gate has
\* seen the evidence: the rest of the inductive invariant.
CallSawEvidence(r) ==
  r.at # "idle" =>
    /\ Coherent(r.read)
    /\ r.to \in AllowedTransitions[r.read.state]
    /\ r.at # "write"
         => r.to = "validated" /\ finding_id[r.incident] \in Findings
    /\ r.at = "remediation" => finding_id[r.incident] \in resolvedOnce
    /\ r.at = "write" /\ "validated" \in Passed[r.to]
         => finding_id[r.incident] \in resolvedOnce \cap completedOnce

PatchSawEvidence(r) ==
  /\ r.at \in {"incident", "remediation", "progress"}
       => r.finding \in resolvedOnce
  /\ r.at \in {"remediation", "progress"} => Coherent(r.read)
  /\ r.at = "progress" => /\ r.finding \in completedOnce
                          /\ r.read.state \in {"remediated", "validated"}

\* A finding's present state counts as evidence once it was seen.
EvidenceRemembered ==
  \A f \in Findings :
    /\ finding_status[f] = "resolved" => f \in resolvedOnce
    /\ remediation[f] = "completed" => f \in completedOnce

IncidentInv ==
  /\ TypeOK
  /\ EvidenceRemembered
  /\ PayloadCoherent
  /\ EvidenceBeforeValidation
  /\ \A c \in Calls : CallSawEvidence(call[c])
  /\ \A p \in Patches : PatchSawEvidence(patch[p])

\* "allowed transitions: open -> contained -> remediated -> validated ->
\* rejoined", of a "strict state machine endpoint" (README.md): an incident
\* never returns to a state before its own.
NeverGoesBack ==
  [][\A i \in Existing :
       Passed[payload[i].state] \subseteq Passed[payload'[i].state]]_vars

\* What the code does guarantee: only the write of a transition call ever takes
\* an incident back, and only when the incident has, since the call read it,
\* passed both the state that was read and the state the call moves to.  The
\* automatic progress and the creation of incidents never do.
OnlyStaleWritesGoBack ==
  [][\A i \in Existing :
       ~ (Passed[payload[i].state] \subseteq Passed[payload'[i].state])
         => \E c \in Calls :
              /\ call[c].at = "write" /\ call'[c].at = "idle"
              /\ call[c].incident = i
              /\ {call[c].read.state, call[c].to}
                   \subseteq Passed[payload[i].state] \ {payload[i].state}]_vars
=============================================================================
