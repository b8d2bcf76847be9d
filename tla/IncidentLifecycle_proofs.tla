----------------------- MODULE IncidentLifecycle_proofs -----------------------
(***************************************************************************)
(* Theorems about incidents, for any number of incidents, findings and     *)
(* concurrent writers.                                                     *)
(***************************************************************************)
EXTENDS IncidentLifecycle, TLAPS

\* The history that a transition extends stays a walk.
LEMMA WalkExtends ==
  ASSUME NEW h \in Seq(Entries), NEW s \in IncidentState,
         NEW to \in AllowedTransitions[s], Walk(h, s)
  PROVE  Walk(Append(h, Entry(s, to)), to)
<1> DEFINE e == Entry(s, to)
           g == Append(h, e)
<1>1. to \in IncidentState
  BY DEF AllowedTransitions, IncidentState
<1>2. e \in Entries /\ e.from = s /\ e.to = to
  BY <1>1 DEF Entry, Entries
<1>3. /\ Len(h) \in Nat /\ Len(g) = Len(h) + 1 /\ g[Len(g)] = e
      /\ \A n \in 1..Len(h) : g[n] = h[n]
  BY <1>2
<1> HIDE DEF e, g
<1>4. g[1] \in {Entry("none", "open"), Entry("open", "contained")}
  <2>1. CASE Len(h) = 0
    <3>1. s = "open" /\ to = "contained"
      BY <2>1 DEF Walk, AllowedTransitions
    <3> QED BY <1>3, <2>1, <3>1 DEF e
  <2>2. CASE Len(h) > 0
    BY <1>3, <2>2 DEF Walk
  <2> QED BY <1>3, <2>1, <2>2
<1>5. ASSUME NEW n \in 2..Len(g)
      PROVE  /\ g[n].from = g[n - 1].to
             /\ g[n].to \in AllowedTransitions[g[n].from]
  <2>1. CASE n \in 2..Len(h)
    BY <1>3, <2>1 DEF Walk
  <2>2. CASE n = Len(h) + 1
    <3>1. Len(h) > 0 /\ g[n - 1] = h[Len(h)] /\ g[n] = e
      BY <1>3, <1>5, <2>2
    <3> QED BY <1>2, <3>1 DEF Walk
  <2> QED BY <1>3, <1>5, <2>1, <2>2
<1>6. Walk(g, to)
  BY <1>2, <1>3, <1>4, <1>5 DEF Walk
<1> QED BY <1>6 DEF g, e

\* One allowed transition of a coherent payload makes a coherent payload.
LEMMA MovedCoherent ==
  ASSUME NEW p \in Payloads, Coherent(p),
         NEW to \in AllowedTransitions[p.state]
  PROVE  Moved(p, to) \in Payloads /\ Coherent(Moved(p, to))
<1> DEFINE q == Moved(p, to)
<1>1. /\ p.state \in IncidentState /\ p.history \in Seq(Entries)
      /\ p.attested \in BOOLEAN /\ p.lifecycle \subseteq LifecycleEvents
      /\ p.completed \subseteq LifecycleEvents
  BY DEF Payloads
<1>2. to \in IncidentState
  BY <1>1 DEF AllowedTransitions, IncidentState
<1>3. Entry(p.state, to) \in Entries
  BY <1>1, <1>2 DEF Entry, Entries
<1>4. /\ q.state = to /\ q.lifecycle = p.lifecycle
      /\ q.history = Append(p.history, Entry(p.state, to))
      /\ q.attested = IF to = "validated" THEN TRUE ELSE p.attested
      /\ q.completed = p.completed \cup (p.lifecycle \cap CompletionEvents[to])
  BY DEF Moved, Payloads
<1>5. q \in Payloads
  <2>1. Append(p.history, Entry(p.state, to)) \in Seq(Entries)
    BY <1>1, <1>3
  <2>2. p.completed \cup (p.lifecycle \cap CompletionEvents[to])
          \in SUBSET LifecycleEvents
    BY <1>1
  <2>3. (IF to = "validated" THEN TRUE ELSE p.attested) \in BOOLEAN
    BY <1>1
  <2> QED BY <1>2, <2>1, <2>2, <2>3 DEF Moved, Payloads
<1> HIDE DEF q
<1>6. Walk(q.history, q.state)
  BY <1>1, <1>4, WalkExtends DEF Coherent
<1>7. \/ p.state = "open" /\ to = "contained"
      \/ p.state = "contained" /\ to = "remediated"
      \/ p.state = "remediated" /\ to = "validated"
      \/ p.state = "validated" /\ to = "rejoined"
  BY <1>1 DEF AllowedTransitions, IncidentState
<1>8. Passed[to] = Passed[p.state] \cup {to}
  BY <1>7 DEF Passed, IncidentState
<1>9. q.attested <=> "validated" \in Passed[q.state]
  BY <1>4, <1>8 DEF Coherent
<1>10. LifecycleReached(q)
  BY <1>4, <1>8 DEF Coherent, LifecycleReached
<1>11. LifecycleNotAhead(q)
  BY <1>1, <1>4, <1>7
     DEF Coherent, LifecycleNotAhead, CompletionEvents, Passed
<1> QED BY <1>5, <1>6, <1>9, <1>10, <1>11 DEF Coherent, q

\* The automatic progress of a coherent payload makes a coherent one.
LEMMA AutoProgressedCoherent ==
  ASSUME NEW p \in Payloads, Coherent(p),
         p.state \in {"remediated", "validated"}
  PROVE  /\ AutoProgressed(p) \in Payloads
         /\ Coherent(AutoProgressed(p))
<1> DEFINE q == IF p.state = "remediated" THEN Moved(p, "validated") ELSE p
<1>1. q \in Payloads /\ Coherent(q) /\ q.state = "validated"
  <2>1. CASE p.state = "remediated"
    <3>1. "validated" \in AllowedTransitions[p.state]
      BY <2>1 DEF AllowedTransitions
    <3>2. /\ Moved(p, "validated") \in Payloads
          /\ Coherent(Moved(p, "validated"))
      BY <3>1, MovedCoherent
    <3>3. Moved(p, "validated").state = "validated"
      BY DEF Moved, Payloads
    <3> QED BY <2>1, <3>2, <3>3
  <2>2. CASE p.state = "validated"
    BY <2>2
  <2> QED BY <2>1, <2>2
<1> HIDE DEF q
<1>2. Moved(q, "rejoined") \in Payloads /\ Coherent(Moved(q, "rejoined"))
  BY <1>1, MovedCoherent DEF AllowedTransitions
<1>3. Moved(q, "rejoined").attested = TRUE
  BY <1>1 DEF Coherent, Passed, Moved, Payloads
<1>4. [Moved(q, "rejoined") EXCEPT !.attested = TRUE] = Moved(q, "rejoined")
  BY <1>2, <1>3 DEF Payloads
<1>5. AutoProgressed(p) = [Moved(q, "rejoined") EXCEPT !.attested = TRUE]
  BY DEF AutoProgressed, q
<1> QED BY <1>2, <1>4, <1>5

\* The payloads incidents are created with are coherent.
LEMMA NewPayloads ==
  /\ NoPayload \in Payloads /\ Coherent(NoPayload)
  /\ \A waiting \in BOOLEAN :
       ScanPayload(waiting) \in Payloads /\ Coherent(ScanPayload(waiting))
<1>1. NoPayload \in Payloads
  BY DEF NoPayload, Payloads, IncidentState
<1>2. Coherent(NoPayload)
  BY DEF NoPayload, Coherent, Walk, LifecycleReached, LifecycleNotAhead, Passed
<1>3. ASSUME NEW waiting \in BOOLEAN
      PROVE  ScanPayload(waiting) \in Payloads /\ Coherent(ScanPayload(waiting))
  <2> DEFINE p == ScanPayload(waiting)
  <2>1. /\ {"incident.created", "containment.started", "device.offline",
            "network.vlan.quarantine", "remediation.patch_or_rebuild",
            "validation.started"} \subseteq LifecycleEvents
    BY DEF LifecycleEvents, CompletionEvents, IncidentState
  <2>2. CompletedAtCreation(waiting) \subseteq LifecycleEvents
    BY <2>1 DEF CompletedAtCreation
  <2>3. <<Entry("none", "open")>> \in Seq(Entries)
    BY DEF Entry, Entries, IncidentState
  <2>4. p \in Payloads
    BY <2>2, <2>3 DEF ScanPayload, Payloads, IncidentState
  <2>5. Walk(p.history, p.state)
    BY DEF ScanPayload, Walk, Entry
  <2>6. LifecycleReached(p) /\ LifecycleNotAhead(p)
    BY DEF ScanPayload, LifecycleReached, LifecycleNotAhead, Passed,
           CompletedAtCreation, CompletionEvents
  <2>7. p.attested <=> "validated" \in Passed[p.state]
    BY DEF ScanPayload, Passed
  <2> QED BY <2>4, <2>5, <2>6, <2>7 DEF Coherent
<1> QED BY <1>1, <1>2, <1>3

-----------------------------------------------------------------------------
\* A payload that is written is coherent and has its evidence, so both
\* invariants survive the write, whatever was stored before.
LEMMA PayloadWritten ==
  ASSUME IncidentInv, NEW i \in Existing, NEW q \in Payloads, Coherent(q),
         "validated" \in Passed[q.state]
           => finding_id[i] \in resolvedOnce \cap completedOnce,
         payload' = [payload EXCEPT ![i] = q],
         UNCHANGED <<finding_id, findingVars>>
  PROVE  /\ payload' \in [Incidents -> Payloads]
         /\ PayloadCoherent' /\ EvidenceBeforeValidation'
<1>1. payload \in [Incidents -> Payloads] /\ i \in Incidents
  BY DEF IncidentInv, TypeOK, Existing
<1>2. Existing' = Existing /\ Existing \subseteq Incidents
  BY DEF Existing
<1>3. \A j \in Incidents : payload'[j] = IF j = i THEN q ELSE payload[j]
  BY <1>1
<1>4. ASSUME NEW j \in Existing PROVE Coherent(payload'[j])
  BY <1>2, <1>3, <1>4 DEF IncidentInv, PayloadCoherent
<1>5. EvidenceBeforeValidation'
  BY <1>2, <1>3 DEF IncidentInv, EvidenceBeforeValidation, findingVars
<1> QED BY <1>1, <1>2, <1>4, <1>5 DEF PayloadCoherent

\* A transition call that has seen the evidence may go anywhere.
LEMMA CallChanges ==
  ASSUME IncidentInv, NEW c \in Calls, NEW r \in CallStates,
         call' = [call EXCEPT ![c] = r],
         r.at # "idle" => r.incident \in Existing,
         CallSawEvidence(r),
         payload' \in [Incidents -> Payloads],
         PayloadCoherent', EvidenceBeforeValidation',
         UNCHANGED <<finding_id, findingVars, created, patch>>
  PROVE  IncidentInv'
<1>1. call' \in [Calls -> CallStates]
      /\ \A d \in Calls : call'[d] = IF d = c THEN r ELSE call[d]
  BY DEF IncidentInv, TypeOK
<1>2. Existing' = Existing /\ \A f : IncidentsOf(f)' = IncidentsOf(f)
  BY DEF Existing, IncidentsOf
<1>3. TypeOK'
  BY <1>1, <1>2 DEF IncidentInv, TypeOK, findingVars
<1>4. ASSUME NEW d \in Calls PROVE CallSawEvidence(call[d])'
  BY <1>1 DEF IncidentInv, CallSawEvidence, findingVars
<1>5. \A p \in Patches : PatchSawEvidence(patch[p])'
  BY DEF IncidentInv, PatchSawEvidence, findingVars
<1>6. EvidenceRemembered'
  BY DEF IncidentInv, EvidenceRemembered, findingVars
<1> QED BY <1>3, <1>4, <1>5, <1>6 DEF IncidentInv

\* So may a finding status call.
LEMMA PatchChanges ==
  ASSUME IncidentInv, NEW p \in Patches, NEW r \in PatchStates,
         patch' = [patch EXCEPT ![p] = r],
         r.at # "idle" => r.finding \in Findings,
         r.at \in {"remediation", "progress"}
           => r.incident \in IncidentsOf(r.finding),
         PatchSawEvidence(r),
         payload' \in [Incidents -> Payloads],
         PayloadCoherent', EvidenceBeforeValidation',
         UNCHANGED <<finding_id, findingVars, created, call>>
  PROVE  IncidentInv'
<1>1. patch' \in [Patches -> PatchStates]
      /\ \A d \in Patches : patch'[d] = IF d = p THEN r ELSE patch[d]
  BY DEF IncidentInv, TypeOK
<1>2. Existing' = Existing /\ \A f : IncidentsOf(f)' = IncidentsOf(f)
  BY DEF Existing, IncidentsOf
<1>3. TypeOK'
  BY <1>1, <1>2 DEF IncidentInv, TypeOK, findingVars
<1>4. ASSUME NEW d \in Patches PROVE PatchSawEvidence(patch[d])'
  BY <1>1 DEF IncidentInv, PatchSawEvidence, findingVars
<1>5. \A c \in Calls : CallSawEvidence(call[c])'
  BY DEF IncidentInv, CallSawEvidence, findingVars
<1>6. EvidenceRemembered'
  BY DEF IncidentInv, EvidenceRemembered, findingVars
<1> QED BY <1>3, <1>4, <1>5, <1>6 DEF IncidentInv

\* A step that leaves the incidents and the evidence alone keeps what was
\* proved of them.
LEMMA IncidentsUntouched ==
  ASSUME IncidentInv, UNCHANGED <<incidentVars, findingVars>>
  PROVE  /\ payload' \in [Incidents -> Payloads]
         /\ PayloadCoherent' /\ EvidenceBeforeValidation'
<1>1. Existing' = Existing
  BY DEF Existing, incidentVars
<1> QED BY <1>1 DEF IncidentInv, TypeOK, PayloadCoherent,
                    EvidenceBeforeValidation, incidentVars, findingVars

-----------------------------------------------------------------------------
\* Every step of a transition call keeps the invariant: it reads a coherent
\* payload, looks at the evidence and writes the next coherent payload.
LEMMA CallStepKeeps ==
  ASSUME IncidentInv, NEW c \in Calls, CallStep(c)
  PROVE  IncidentInv'
<1>1. /\ call \in [Calls -> CallStates]
      /\ call[c].at # "idle" => call[c].incident \in Existing
      /\ payload \in [Incidents -> Payloads]
      /\ Existing \subseteq Incidents
      /\ CallSawEvidence(call[c])
  BY DEF IncidentInv, TypeOK, Existing
<1>2. IdleCall \in CallStates /\ IdleCall.at = "idle"
  BY NewPayloads DEF IdleCall, CallStates, CallPC, IncidentState
<1>3. ASSUME NEW label \in CallPC
      PROVE  [call[c] EXCEPT !.at = label] \in CallStates
  BY <1>1, <1>3 DEF CallStates
<1>4. ASSUME CallGoto(c, "idle"), payload' \in [Incidents -> Payloads],
             PayloadCoherent', EvidenceBeforeValidation',
             UNCHANGED <<finding_id, findingVars, created, patch>>
      PROVE  IncidentInv'
  BY <1>2, <1>4, CallChanges DEF CallGoto, CallSawEvidence
<1>5. CASE CallDies(c)
  BY <1>4, <1>5, IncidentsUntouched DEF CallDies, incidentVars
<1>6. CASE CheckFinding(c)
  <2>1. CASE finding_status[finding_id[call[c].incident]] = "resolved"
    <3> DEFINE r == [call[c] EXCEPT !.at = "remediation"]
    <3>1. r \in CallStates /\ call' = [call EXCEPT ![c] = r]
      BY <1>3, <1>6, <2>1 DEF CheckFinding, CallGoto, CallPC
    <3>2. /\ r.at = "remediation" /\ r.incident = call[c].incident
          /\ r.to = call[c].to /\ r.read = call[c].read
      BY <1>1 DEF CallStates
    <3> HIDE DEF r
    <3>3. finding_id[call[c].incident] \in resolvedOnce
      BY <1>1, <1>6, <2>1
         DEF CheckFinding, CallSawEvidence, IncidentInv, EvidenceRemembered
    <3>4. CallSawEvidence(r)
      BY <1>1, <1>6, <3>2, <3>3 DEF CheckFinding, CallSawEvidence
    <3> QED BY <1>1, <1>6, <3>1, <3>2, <3>4, IncidentsUntouched, CallChanges
            DEF CheckFinding, incidentVars
  <2>2. CASE finding_status[finding_id[call[c].incident]] # "resolved"
    BY <1>4, <1>6, <2>2, IncidentsUntouched DEF CheckFinding, incidentVars
  <2> QED BY <2>1, <2>2
<1>7. CASE CheckRemediation(c)
  <2>1. CASE remediation[finding_id[call[c].incident]] = "completed"
    <3> DEFINE r == [call[c] EXCEPT !.at = "write"]
    <3>1. r \in CallStates /\ call' = [call EXCEPT ![c] = r]
      BY <1>3, <1>7, <2>1 DEF CheckRemediation, CallGoto, CallPC
    <3>2. /\ r.at = "write" /\ r.incident = call[c].incident
          /\ r.to = call[c].to /\ r.read = call[c].read
      BY <1>1 DEF CallStates
    <3> HIDE DEF r
    <3>3. finding_id[call[c].incident] \in resolvedOnce \cap completedOnce
      BY <1>1, <1>7, <2>1
         DEF CheckRemediation, CallSawEvidence, IncidentInv, EvidenceRemembered
    <3>4. CallSawEvidence(r)
      BY <1>1, <1>7, <3>2, <3>3 DEF CheckRemediation, CallSawEvidence
    <3> QED BY <1>1, <1>7, <3>1, <3>2, <3>4, IncidentsUntouched, CallChanges
            DEF CheckRemediation, incidentVars
  <2>2. CASE remediation[finding_id[call[c].incident]] # "completed"
    BY <1>4, <1>7, <2>2, IncidentsUntouched DEF CheckRemediation, incidentVars
  <2> QED BY <2>1, <2>2
<1>8. CASE WriteTransition(c)
  <2> DEFINE r == call[c]
             q == Moved(r.read, r.to)
  <2>1. /\ r.read \in Payloads /\ Coherent(r.read) /\ r.incident \in Existing
        /\ r.to \in AllowedTransitions[r.read.state]
    BY <1>1, <1>8 DEF WriteTransition, CallSawEvidence, CallStates
  <2>2. q \in Payloads /\ Coherent(q)
    BY <2>1, MovedCoherent
  <2>3. q.state = r.to
    BY <2>1 DEF Moved, Payloads
  <2>4. "validated" \in Passed[q.state]
          => finding_id[r.incident] \in resolvedOnce \cap completedOnce
    BY <1>1, <1>8, <2>3 DEF WriteTransition, CallSawEvidence
  <2> HIDE DEF q
  <2>5. /\ payload' \in [Incidents -> Payloads]
        /\ PayloadCoherent' /\ EvidenceBeforeValidation'
    BY <1>8, <2>1, <2>2, <2>4, PayloadWritten DEF WriteTransition, q
  <2> QED BY <1>4, <1>8, <2>5 DEF WriteTransition
<1>9. ASSUME NEW i \in Incidents, NEW to \in IncidentState,
             NEW clean \in BOOLEAN, ReadIncident(c, i, to, clean)
      PROVE  IncidentInv'
  <2> DEFINE p == payload[i]
             r == [at |-> IF to = "validated" THEN "finding" ELSE "write",
                   incident |-> i, to |-> to, read |-> p]
  <2>1. p \in Payloads /\ Coherent(p) /\ i \in Existing
    BY <1>1, <1>9 DEF ReadIncident, IncidentInv, PayloadCoherent
  <2>2. r \in CallStates
    BY <2>1 DEF CallStates, CallPC
  <2>3. finding_id[i] \in Findings \cup {NoFinding}
    BY <1>9, <2>1 DEF IncidentInv, TypeOK, Existing
  <2>4. to = "rejoined" => finding_id[i] \in resolvedOnce \cap completedOnce
    BY <1>9, <2>1
       DEF ReadIncident, Coherent, IncidentInv, EvidenceBeforeValidation
  <2>5. "validated" \in Passed[to] => to \in {"validated", "rejoined"}
    BY <1>9 DEF Passed, IncidentState
  <2>6. CallSawEvidence(r)
    BY <1>9, <2>1, <2>3, <2>4, <2>5 DEF ReadIncident, CallSawEvidence
  <2> HIDE DEF r
  <2> QED BY <1>9, <2>1, <2>2, <2>6, IncidentsUntouched, CallChanges
          DEF ReadIncident, r, incidentVars
<1> QED BY <1>5, <1>6, <1>7, <1>8, <1>9 DEF CallStep

\* Every step of a finding status call keeps the invariant.
LEMMA PatchStepKeeps ==
  ASSUME IncidentInv, NEW p \in Patches, PatchStep(p)
  PROVE  IncidentInv'
<1>1. /\ patch \in [Patches -> PatchStates]
      /\ patch[p].at # "idle" => patch[p].finding \in Findings
      /\ patch[p].at \in {"remediation", "progress"}
           => patch[p].incident \in IncidentsOf(patch[p].finding)
      /\ payload \in [Incidents -> Payloads]
      /\ finding_status \in [Findings -> {"open", "resolved"}]
      /\ Existing \subseteq Incidents
      /\ PatchSawEvidence(patch[p])
  BY DEF IncidentInv, TypeOK, Existing
<1>2. IdlePatch \in PatchStates /\ IdlePatch.at = "idle"
  BY NewPayloads DEF IdlePatch, PatchStates, PatchPC
<1>3. ASSUME NEW label \in PatchPC
      PROVE  [patch[p] EXCEPT !.at = label] \in PatchStates
  BY <1>1, <1>3 DEF PatchStates
<1>4. ASSUME PatchGoto(p, "idle"), payload' \in [Incidents -> Payloads],
             PayloadCoherent', EvidenceBeforeValidation',
             UNCHANGED <<finding_id, findingVars, created, call>>
      PROVE  IncidentInv'
  BY <1>2, <1>4, PatchChanges DEF PatchGoto, PatchSawEvidence
<1>5. CASE PatchDies(p)
  BY <1>4, <1>5, IncidentsUntouched DEF PatchDies, incidentVars
<1>6. CASE ReadLatestRemediation(p)
  <2> DEFINE goes == /\ remediation[patch[p].finding] = "completed"
                     /\ patch[p].read.state \in {"remediated", "validated"}
  <2>1. CASE goes
    <3> DEFINE r == [patch[p] EXCEPT !.at = "progress"]
    <3>1. r \in PatchStates /\ patch' = [patch EXCEPT ![p] = r]
      BY <1>3, <1>6, <2>1 DEF ReadLatestRemediation, PatchGoto, PatchPC
    <3>2. /\ r.at = "progress" /\ r.finding = patch[p].finding
          /\ r.incident = patch[p].incident /\ r.read = patch[p].read
      BY <1>1 DEF PatchStates
    <3> HIDE DEF r
    <3>3. patch[p].finding \in completedOnce
      BY <1>1, <1>6, <2>1
         DEF ReadLatestRemediation, IncidentInv, EvidenceRemembered
    <3>4. PatchSawEvidence(r)
      BY <1>1, <1>6, <2>1, <3>2, <3>3
         DEF ReadLatestRemediation, PatchSawEvidence
    <3> QED BY <1>1, <1>6, <3>1, <3>2, <3>4, IncidentsUntouched, PatchChanges
            DEF ReadLatestRemediation, incidentVars
  <2>2. CASE ~goes
    BY <1>4, <1>6, <2>2, IncidentsUntouched
       DEF ReadLatestRemediation, incidentVars
  <2> QED BY <2>1, <2>2
<1>7. CASE ReadLatestIncident(p)
  <2>1. ASSUME NEW i \in Incidents, IsLatest(patch[p].finding, i),
               patch' = [patch EXCEPT ![p] = [@ EXCEPT !.at = "remediation",
                                                       !.incident = i,
                                                       !.read = payload[i]]]
        PROVE  IncidentInv'
    <3> DEFINE r == [patch[p] EXCEPT !.at = "remediation", !.incident = i,
                                     !.read = payload[i]]
    <3>1. /\ r \in PatchStates /\ patch' = [patch EXCEPT ![p] = r]
          /\ r.at = "remediation" /\ r.finding = patch[p].finding
          /\ r.incident = i /\ r.read = payload[i]
      BY <1>1, <2>1 DEF PatchStates, PatchPC
    <3> HIDE DEF r
    <3>2. i \in IncidentsOf(patch[p].finding) /\ i \in Existing
      BY <2>1 DEF IsLatest, IncidentsOf
    <3>3. Coherent(payload[i])
      BY <3>2 DEF IncidentInv, PayloadCoherent
    <3>4. PatchSawEvidence(r)
      BY <1>1, <1>7, <3>1, <3>3 DEF ReadLatestIncident, PatchSawEvidence
    <3> QED BY <1>1, <1>7, <3>1, <3>2, <3>4, IncidentsUntouched, PatchChanges
            DEF ReadLatestIncident, incidentVars
  <2>2. CASE PatchGoto(p, "idle")
    BY <1>4, <1>7, <2>2, IncidentsUntouched DEF ReadLatestIncident, incidentVars
  <2> QED BY <1>7, <2>1, <2>2 DEF ReadLatestIncident
<1>8. CASE WriteProgress(p)
  <2> DEFINE r == patch[p]
             q == AutoProgressed(r.read)
  <2>1. /\ r.read \in Payloads /\ Coherent(r.read)
        /\ r.read.state \in {"remediated", "validated"}
        /\ r.finding \in resolvedOnce \cap completedOnce
        /\ r.incident \in Existing /\ finding_id[r.incident] = r.finding
    BY <1>1, <1>8 DEF WriteProgress, PatchSawEvidence, PatchStates, IncidentsOf
  <2>2. q \in Payloads /\ Coherent(q)
    BY <2>1, AutoProgressedCoherent
  <2> HIDE DEF q
  <2>3. /\ payload' \in [Incidents -> Payloads]
        /\ PayloadCoherent' /\ EvidenceBeforeValidation'
    BY <1>8, <2>1, <2>2, PayloadWritten DEF WriteProgress, q
  <2> QED BY <1>4, <1>8, <2>3 DEF WriteProgress
<1>9. CASE WriteFinding(p)
  <2> DEFINE f == patch[p].finding
             to == patch[p].to
  <2>1. f \in Findings /\ to \in {"open", "resolved"}
    BY <1>1, <1>9 DEF WriteFinding, PatchStates
  <2>2. /\ finding_status' \in [Findings -> {"open", "resolved"}]
        /\ \A g \in Findings :
             finding_status'[g] = IF g = f THEN to ELSE finding_status[g]
    BY <1>1, <1>9, <2>1 DEF WriteFinding
  <2>3. /\ resolvedOnce \subseteq resolvedOnce'
        /\ resolvedOnce' \subseteq Findings
        /\ to = "resolved" => f \in resolvedOnce'
    BY <1>9, <2>1 DEF WriteFinding, IncidentInv, TypeOK
  <2>4. PICK r \in PatchStates :
          /\ patch' = [patch EXCEPT ![p] = r]
          /\ \/ r = IdlePatch
             \/ /\ r.at = "incident" /\ r.finding = f
                /\ to = "resolved"
    <3>1. CASE PatchGoto(p, "incident") /\ to = "resolved"
      <4>1. [patch[p] EXCEPT !.at = "incident"] \in PatchStates
        BY <1>3 DEF PatchPC
      <4>2. /\ [patch[p] EXCEPT !.at = "incident"].at = "incident"
            /\ [patch[p] EXCEPT !.at = "incident"].finding = f
        BY <1>1 DEF PatchStates
      <4> QED BY <3>1, <4>1, <4>2 DEF PatchGoto
    <3>2. CASE PatchGoto(p, "idle")
      BY <1>2, <3>2 DEF PatchGoto
    <3> QED BY <1>9, <3>1, <3>2 DEF WriteFinding
  <2>5. /\ patch' \in [Patches -> PatchStates]
        /\ \A d \in Patches : patch'[d] = IF d = p THEN r ELSE patch[d]
    BY <1>1, <2>4
  <2>6. Existing' = Existing /\ \A g : IncidentsOf(g)' = IncidentsOf(g)
    BY <1>9 DEF WriteFinding, Existing, IncidentsOf, incidentVars
  <2>7. TypeOK'
    BY <1>2, <1>9, <2>1, <2>2, <2>3, <2>4, <2>5, <2>6
       DEF WriteFinding, IncidentInv, TypeOK, incidentVars
  <2>8. EvidenceRemembered'
    BY <1>9, <2>2, <2>3 DEF WriteFinding, IncidentInv, EvidenceRemembered
  <2>9. PayloadCoherent' /\ EvidenceBeforeValidation'
    BY <1>9, <2>3, <2>6
       DEF WriteFinding, IncidentInv, PayloadCoherent, EvidenceBeforeValidation,
           incidentVars
  <2>10. ASSUME NEW c \in Calls PROVE CallSawEvidence(call[c])'
    BY <1>9, <2>3
       DEF WriteFinding, IncidentInv, CallSawEvidence, incidentVars
  <2>11. ASSUME NEW d \in Patches PROVE PatchSawEvidence(patch[d])'
    <3>1. CASE d = p
      BY <1>2, <2>3, <2>4, <2>5, <3>1 DEF PatchSawEvidence
    <3>2. CASE d # p
      BY <1>9, <2>3, <2>5, <3>2
         DEF WriteFinding, IncidentInv, PatchSawEvidence
    <3> QED BY <3>1, <3>2
  <2> QED BY <2>7, <2>8, <2>9, <2>10, <2>11 DEF IncidentInv
<1>10. ASSUME NEW f \in Findings, NEW to \in {"open", "resolved"},
              ReadFinding(p, f, to)
       PROVE  IncidentInv'
  <2> DEFINE r == [IdlePatch EXCEPT !.at = "write", !.finding = f, !.to = to,
                                    !.was = finding_status[f]]
  <2>1. finding_status[f] \in {"open", "resolved"}
    BY <1>1
  <2>2. r \in PatchStates /\ r.at = "write" /\ r.finding = f
    BY <1>2, <2>1 DEF PatchStates, PatchPC
  <2>3. PatchSawEvidence(r)
    BY <2>2 DEF PatchSawEvidence
  <2>4. patch' = [patch EXCEPT ![p] = r]
    BY <1>10 DEF ReadFinding
  <2> HIDE DEF r
  <2> QED BY <1>10, <2>2, <2>3, <2>4, IncidentsUntouched, PatchChanges
          DEF ReadFinding, incidentVars
<1> QED BY <1>5, <1>6, <1>7, <1>8, <1>9, <1>10 DEF PatchStep

-----------------------------------------------------------------------------
\* An incident that is created is open: it needs no evidence, and no call
\* works on it yet.
LEMMA CreationKeeps ==
  ASSUME IncidentInv, NEW i \in Incidents, Fresh(i),
         NEW f \in Findings \cup {NoFinding},
         NEW q \in Payloads, Coherent(q), q.state = "open",
         payload' = [payload EXCEPT ![i] = q],
         finding_id' = [finding_id EXCEPT ![i] = f],
         created' \in [Findings -> 0..MaxAttempts],
         UNCHANGED <<findingVars, call, patch>>
  PROVE  IncidentInv'
<1>1. /\ payload' \in [Incidents -> Payloads]
      /\ finding_id' \in [Incidents -> Findings \cup {NoFinding, Unborn}]
      /\ \A j \in Incidents :
           /\ payload'[j] = IF j = i THEN q ELSE payload[j]
           /\ finding_id'[j] = IF j = i THEN f ELSE finding_id[j]
  BY DEF IncidentInv, TypeOK
<1>2. i \notin Existing /\ Existing' = Existing \cup {i}
  BY <1>1, IncidentAssumption DEF Existing, Fresh
<1>3. \A g : IncidentsOf(g) \subseteq IncidentsOf(g)'
  BY <1>1, <1>2 DEF IncidentsOf, Existing
<1>4. TypeOK'
  BY <1>1, <1>2, <1>3 DEF IncidentInv, TypeOK, findingVars
<1>5. EvidenceRemembered'
  BY DEF IncidentInv, EvidenceRemembered, findingVars
<1>6. PayloadCoherent'
  <2> SUFFICES ASSUME NEW j \in Existing' PROVE Coherent(payload'[j])
    BY DEF PayloadCoherent
  <2>1. j \in Incidents
    BY DEF Existing
  <2> QED BY <1>1, <1>2, <2>1 DEF IncidentInv, PayloadCoherent
<1>7. EvidenceBeforeValidation'
  <2> SUFFICES ASSUME NEW j \in Existing',
                      "validated" \in Passed[payload'[j].state]
               PROVE  finding_id'[j] \in resolvedOnce' \cap completedOnce'
    BY DEF EvidenceBeforeValidation
  <2>1. j \in Incidents
    BY DEF Existing
  <2>2. "validated" \notin Passed["open"]
    BY DEF Passed
  <2> QED BY <1>1, <1>2, <2>1, <2>2
          DEF IncidentInv, EvidenceBeforeValidation, findingVars
<1>8. ASSUME NEW c \in Calls PROVE CallSawEvidence(call[c])'
  <2>1. CASE call[c].at = "idle"
    BY <2>1 DEF CallSawEvidence
  <2>2. CASE call[c].at # "idle"
    <3>1. call[c].incident \in Existing
      BY <2>2 DEF IncidentInv, TypeOK
    <3>2. call[c].incident \in Incidents /\ call[c].incident # i
      BY <1>2, <3>1 DEF Existing
    <3>3. finding_id'[call[c].incident] = finding_id[call[c].incident]
      BY <1>1, <3>2
    <3> QED BY <3>3 DEF IncidentInv, CallSawEvidence, findingVars
  <2> QED BY <2>1, <2>2
<1>9. ASSUME NEW p \in Patches PROVE PatchSawEvidence(patch[p])'
  BY DEF IncidentInv, PatchSawEvidence, findingVars
<1> QED BY <1>4, <1>5, <1>6, <1>7, <1>8, <1>9 DEF IncidentInv

\* Creations keep the invariant, and so does every change of a remediation:
\* evidence that was seen is never forgotten.
LEMMA EnvironmentKeeps ==
  ASSUME IncidentInv, Environment
  PROVE  IncidentInv'
<1>1. ASSUME NEW i \in Incidents, NEW f \in Findings \cup {NoFinding},
             CreateManually(i, f)
      PROVE  IncidentInv'
  <2>1. NoPayload.state = "open"
    BY DEF NoPayload
  <2>2. created' \in [Findings -> 0..MaxAttempts]
    BY <1>1 DEF CreateManually, IncidentInv, TypeOK
  <2> QED BY <1>1, <2>1, <2>2, CreationKeeps, NewPayloads
          DEF CreateManually, ManualPayload
<1>2. ASSUME NEW i \in Incidents, NEW f \in Findings, NEW waiting \in BOOLEAN,
             CreateForFinding(i, f, waiting)
      PROVE  IncidentInv'
  <2>1. ScanPayload(waiting).state = "open"
    BY DEF ScanPayload
  <2>2. created' \in [Findings -> 0..MaxAttempts]
    BY <1>2, IncidentAssumption DEF CreateForFinding, IncidentInv, TypeOK
  <2>3. ScanPayload(waiting) \in Payloads /\ Coherent(ScanPayload(waiting))
    BY NewPayloads
  <2> HIDE DEF Environment
  <2> QED BY <1>2, <2>1, <2>2, <2>3, CreationKeeps DEF CreateForFinding
<1>3. ASSUME NEW f \in Findings, NEW status \in {"pending", "completed"},
             RemediationChanges(f, status)
      PROVE  IncidentInv'
  <2>1. /\ remediation' \in [Findings -> {"none", "pending", "completed"}]
        /\ \A g \in Findings :
             remediation'[g] = IF g = f THEN status ELSE remediation[g]
    BY <1>3 DEF RemediationChanges, IncidentInv, TypeOK
  <2>2. /\ completedOnce \subseteq completedOnce'
        /\ completedOnce' \subseteq Findings
        /\ status = "completed" => f \in completedOnce'
    BY <1>3 DEF RemediationChanges, IncidentInv, TypeOK
  <2>3. Existing' = Existing /\ \A g : IncidentsOf(g)' = IncidentsOf(g)
    BY <1>3 DEF RemediationChanges, Existing, IncidentsOf, incidentVars
  <2>4. TypeOK'
    BY <1>3, <2>1, <2>2, <2>3
       DEF RemediationChanges, IncidentInv, TypeOK, incidentVars
  <2>5. EvidenceRemembered'
    BY <1>3, <2>1, <2>2 DEF RemediationChanges, IncidentInv, EvidenceRemembered
  <2>6. PayloadCoherent' /\ EvidenceBeforeValidation'
    BY <1>3, <2>2, <2>3
       DEF RemediationChanges, IncidentInv, PayloadCoherent,
           EvidenceBeforeValidation, incidentVars
  <2>7. ASSUME NEW c \in Calls PROVE CallSawEvidence(call[c])'
    BY <1>3, <2>2
       DEF RemediationChanges, IncidentInv, CallSawEvidence, incidentVars
  <2>8. ASSUME NEW p \in Patches PROVE PatchSawEvidence(patch[p])'
    BY <1>3, <2>2 DEF RemediationChanges, IncidentInv, PatchSawEvidence
  <2> QED BY <2>4, <2>5, <2>6, <2>7, <2>8 DEF IncidentInv
<1> QED BY <1>1, <1>2, <1>3 DEF Environment

\* There are no incidents and no calls at first.
LEMMA InitKeeps == Init => IncidentInv
<1> SUFFICES ASSUME Init PROVE IncidentInv
  OBVIOUS
<1>1. Existing = {}
  BY DEF Init, Existing
<1>2. TypeOK
  <2>1. /\ IdleCall \in CallStates /\ IdlePatch \in PatchStates
        /\ IdleCall.at = "idle" /\ IdlePatch.at = "idle"
    BY NewPayloads
       DEF IdleCall, IdlePatch, CallStates, PatchStates, CallPC, PatchPC,
           IncidentState
  <2>2. 0 \in 0..MaxAttempts
    BY IncidentAssumption
  <2> QED BY <2>1, <2>2, NewPayloads DEF Init, TypeOK
<1>3. EvidenceRemembered
  BY DEF Init, EvidenceRemembered
<1>4. \A c \in Calls : CallSawEvidence(call[c])
  BY DEF Init, CallSawEvidence, IdleCall
<1>5. \A p \in Patches : PatchSawEvidence(patch[p])
  BY DEF Init, PatchSawEvidence, IdlePatch
<1> QED BY <1>1, <1>2, <1>3, <1>4, <1>5
        DEF IncidentInv, PayloadCoherent, EvidenceBeforeValidation

\* The invariant is inductive.
LEMMA StepKeeps == IncidentInv /\ [Next]_vars => IncidentInv'
<1> SUFFICES ASSUME IncidentInv, [Next]_vars PROVE IncidentInv'
  OBVIOUS
<1>1. CASE UNCHANGED vars
  BY <1>1 DEF IncidentInv, TypeOK, EvidenceRemembered, PayloadCoherent,
              EvidenceBeforeValidation, CallSawEvidence, PatchSawEvidence,
              Existing, IncidentsOf, vars, incidentVars, findingVars
<1> QED BY <1>1, CallStepKeeps, PatchStepKeeps, EnvironmentKeeps DEF Next

\* The inductive invariant holds in every reachable state.
LEMMA InvariantHolds == Spec => []IncidentInv
BY InitKeeps, StepKeeps, PTL DEF Spec

\* Rows, findings and calls hold values of their types, whoever writes.
THEOREM IncidentsTyped == Spec => []TypeOK
<1>1. IncidentInv => TypeOK
  BY DEF IncidentInv
<1> QED BY <1>1, InvariantHolds, PTL

\* Writers that overwrite each other's payloads never mix them: state,
\* history, attestation and lifecycle of a stored payload belong together.
THEOREM PayloadsBelongTogether == Spec => []PayloadCoherent
<1>1. IncidentInv => PayloadCoherent
  BY DEF IncidentInv
<1> QED BY <1>1, InvariantHolds, PTL

\* No incident is validated, by hand or automatically, whose finding has never
\* been resolved or never had a completed remediation.
THEOREM ValidationHadEvidence == Spec => []EvidenceBeforeValidation
<1>1. IncidentInv => EvidenceBeforeValidation
  BY DEF IncidentInv
<1> QED BY <1>1, InvariantHolds, PTL
-----------------------------------------------------------------------------
\* A transition adds the state it goes to to those that were passed, and the
\* states an incident has passed tell its state.
LEMMA PassedGrows ==
  /\ \A s \in IncidentState : \A to \in AllowedTransitions[s] :
       Passed[to] = Passed[s] \cup {to}
  /\ \A s, t \in IncidentState :
       /\ s \in Passed[s]
       /\ s \in Passed[t] \/ t \in Passed[s]
       /\ s \in Passed[t] => Passed[s] \subseteq Passed[t]
       /\ s \in Passed[t] /\ t \in Passed[s] => s = t
<1>1. ASSUME NEW s \in IncidentState, NEW to \in AllowedTransitions[s]
      PROVE  Passed[to] = Passed[s] \cup {to}
  BY DEF AllowedTransitions, Passed, IncidentState
<1>2. ASSUME NEW s \in IncidentState, NEW t \in IncidentState
      PROVE  /\ s \in Passed[s]
             /\ s \in Passed[t] \/ t \in Passed[s]
             /\ s \in Passed[t] => Passed[s] \subseteq Passed[t]
             /\ s \in Passed[t] /\ t \in Passed[s] => s = t
  BY DEF Passed, IncidentState
<1> QED BY <1>1, <1>2

\* A step that takes an incident back is the write of a transition call that
\* read it before it passed both states the call knows of.  The write of an
\* automatic progress always ends in the last state.
LEMMA StepGoesBackOnlyIfStale ==
  ASSUME IncidentInv, [Next]_vars, NEW i \in Existing,
         ~ (Passed[payload[i].state] \subseteq Passed[payload'[i].state])
  PROVE  \E c \in Calls :
           /\ call[c].at = "write" /\ call'[c].at = "idle"
           /\ call[c].incident = i
           /\ {call[c].read.state, call[c].to}
                \subseteq Passed[payload[i].state] \ {payload[i].state}
<1> DEFINE s == payload[i].state
<1>1. /\ i \in Incidents /\ payload \in [Incidents -> Payloads]
      /\ call \in [Calls -> CallStates] /\ patch \in [Patches -> PatchStates]
      /\ s \in IncidentState
  BY DEF IncidentInv, TypeOK, Existing, Payloads
<1>2. payload'[i] # payload[i]
  OBVIOUS
<1>3. CASE UNCHANGED vars
  BY <1>2, <1>3 DEF vars, incidentVars
<1>4. ASSUME NEW c \in Calls, CallStep(c)
      PROVE  /\ call[c].at = "write" /\ call'[c].at = "idle"
             /\ call[c].incident = i
             /\ {call[c].read.state, call[c].to} \subseteq Passed[s] \ {s}
  <2>1. WriteTransition(c)
    BY <1>2, <1>4
       DEF CallStep, CheckFinding, CheckRemediation, CallDies, ReadIncident,
           incidentVars
  <2> DEFINE r == call[c]
  <2>2. /\ r \in CallStates /\ r.at = "write"
        /\ call' = [call EXCEPT ![c] = IdleCall]
        /\ payload' = [payload EXCEPT ![r.incident] = Moved(r.read, r.to)]
    BY <1>1, <2>1 DEF WriteTransition, CallGoto
  <2>3. /\ r.read.state \in IncidentState
        /\ r.to \in AllowedTransitions[r.read.state] /\ r.to \in IncidentState
    BY <2>2 DEF IncidentInv, CallSawEvidence, CallStates, Payloads
  <2>4. r.incident = i
    BY <1>1, <1>2, <2>2
  <2>5. call'[c].at = "idle"
    BY <1>1, <2>2 DEF IdleCall
  <2>6. payload'[i].state = r.to
    <3>1. payload'[i] = Moved(r.read, r.to)
      BY <1>1, <2>2, <2>4
    <3> QED BY <2>2, <3>1 DEF Moved, CallStates, Payloads
  <2>7. ~ (Passed[s] \subseteq Passed[r.to])
    BY <2>6
  <2>8. r.to \in Passed[s] /\ r.to # s
    BY <1>1, <2>3, <2>7, PassedGrows
  <2>9. r.read.state \in Passed[s] /\ r.read.state # s
    <3>1. Passed[r.to] = Passed[r.read.state] \cup {r.to}
      BY <2>3, PassedGrows
    <3>2. r.read.state \in Passed[r.to]
      BY <2>3, <3>1, PassedGrows
    <3> QED BY <1>1, <2>3, <2>7, <2>8, <3>1, <3>2, PassedGrows
  <2> QED BY <2>2, <2>4, <2>5, <2>8, <2>9
<1>5. ASSUME NEW p \in Patches, PatchStep(p) PROVE FALSE
  <2>1. WriteProgress(p)
    BY <1>2, <1>5
       DEF PatchStep, WriteFinding, ReadLatestIncident, ReadLatestRemediation,
           PatchDies, ReadFinding, incidentVars
  <2>2. patch[p].read \in Payloads
    BY <1>1 DEF PatchStates
  <2>3. payload'[i] = AutoProgressed(patch[p].read)
    BY <1>1, <1>2, <2>1 DEF WriteProgress
  <2>4. payload'[i].state = "rejoined"
    <3> DEFINE q == IF patch[p].read.state = "remediated"
                    THEN Moved(patch[p].read, "validated") ELSE patch[p].read
    <3>1. AutoProgressed(patch[p].read)
            = [Moved(q, "rejoined") EXCEPT !.attested = TRUE]
      BY DEF AutoProgressed
    <3>2. DOMAIN q = DOMAIN patch[p].read
      BY DEF Moved
    <3>3. "state" \in DOMAIN patch[p].read
      BY <2>2 DEF Payloads
    <3> HIDE DEF q
    <3> QED BY <2>3, <3>1, <3>2, <3>3 DEF Moved
  <2>5. Passed[s] \subseteq Passed["rejoined"]
    BY <1>1 DEF Passed, IncidentState
  <2> QED BY <2>4, <2>5
<1>6. ASSUME Environment PROVE FALSE
  <2>1. ASSUME NEW j \in Incidents, Fresh(j) PROVE j # i
    BY <2>1 DEF Fresh
  <2>2. PICK j \in Incidents :
          \E q : Fresh(j) /\ payload' = [payload EXCEPT ![j] = q]
    BY <1>2, <1>6
       DEF Environment, CreateManually, CreateForFinding, RemediationChanges,
           incidentVars
  <2> QED BY <1>1, <1>2, <2>1, <2>2
<1> QED BY <1>3, <1>4, <1>5, <1>6 DEF Next

\* An incident goes back only by the write of a transition call whose reading
\* is at least two transitions old; the automatic progress never does it.
THEOREM GoesBackOnlyIfStale == Spec => OnlyStaleWritesGoBack
<1>1. IncidentInv /\ [Next]_vars
        => [\A i \in Existing :
              ~ (Passed[payload[i].state] \subseteq Passed[payload'[i].state])
                => \E c \in Calls :
                     /\ call[c].at = "write" /\ call'[c].at = "idle"
                     /\ call[c].incident = i
                     /\ {call[c].read.state, call[c].to}
                          \subseteq Passed[payload[i].state]
                                      \ {payload[i].state}]_vars
  BY StepGoesBackOnlyIfStale
<1> QED BY <1>1, InvariantHolds, PTL DEF Spec, OnlyStaleWritesGoBack

\* The state a transition call read is still the incident's when it writes:
\* what an update with the condition on the state would ensure.
ReadStillHolds(c) ==
  call[c].at = "write" /\ call'[c].at = "idle"
    => payload[call[c].incident].state = call[c].read.state

\* Stale readings are all there is to fear: if no call writes over a state it
\* did not read, no incident ever goes back, whatever else was overwritten.
THEOREM CurrentReadingsOnlyAdvance ==
  Spec /\ [][\A c \in Calls : ReadStillHolds(c)]_vars => NeverGoesBack
<1>1. ASSUME IncidentInv, [Next]_vars, [\A c \in Calls : ReadStillHolds(c)]_vars
      PROVE  [\A i \in Existing :
                Passed[payload[i].state] \subseteq Passed[payload'[i].state]]_vars
  <2> SUFFICES ASSUME ~ UNCHANGED vars, NEW i \in Existing,
                      ~ (Passed[payload[i].state]
                           \subseteq Passed[payload'[i].state])
               PROVE  FALSE
    OBVIOUS
  <2>1. PICK c \in Calls :
          /\ call[c].at = "write" /\ call'[c].at = "idle"
          /\ call[c].incident = i
          /\ {call[c].read.state, call[c].to}
               \subseteq Passed[payload[i].state] \ {payload[i].state}
    BY <1>1, StepGoesBackOnlyIfStale
  <2>2. payload[i].state = call[c].read.state
    BY <1>1, <2>1 DEF ReadStillHolds
  <2> QED BY <2>1, <2>2
<1> QED BY <1>1, InvariantHolds, PTL DEF Spec, NeverGoesBack
=============================================================================
