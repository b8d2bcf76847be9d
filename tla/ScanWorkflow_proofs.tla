------------------------- MODULE ScanWorkflow_proofs -------------------------
(***************************************************************************)
(* Theorems about the runs of the scan and alert functions, for any number *)
(* of targets, function runs, rows, attempts and failures.                 *)
(***************************************************************************)
EXTENDS ScanWorkflow, TLAPS

\* A function run has its row from the step after create-run-record on.
RunIsMemoized ==
  \A w \in Workflows :
    /\ function[w].at \in (Steps \ {"create"}) \cup {"done"}
         => function[w].run # NoRun
    /\ function[w].at \in {"idle", "create"} => function[w].run = NoRun

\* The memoized row was inserted by that function run.
RunIsOwn ==
  \A w \in Workflows :
    function[w].run # NoRun => workflow[function[w].run] = w

\* A row that has left queued is the memoized row of its function run.
LiveIsMemoized ==
  \A s \in ScanRuns :
    run_status[s] \notin {"absent", "queued"}
      => /\ workflow[s] \in Workflows
         /\ function[workflow[s]].run = s

\* The memoized findings carry the memoized run, so that no two function
\* runs share one.
InsertedAreOwn ==
  \A w \in Workflows :
    function[w].inserted # {} =>
      /\ function[w].run # NoRun
      /\ \A f \in function[w].inserted : finding_run[f] = function[w].run

\* What the steps of a scan have established about an inserted finding when the
\* scan is at a step: nothing is routed before it is decided, and nothing is
\* asked for before it is routed.
TriagedAt(at, f) ==
  /\ at = "evaluate" => f \notin routed
  /\ at \in {"evaluate", "route"} => f \notin asked
  /\ at \in {"route", "ask", "complete", "done"}
       => approval[f] # "undecided" /\ (f \in routed => f \in wanted)
  /\ at \in {"ask", "complete", "done"}
       => /\ f \in wanted => f \in routed
          /\ f \in asked => f \in wanted /\ approval[f] = "pending"
  /\ at \in {"complete", "done"}
       => (f \in wanted /\ approval[f] = "pending" => f \in asked)

DecidedSoFar ==
  \A w \in Workflows :
    function[w].kind = "scan" =>
      \A f \in function[w].inserted : TriagedAt(function[w].at, f)

\* A finding that was not inserted yet has no action and no request.
RoutedHaveRun ==
  \A f \in Findings : finding_run[f] = NoRun => f \notin routed \cup asked

\* The inductive invariant.
ScanInv ==
  /\ TypeOK
  /\ RunIsMemoized
  /\ RunIsOwn
  /\ LiveIsMemoized
  /\ InsertedAreOwn
  /\ DecidedSoFar
  /\ RoutedHaveRun

\* The three steps that triage what the scan has inserted.
Triages(w) ==
  \/ \E through \in SUBSET function[w].inserted :
       \E gated \in SUBSET through : \E remediable \in SUBSET through :
         EvaluateFindings(w, through, gated, remediable)
  \/ \E through \in SUBSET function[w].inserted :
       RouteCandidates(w, through) \/ CreateRequests(w, through)

\* A step leaves what is known of a finding alone.
Untouched(f) ==
  /\ approval'[f] = approval[f]
  /\ f \in wanted' <=> f \in wanted
  /\ f \in routed' <=> f \in routed
  /\ f \in asked' <=> f \in asked

LEMMA FollowingSteps ==
  /\ DOMAIN Following["scan"] = Steps
  /\ DOMAIN Following["alert"] =
       {"create", "running", "insert", "complete", "fail"}
  /\ Following["scan"]["create"] = "target"
  /\ Following["scan"]["target"] = "running"
  /\ Following["scan"]["running"] = "insert"
  /\ Following["scan"]["insert"] = "evaluate"
  /\ Following["scan"]["evaluate"] = "route"
  /\ Following["scan"]["route"] = "ask"
  /\ Following["scan"]["ask"] = "complete"
  /\ Following["scan"]["complete"] = "done"
  /\ Following["scan"]["fail"] = "dead"
  /\ Following["alert"]["create"] = "running"
  /\ Following["alert"]["running"] = "insert"
  /\ Following["alert"]["insert"] = "complete"
  /\ Following["alert"]["complete"] = "done"
  /\ Following["alert"]["fail"] = "dead"
BY DEF Following, Steps

-----------------------------------------------------------------------------
\* Where a function run goes.
Goes(w, n) ==
  /\ n \in FunctionStates
  /\ n.at \in Steps => n.at \in DOMAIN Following[n.kind]
  /\ function' = [function EXCEPT ![w] = n]

\* It keeps what it has memoized.
Keeps(w, n) ==
  /\ n.kind = function[w].kind /\ n.target = function[w].target
  /\ n.run = function[w].run /\ n.inserted = function[w].inserted

LEMMA FunctionIsTyped ==
  ASSUME TypeOK, NEW w \in Workflows
  PROVE  /\ function[w] \in FunctionStates
         /\ function[w].at \in Steps
              => function[w].at \in DOMAIN Following[function[w].kind]
BY DEF TypeOK

\* An acknowledged step is followed by the next one.
LEMMA AcknowledgedGoes ==
  ASSUME TypeOK, NEW w \in Workflows, NEW r \in FunctionStates,
         r.at \in Steps, r.at \in DOMAIN Following[r.kind],
         Acknowledged(w, r)
  PROVE  /\ failures' = failures
         /\ \E n : /\ Goes(w, n)
                   /\ n.at = Following[r.kind][r.at]
                   /\ n.kind = r.kind /\ n.target = r.target
                   /\ n.run = r.run /\ n.inserted = r.inserted
<1> DEFINE n == [r EXCEPT !.at = Following[r.kind][r.at], !.attempt = 1]
<1>1. /\ Following[r.kind][r.at] \in Steps \cup {"done", "dead"}
      /\ Following[r.kind][r.at] \in Steps
           => Following[r.kind][r.at] \in DOMAIN Following[r.kind]
  <2>1. r.kind \in {"scan", "alert"}
    BY DEF FunctionStates
  <2>2. CASE r.kind = "scan"
    BY <2>2, FollowingSteps DEF Steps
  <2>3. CASE r.kind = "alert"
    BY <2>3, FollowingSteps DEF Steps
  <2> QED
    BY <2>1, <2>2, <2>3
<1>2. 1 \in 1..MaxAttempts
  BY ScanAssumption
<1>3. n \in FunctionStates
  BY <1>1, <1>2 DEF FunctionStates
<1>4. /\ n.at = Following[r.kind][r.at]
      /\ n.kind = r.kind /\ n.target = r.target
      /\ n.run = r.run /\ n.inserted = r.inserted
  BY DEF FunctionStates
<1>5. Goes(w, n)
  <2> HIDE DEF n
  <2> QED
    BY <1>1, <1>3, <1>4 DEF Goes, Acknowledged, Goto, n
<1> QED
  BY <1>4, <1>5 DEF Acknowledged

\* A step that fails is tried again, or the function run gives up.
LEMMA RetriedGoes ==
  ASSUME TypeOK, NEW w \in Workflows, function[w].at \in Steps, Retried(w)
  PROVE  \E n : /\ Goes(w, n) /\ Keeps(w, n)
                /\ \/ n.at = function[w].at
                   \/ n.at = "dead"
                   \/ n.at = "fail" /\ n.run # NoRun
<1> DEFINE r == function[w]
           again == [r EXCEPT !.attempt = @ + 1]
           over == [r EXCEPT !.at = AfterLastAttempt(r), !.attempt = 1]
<1>1. r \in FunctionStates /\ r.at \in DOMAIN Following[r.kind]
  BY FunctionIsTyped
<1>2. CASE r.attempt < MaxAttempts
  <2>1. r.attempt \in 1..MaxAttempts /\ r.attempt + 1 \in 1..MaxAttempts
    BY <1>1, <1>2, ScanAssumption DEF FunctionStates
  <2>2. again \in FunctionStates
    BY <1>1, <2>1 DEF FunctionStates
  <2>3. Keeps(w, again) /\ again.at = r.at
    BY <1>1 DEF Keeps, FunctionStates
  <2>4. again.kind = r.kind
    BY <1>1 DEF FunctionStates
  <2>5. function' = [function EXCEPT ![w] = again]
    BY <1>2 DEF Retried, Goto
  <2> QED
    BY <1>1, <2>2, <2>3, <2>4, <2>5 DEF Goes
<1>3. CASE ~(r.attempt < MaxAttempts)
  <2>1. /\ AfterLastAttempt(r) \in {"dead", "fail"}
        /\ AfterLastAttempt(r) = "fail" => r.run # NoRun
    BY DEF AfterLastAttempt
  <2>2. 1 \in 1..MaxAttempts
    BY ScanAssumption
  <2>3. over \in FunctionStates
    BY <1>1, <2>1, <2>2 DEF FunctionStates, Steps
  <2>4. Keeps(w, over) /\ over.at = AfterLastAttempt(r) /\ over.run = r.run
    BY <1>1 DEF Keeps, FunctionStates
  <2>5. "fail" \in DOMAIN Following[over.kind] /\ "dead" \notin Steps
    <3>1. over.kind \in {"scan", "alert"}
      BY <2>3 DEF FunctionStates
    <3> QED
      BY <3>1, FollowingSteps DEF Steps
  <2>6. function' = [function EXCEPT ![w] = over]
    BY <1>3 DEF Retried, Goto
  <2>7. Goes(w, over)
    BY <2>1, <2>3, <2>4, <2>5, <2>6 DEF Goes
  <2> QED
    BY <2>1, <2>4, <2>7
<1> QED
  BY <1>2, <1>3

LEMMA FaultyGoes ==
  ASSUME TypeOK, NEW w \in Workflows, function[w].at \in Steps, Faulty(w)
  PROVE  /\ failures' \in 0..MaxFailures
         /\ \E n : /\ Goes(w, n) /\ Keeps(w, n)
                   /\ \/ n.at = function[w].at
                      \/ n.at = "dead"
                      \/ n.at = "fail" /\ n.run # NoRun
<1>1. failures' \in 0..MaxFailures
  BY ScanAssumption DEF TypeOK, Faulty
<1> QED
  BY <1>1, RetriedGoes DEF Faulty

-----------------------------------------------------------------------------
\* The row a function run holds while it works.
LEMMA Holds ==
  ASSUME ScanInv, NEW w \in Workflows, function[w].at \in Steps \ {"create"}
  PROVE  /\ function[w].run \in ScanRuns
         /\ workflow[function[w].run] = w
         /\ run_status[function[w].run] # "absent"
BY ScanAssumption DEF ScanInv, TypeOK, FunctionStates, RunIsMemoized, RunIsOwn

\* An acknowledged step does not count as a failure.
LEMMA NotBoth ==
  ASSUME TypeOK, NEW w \in Workflows
  PROVE  ~(Acknowledged(w, function[w]) /\ Faulty(w))
<1>1. failures \in Int
  BY ScanAssumption DEF TypeOK
<1>2. Faulty(w) => failures' = failures + 1
  BY DEF Faulty
<1>3. Acknowledged(w, function[w]) => failures' = failures
  BY DEF Acknowledged
<1> QED
  BY <1>1, <1>2, <1>3

\* A step that memoizes nothing new: it is acknowledged or fails.
Ended(w) ==
  \/ Acknowledged(w, function[w])
  \/ Faulty(w)
  \/ Retried(w) /\ UNCHANGED failures

LEMMA EndedGoes ==
  ASSUME ScanInv, NEW w \in Workflows, function[w].at \in Steps \ {"create"},
         Ended(w)
  PROVE  /\ failures' \in 0..MaxFailures
         /\ \E n : /\ Goes(w, n) /\ Keeps(w, n)
                   /\ n.at \notin {"idle", "create"}
                   /\ \/ n.at \in {function[w].at, "dead", "fail"}
                      \/ /\ Acknowledged(w, function[w])
                         /\ n.at = Following[n.kind][function[w].at]
<1>1. TypeOK /\ function[w].run # NoRun
  BY DEF ScanInv, RunIsMemoized
<1>2. /\ function[w] \in FunctionStates
      /\ function[w].at \in DOMAIN Following[function[w].kind]
  BY <1>1, FunctionIsTyped
<1>3. CASE Acknowledged(w, function[w])
  <2>1. PICK n : /\ Goes(w, n) /\ Keeps(w, n)
                 /\ n.at = Following[n.kind][function[w].at]
    BY <1>1, <1>2, <1>3, AcknowledgedGoes DEF Keeps
  <2>2. n.at \notin {"idle", "create"}
    <3>1. CASE function[w].kind = "scan"
      BY <1>2, <2>1, <3>1, FollowingSteps DEF Keeps, Steps
    <3>2. CASE function[w].kind = "alert"
      BY <1>2, <2>1, <3>2, FollowingSteps DEF Keeps, Steps
    <3> QED
      BY <1>2, <3>1, <3>2 DEF FunctionStates
  <2>3. failures' \in 0..MaxFailures
    BY <1>1, <1>3 DEF Acknowledged, TypeOK
  <2> QED
    BY <1>3, <2>1, <2>2, <2>3
<1>4. CASE Faulty(w)
  BY <1>1, <1>4, FaultyGoes DEF Steps
<1>5. CASE Retried(w) /\ UNCHANGED failures
  BY <1>1, <1>5, RetriedGoes DEF Steps, TypeOK
<1> QED
  BY <1>3, <1>4, <1>5 DEF Ended

\* Where a function run goes keeps the functions typed.
LEMMA GoesTyped ==
  ASSUME TypeOK, NEW w \in Workflows, NEW n, Goes(w, n)
  PROVE  /\ function' \in [Workflows -> FunctionStates]
         /\ \A v \in Workflows :
              function'[v].at \in Steps
                => function'[v].at \in DOMAIN Following[function'[v].kind]
         /\ \A v \in Workflows :
              function'[v] = IF v = w THEN n ELSE function[v]
BY DEF TypeOK, Goes

\* The memoized rows and findings are nobody else's.
LEMMA OthersFindings ==
  ASSUME ScanInv, NEW w \in Workflows, NEW v \in Workflows, v # w,
         NEW f \in function[v].inserted
  PROVE  f \notin function[w].inserted /\ finding_run[f] # NoRun
<1>1. function[v].run # NoRun /\ finding_run[f] = function[v].run
  BY DEF ScanInv, InsertedAreOwn
<1>2. workflow[function[v].run] = v
  BY <1>1 DEF ScanInv, RunIsOwn
<1> QED
  BY <1>1, <1>2 DEF ScanInv, InsertedAreOwn, RunIsOwn

\* A step that memoizes nothing, inserts nothing and marks at most its own
\* row keeps the invariants about rows.
LEMMA RowsKept ==
  ASSUME ScanInv, NEW w \in Workflows, function[w].at \in Steps \ {"create"},
         NEW n, Goes(w, n), Keeps(w, n), n.at \notin {"idle", "create"},
         UNCHANGED <<workflow, finding_run>>,
         \A s \in ScanRuns :
           \/ run_status'[s] = run_status[s]
           \/ s = function[w].run /\ run_status[s] # "absent"
  PROVE  RunIsMemoized' /\ RunIsOwn' /\ LiveIsMemoized' /\ InsertedAreOwn'
<1>1. TypeOK /\ RunIsMemoized /\ RunIsOwn /\ LiveIsMemoized /\ InsertedAreOwn
  BY DEF ScanInv
<1>2. \A v \in Workflows : function'[v] = IF v = w THEN n ELSE function[v]
  BY <1>1, GoesTyped
<1>3. \A v \in Workflows : /\ function'[v].run = function[v].run
                           /\ function'[v].inserted = function[v].inserted
  BY <1>2 DEF Keeps
<1>4. RunIsMemoized'
  BY <1>1, <1>2, <1>3 DEF RunIsMemoized
<1>5. RunIsOwn'
  BY <1>1, <1>3 DEF RunIsOwn
<1>6. LiveIsMemoized'
  BY <1>1, <1>3, Holds DEF LiveIsMemoized
<1>7. InsertedAreOwn'
  BY <1>1, <1>3 DEF InsertedAreOwn
<1> QED
  BY <1>4, <1>5, <1>6, <1>7

\* The findings of another function run stay decided as they were.
LEMMA OthersDecided ==
  ASSUME ScanInv, NEW w \in Workflows, NEW n, Goes(w, n),
         \A f \in Findings \ function[w].inserted : Untouched(f),
         n.kind = "scan" => \A f \in n.inserted : TriagedAt(n.at, f)'
  PROVE  DecidedSoFar'
<1>1. TypeOK /\ DecidedSoFar
  BY DEF ScanInv
<1>2. \A v \in Workflows : function'[v] = IF v = w THEN n ELSE function[v]
  BY <1>1, GoesTyped
<1>3. ASSUME NEW v \in Workflows, v # w, NEW f \in function[v].inserted
      PROVE  Untouched(f)
  <2>1. f \in Findings
    BY <1>1, <1>3 DEF TypeOK, FunctionStates
  <2> QED
    BY <1>3, <2>1, OthersFindings
<1>4. ASSUME NEW v \in Workflows, v # w, function[v].kind = "scan",
             NEW f \in function[v].inserted
      PROVE  TriagedAt(function[v].at, f)'
  <2>1. function'[v] = function[v] /\ TriagedAt(function[v].at, f)
    BY <1>1, <1>2, <1>4 DEF DecidedSoFar
  <2> QED
    BY <1>3, <1>4, <2>1 DEF TriagedAt, Untouched
<1>5. ASSUME NEW v \in Workflows, function'[v].kind = "scan",
             NEW f \in function'[v].inserted
      PROVE  TriagedAt(function[v].at, f)'
  <2>1. CASE v = w
    <3>1. TriagedAt(n.at, f)' /\ function'[v] = n
      BY <1>2, <1>5, <2>1
    <3> QED
      BY <3>1 DEF TriagedAt
  <2>2. CASE v # w
    BY <1>2, <1>4, <1>5, <2>2
  <2> QED
    BY <2>1, <2>2
<1> QED
  BY <1>5 DEF DecidedSoFar

\* A step that touches no finding and stays within what is established keeps it.
LEMMA NothingTriaged ==
  ASSUME ScanInv, NEW w \in Workflows, NEW n, Goes(w, n), UNCHANGED findingVars,
         n.kind = "scan" => \A f \in n.inserted : TriagedAt(n.at, f)
  PROVE  DecidedSoFar' /\ RoutedHaveRun'
<1>1. \A f \in Findings : Untouched(f)
  BY DEF findingVars, Untouched
<1>2. n.kind = "scan" => \A f \in n.inserted : TriagedAt(n.at, f)'
  BY DEF findingVars, TriagedAt
<1>3. RoutedHaveRun'
  BY DEF ScanInv, RoutedHaveRun, findingVars
<1> QED
  BY <1>1, <1>2, <1>3, OthersDecided

-----------------------------------------------------------------------------
\* The invariant, action by action.
LEMMA CreateStep ==
  ASSUME ScanInv, NEW w \in Workflows, NEW s \in ScanRuns, CreateRun(w, s)
  PROVE  ScanInv'
<1> DEFINE r == [function[w] EXCEPT !.run = s]
<1>1. /\ TypeOK /\ RunIsMemoized /\ RunIsOwn /\ LiveIsMemoized
      /\ InsertedAreOwn /\ DecidedSoFar
  BY DEF ScanInv
<1>2. /\ function[w] \in FunctionStates
      /\ function[w].at = "create" /\ function[w].at \in Steps
      /\ function[w].at \in DOMAIN Following[function[w].kind]
      /\ function[w].run = NoRun /\ function[w].inserted = {}
  BY <1>1, FunctionIsTyped
     DEF CreateRun, Steps, RunIsMemoized, InsertedAreOwn
<1>3. /\ r \in FunctionStates /\ r.at = "create" /\ r.run = s
      /\ r.kind = function[w].kind /\ r.inserted = {}
  BY <1>2 DEF FunctionStates
<1>4. /\ failures' \in 0..MaxFailures
      /\ \E n : /\ Goes(w, n) /\ n.inserted = {}
                /\ \/ n.run = s /\ n.at \in {"target", "running"}
                   \/ n.run = NoRun /\ n.at \in {"create", "dead"}
  <2>1. CASE Acknowledged(w, r)
    <3>1. PICK n : /\ Goes(w, n) /\ n.run = s /\ n.inserted = {}
                   /\ n.at = Following[r.kind]["create"]
      <4>1. r.at \in Steps /\ r.at \in DOMAIN Following[r.kind]
        BY <1>2, <1>3
      <4> HIDE DEF r
      <4> QED
        BY <1>1, <1>3, <2>1, <4>1, AcknowledgedGoes
    <3>2. n.at \in {"target", "running"}
      BY <1>3, <3>1, FollowingSteps DEF FunctionStates
    <3>3. failures' \in 0..MaxFailures
      BY <1>1, <2>1 DEF Acknowledged, TypeOK
    <3> QED
      BY <3>1, <3>2, <3>3
  <2>2. CASE Faulty(w)
    BY <1>1, <1>2, <2>2, FaultyGoes DEF Keeps
  <2> QED
    BY <2>1, <2>2 DEF CreateRun, DoneOrLost
<1>5. PICK n : /\ Goes(w, n) /\ n.inserted = {}
               /\ \/ n.run = s /\ n.at \in {"target", "running"}
                  \/ n.run = NoRun /\ n.at \in {"create", "dead"}
  BY <1>4
<1>6. \A v \in Workflows : function'[v] = IF v = w THEN n ELSE function[v]
  BY <1>1, <1>5, GoesTyped
<1>7. TypeOK'
  <2>1. /\ run_status' \in
             [ScanRuns -> {"absent", "queued", "running", "completed", "failed"}]
        /\ workflow' \in [ScanRuns -> Workflows \cup {NoRun}]
        /\ \A x \in ScanRuns : run_status'[x] = "absent" <=> workflow'[x] = NoRun
    BY <1>1, ScanAssumption DEF TypeOK, CreateRun
  <2> QED
    BY <1>1, <1>4, <1>5, <2>1, GoesTyped DEF TypeOK, CreateRun, findingVars
<1>8. /\ s \in ScanRuns /\ s # NoRun
      /\ run_status[s] = "absent" /\ workflow[s] = NoRun
      /\ run_status' = [run_status EXCEPT ![s] = "queued"]
      /\ workflow' = [workflow EXCEPT ![s] = w]
      /\ finding_run' = finding_run
  BY <1>1, ScanAssumption DEF CreateRun, TypeOK, findingVars
<1>9. RunIsMemoized'
  BY <1>1, <1>5, <1>6, <1>8 DEF RunIsMemoized, Steps
<1>10. RunIsOwn'
  BY <1>1, <1>5, <1>6, <1>8, ScanAssumption
     DEF RunIsOwn, TypeOK, FunctionStates
<1>11. LiveIsMemoized'
  BY <1>1, <1>2, <1>5, <1>6, <1>8, ScanAssumption DEF LiveIsMemoized, TypeOK
<1>12. InsertedAreOwn'
  BY <1>1, <1>5, <1>6, <1>8 DEF InsertedAreOwn
<1>13. DecidedSoFar' /\ RoutedHaveRun'
  BY <1>5, NothingTriaged DEF CreateRun
<1> QED
  BY <1>7, <1>9, <1>10, <1>11, <1>12, <1>13 DEF ScanInv

\* Loading the target, marking the run and every step that just throws.
LEMMA MarkStep ==
  ASSUME ScanInv, NEW w \in Workflows, function[w].at \in Steps,
         \/ LoadTarget(w) \/ MarkRunRunning(w) \/ CompleteRun(w) \/ FailRun(w)
         \/ OtherStepThrows(w) /\ function[w].at # "create"
  PROVE  ScanInv'
<1>1. TypeOK /\ DecidedSoFar
  BY DEF ScanInv
<1>2. function[w].at \in Steps \ {"create"} /\ function[w].run \in ScanRuns
  BY Holds DEF LoadTarget, MarkRunRunning, CompleteRun, FailRun, MarkRun
<1>3. Ended(w)
  BY DEF LoadTarget, MarkRunRunning, CompleteRun, FailRun, MarkRun,
         OtherStepThrows, DoneOrLost, Ended
<1>4. Acknowledged(w, function[w])
        => function[w].at \in {"target", "running", "complete", "fail"}
           \/ OtherStepThrows(w)
  BY DEF LoadTarget, MarkRunRunning, CompleteRun, FailRun, MarkRun
<1>5. /\ UNCHANGED <<requested, active, workflow, findingVars, cron>>
      /\ \/ UNCHANGED run_status
         \/ \E mark \in {"running", "completed", "failed"} : Marks(w, mark)
  BY DEF LoadTarget, MarkRunRunning, CompleteRun, FailRun, MarkRun,
         OtherStepThrows, runVars
<1>6. \A s \in ScanRuns :
        \/ run_status'[s] = run_status[s]
        \/ s = function[w].run /\ run_status[s] # "absent"
  <2>1. run_status[function[w].run] # "absent"
    BY <1>2, Holds
  <2> QED
    BY <1>1, <1>2, <1>5, <2>1 DEF Marks, TypeOK
<1>7. /\ failures' \in 0..MaxFailures
      /\ \E n : /\ Goes(w, n) /\ Keeps(w, n)
                /\ n.at \notin {"idle", "create"}
                /\ \/ n.at \in {function[w].at, "dead", "fail"}
                   \/ /\ Acknowledged(w, function[w])
                      /\ n.at = Following[n.kind][function[w].at]
  BY <1>2, <1>3, EndedGoes
<1>8. PICK n : /\ Goes(w, n) /\ Keeps(w, n)
               /\ n.at \notin {"idle", "create"}
               /\ \/ n.at \in {function[w].at, "dead", "fail"}
                  \/ /\ Acknowledged(w, function[w])
                     /\ n.at = Following[n.kind][function[w].at]
  BY <1>7
<1>9. RunIsMemoized' /\ RunIsOwn' /\ LiveIsMemoized' /\ InsertedAreOwn'
  BY <1>2, <1>5, <1>6, <1>8, RowsKept DEF findingVars
<1>10. TypeOK'
  <2>1. /\ run_status' \in
             [ScanRuns -> {"absent", "queued", "running", "completed", "failed"}]
        /\ \A s \in ScanRuns : run_status'[s] = "absent" <=> workflow[s] = NoRun
    BY <1>1, <1>2, <1>5, Holds DEF TypeOK, Marks
  <2> QED
    BY <1>1, <1>5, <1>7, <1>8, <2>1, GoesTyped DEF TypeOK, findingVars
<1>11. n.kind = "scan" =>
         \/ n.at = function[w].at
         \/ n.at \in {"dead", "fail", "running", "insert"}
         \/ function[w].at = "complete" /\ n.at = "done"
         \/ OtherStepThrows(w) /\ Acknowledged(w, function[w])
  BY <1>4, <1>8, FollowingSteps
<1>12. ~(OtherStepThrows(w) /\ Acknowledged(w, function[w]))
  BY <1>1, NotBoth DEF OtherStepThrows
<1>13. n.kind = "scan" => \A f \in n.inserted : TriagedAt(n.at, f)
  BY <1>1, <1>8, <1>11, <1>12 DEF DecidedSoFar, TriagedAt, Keeps
<1>14. DecidedSoFar' /\ RoutedHaveRun'
  BY <1>5, <1>8, <1>13, NothingTriaged
<1> QED
  BY <1>9, <1>10, <1>14 DEF ScanInv

LEMMA ThrowStep ==
  ASSUME ScanInv, NEW w \in Workflows, OtherStepThrows(w)
  PROVE  ScanInv'
<1>1. CASE function[w].at # "create"
  BY <1>1, MarkStep DEF OtherStepThrows
<1>2. CASE function[w].at = "create"
  <2>1. /\ TypeOK /\ RunIsMemoized /\ RunIsOwn /\ LiveIsMemoized
        /\ InsertedAreOwn /\ DecidedSoFar
    BY DEF ScanInv
  <2>2. function[w].run = NoRun
    BY <1>2, <2>1 DEF RunIsMemoized
  <2>3. /\ failures' \in 0..MaxFailures
        /\ \E n : /\ Goes(w, n) /\ Keeps(w, n)
                  /\ n.at \in {"create", "dead"}
    BY <1>2, <2>1, <2>2, FaultyGoes DEF OtherStepThrows, Keeps
  <2>4. PICK n : /\ Goes(w, n) /\ Keeps(w, n)
                 /\ n.at \in {"create", "dead"}
    BY <2>3
  <2>5. \A v \in Workflows : function'[v] = IF v = w THEN n ELSE function[v]
    BY <2>1, <2>4, GoesTyped
  <2>6. \A v \in Workflows : /\ function'[v].run = function[v].run
                             /\ function'[v].inserted = function[v].inserted
    BY <2>4, <2>5 DEF Keeps
  <2>7. TypeOK'
    BY <2>1, <2>3, <2>4, GoesTyped
       DEF TypeOK, OtherStepThrows, runVars, findingVars
  <2>8. RunIsMemoized'
    BY <2>1, <2>2, <2>4, <2>5, <2>6 DEF RunIsMemoized, Steps
  <2>9. RunIsOwn' /\ LiveIsMemoized' /\ InsertedAreOwn'
    BY <2>1, <2>6
       DEF RunIsOwn, LiveIsMemoized, InsertedAreOwn, OtherStepThrows, runVars,
           findingVars
  <2>10. DecidedSoFar' /\ RoutedHaveRun'
    BY <2>4, NothingTriaged DEF OtherStepThrows, TriagedAt
  <2> QED
    BY <2>7, <2>8, <2>9, <2>10 DEF ScanInv
<1> QED
  BY <1>1, <1>2

\* Inserted findings had no run before: nobody else has memoized them.
LEMMA InsertStep ==
  ASSUME ScanInv, NEW w \in Workflows, NEW rows \in SUBSET Findings,
         InsertFindings(w, rows)
  PROVE  ScanInv'
<1> DEFINE r == [function[w] EXCEPT !.inserted = rows]
<1>1. /\ TypeOK /\ RunIsMemoized /\ RunIsOwn /\ LiveIsMemoized
      /\ InsertedAreOwn /\ DecidedSoFar /\ RoutedHaveRun
  BY DEF ScanInv
<1>2. /\ function[w] \in FunctionStates
      /\ function[w].at = "insert" /\ function[w].at \in Steps \ {"create"}
      /\ function[w].at \in DOMAIN Following[function[w].kind]
      /\ function[w].run \in ScanRuns /\ function[w].run # NoRun
  BY <1>1, FunctionIsTyped, Holds, ScanAssumption DEF InsertFindings, Steps
<1>3. /\ r \in FunctionStates /\ r.at = "insert" /\ r.inserted = rows
      /\ r.kind = function[w].kind /\ r.run = function[w].run
  BY <1>2 DEF FunctionStates
<1>4. /\ failures' \in 0..MaxFailures
      /\ \E n : /\ Goes(w, n) /\ n.kind = function[w].kind
                /\ n.run = function[w].run
                /\ \/ /\ n.inserted = rows
                      /\ n.at = Following[n.kind]["insert"]
                   \/ /\ n.inserted = function[w].inserted
                      /\ n.at \in {"insert", "dead", "fail"}
  <2>1. CASE Acknowledged(w, r)
    <3>1. r.at \in Steps /\ r.at \in DOMAIN Following[r.kind]
      BY <1>2, <1>3
    <3>2. PICK n : /\ Goes(w, n) /\ n.kind = r.kind /\ n.run = r.run
                   /\ n.inserted = r.inserted
                   /\ n.at = Following[r.kind][r.at]
      <4> HIDE DEF r
      <4> QED
        BY <1>1, <1>3, <2>1, <3>1, AcknowledgedGoes
    <3>3. failures' \in 0..MaxFailures
      BY <1>1, <2>1 DEF Acknowledged, TypeOK
    <3> QED
      BY <1>3, <3>2, <3>3
  <2>2. CASE Faulty(w)
    BY <1>1, <1>2, <2>2, FaultyGoes DEF Keeps
  <2> QED
    BY <2>1, <2>2 DEF InsertFindings, DoneOrLost
<1>5. PICK n : /\ Goes(w, n) /\ n.kind = function[w].kind
               /\ n.run = function[w].run
               /\ \/ /\ n.inserted = rows
                     /\ n.at = Following[n.kind]["insert"]
                  \/ /\ n.inserted = function[w].inserted
                     /\ n.at \in {"insert", "dead", "fail"}
  BY <1>4
<1>6. /\ \A v \in Workflows : function'[v] = IF v = w THEN n ELSE function[v]
      /\ \A v \in Workflows : function'[v].run = function[v].run
  BY <1>1, <1>5, GoesTyped
<1>7. /\ finding_run' \in [Findings -> ScanRuns \cup {NoRun}]
      /\ \A f \in rows : finding_run[f] = NoRun /\ finding_run'[f] = n.run
      /\ \A f \in Findings \ rows : finding_run'[f] = finding_run[f]
  BY <1>1, <1>2, <1>5 DEF InsertFindings, TypeOK
<1>8. n.at \in {"insert", "dead", "fail", "evaluate", "complete"}
      /\ (n.kind = "scan" => n.at # "complete")
  <2>1. n.kind \in {"scan", "alert"}
    BY <1>2, <1>5 DEF FunctionStates
  <2> QED
    BY <1>5, <2>1, FollowingSteps
<1>9. TypeOK'
  BY <1>1, <1>4, <1>5, <1>7, GoesTyped DEF TypeOK, InsertFindings, runVars
<1>10. RunIsMemoized'
  BY <1>1, <1>2, <1>5, <1>6, <1>8 DEF RunIsMemoized
<1>11. RunIsOwn' /\ LiveIsMemoized'
  BY <1>1, <1>6 DEF RunIsOwn, LiveIsMemoized, InsertFindings, runVars
<1>12. InsertedAreOwn'
  <2>1. ASSUME NEW v \in Workflows, v # w, NEW f \in function[v].inserted
        PROVE  finding_run'[f] = function[v].run
    <3>1. f \in Findings /\ finding_run[f] = function[v].run
      BY <1>1, <2>1 DEF InsertedAreOwn, TypeOK, FunctionStates
    <3>2. f \notin rows
      BY <1>7, <2>1, OthersFindings
    <3> QED
      BY <1>7, <3>1, <3>2
  <2>2. ASSUME NEW f \in n.inserted
        PROVE  finding_run'[f] = n.run
    <3>1. CASE f \in rows
      BY <1>7, <3>1
    <3>2. CASE f \notin rows
      BY <1>1, <1>2, <1>5, <1>7, <2>2, <3>2
         DEF InsertedAreOwn, TypeOK, FunctionStates
    <3> QED
      BY <3>1, <3>2
  <2> QED
    BY <1>1, <1>2, <1>5, <1>6, <2>1, <2>2 DEF InsertedAreOwn
<1>13. DecidedSoFar'
  <2>1. \A f \in Findings : Untouched(f)
    BY DEF InsertFindings, Untouched
  <2>2. n.kind = "scan" =>
          \/ n.at \in {"insert", "dead", "fail"}
          \/ n.inserted = rows /\ n.at = "evaluate"
    BY <1>5, FollowingSteps
  <2>3. \A f \in rows : f \notin routed' \cup asked'
    BY <1>1, <1>7 DEF RoutedHaveRun, InsertFindings
  <2>4. n.kind = "scan" => \A f \in n.inserted : TriagedAt(n.at, f)'
    BY <2>2, <2>3 DEF TriagedAt
  <2> QED
    BY <1>5, <2>1, <2>4, OthersDecided
<1>14. RoutedHaveRun'
  BY <1>1, <1>7 DEF RoutedHaveRun, InsertFindings
<1> QED
  BY <1>9, <1>10, <1>11, <1>12, <1>13, <1>14 DEF ScanInv

\* evaluate-findings, route-remediation-candidates and
\* create-approval-requests: an acknowledged step has been through them all.
LEMMA TriageStep ==
  ASSUME ScanInv, NEW w \in Workflows, Triages(w)
  PROVE  ScanInv'
<1> DEFINE rows == function[w].inserted
<1>1. TypeOK /\ InsertedAreOwn /\ DecidedSoFar /\ RoutedHaveRun
  BY DEF ScanInv
<1>2. /\ function[w].at \in {"evaluate", "route", "ask"}
      /\ function[w].at \in Steps \ {"create"}
      /\ Ended(w)
      /\ UNCHANGED <<requested, active, runVars, finding_run, cron>>
  BY DEF Triages, EvaluateFindings, RouteCandidates, CreateRequests, Steps,
         Ended
<1>3. /\ failures' \in 0..MaxFailures
      /\ \E n : /\ Goes(w, n) /\ Keeps(w, n)
                /\ n.at \notin {"idle", "create"}
                /\ \/ n.at \in {function[w].at, "dead", "fail"}
                   \/ /\ Acknowledged(w, function[w])
                      /\ n.at = Following[n.kind][function[w].at]
  BY <1>2, EndedGoes
<1>4. PICK n : /\ Goes(w, n) /\ Keeps(w, n)
               /\ n.at \notin {"idle", "create"}
               /\ \/ n.at \in {function[w].at, "dead", "fail"}
                  \/ /\ Acknowledged(w, function[w])
                     /\ n.at = Following[n.kind][function[w].at]
  BY <1>3
<1>5. RunIsMemoized' /\ RunIsOwn' /\ LiveIsMemoized' /\ InsertedAreOwn'
  <2>1. UNCHANGED <<run_status, workflow, finding_run>>
    BY <1>2 DEF runVars
  <2> QED
    BY <1>2, <1>4, <2>1, RowsKept
<1>6. rows \subseteq Findings /\ \A f \in rows : finding_run[f] # NoRun
  BY <1>1 DEF TypeOK, FunctionStates, InsertedAreOwn
<1>7. /\ wanted' \subseteq Findings
      /\ routed' \subseteq Findings /\ asked' \subseteq Findings
      /\ approval' \in [Findings -> {"undecided", "not_required", "pending"}]
      /\ \A f \in Findings \ rows : Untouched(f)
  BY <1>1, <1>6
     DEF Triages, EvaluateFindings, RouteCandidates, CreateRequests, Candidates,
         Gated, TypeOK, Untouched
<1>8. TypeOK' /\ RoutedHaveRun'
  <2>1. TypeOK'
    BY <1>1, <1>2, <1>3, <1>4, <1>7, GoesTyped DEF TypeOK, runVars
  <2>2. RoutedHaveRun'
    BY <1>1, <1>2, <1>6, <1>7 DEF RoutedHaveRun, Untouched
  <2> QED
    BY <2>1, <2>2
<1>9. SUFFICES ASSUME n.kind = "scan", NEW f \in n.inserted
               PROVE  TriagedAt(n.at, f)'
  BY <1>4, <1>5, <1>7, <1>8, OthersDecided DEF ScanInv
<1>10. /\ f \in rows /\ f \in Findings
       /\ TriagedAt(function[w].at, f)
  BY <1>1, <1>4, <1>6, <1>9 DEF DecidedSoFar, Keeps
<1>11. CASE function[w].at = "evaluate"
  <2>1. PICK through \in SUBSET rows : \E gated, remediable \in SUBSET through :
          EvaluateFindings(w, through, gated, remediable)
    BY <1>11 DEF Triages, RouteCandidates, CreateRequests
  <2>2. f \notin routed' /\ f \notin asked'
    BY <1>10, <1>11, <2>1 DEF EvaluateFindings, TriagedAt
  <2>3. n.at \in {"evaluate", "dead", "fail", "route"}
    BY <1>4, <1>9, <1>11, FollowingSteps
  <2>4. CASE n.at # "route"
    BY <2>2, <2>3, <2>4 DEF TriagedAt
  <2>5. CASE n.at = "route"
    <3>1. ~Faulty(w)
      BY <1>1, <1>4, <1>11, <2>5, NotBoth
    <3>2. through = rows
      BY <2>1, <3>1 DEF EvaluateFindings
    <3>3. approval'[f] # "undecided"
      BY <1>10, <2>1, <3>2 DEF EvaluateFindings
    <3> QED
      BY <2>2, <2>5, <3>3 DEF TriagedAt
  <2> QED
    BY <2>4, <2>5
<1>12. CASE function[w].at = "route"
  <2>1. PICK through \in SUBSET rows : RouteCandidates(w, through)
    BY <1>12 DEF Triages, EvaluateFindings, CreateRequests
  <2>2. /\ approval' = approval /\ wanted' = wanted /\ asked' = asked
        /\ approval[f] # "undecided" /\ f \notin asked
        /\ f \in routed' => f \in wanted
    BY <1>10, <1>12, <2>1 DEF RouteCandidates, Candidates, TriagedAt
  <2>3. n.at \in {"route", "dead", "fail", "ask"}
    BY <1>4, <1>9, <1>12, FollowingSteps
  <2>4. CASE n.at # "ask"
    BY <2>2, <2>3, <2>4 DEF TriagedAt
  <2>5. CASE n.at = "ask"
    <3>1. ~Faulty(w)
      BY <1>1, <1>4, <1>12, <2>5, NotBoth
    <3>2. f \in wanted => f \in routed'
      BY <1>10, <2>1, <3>1 DEF RouteCandidates, Candidates
    <3> QED
      BY <2>2, <2>5, <3>2 DEF TriagedAt
  <2> QED
    BY <2>4, <2>5
<1>13. CASE function[w].at = "ask"
  <2>1. PICK through \in SUBSET rows : CreateRequests(w, through)
    BY <1>13 DEF Triages, EvaluateFindings, RouteCandidates
  <2>2. /\ approval' = approval /\ wanted' = wanted /\ routed' = routed
        /\ approval[f] # "undecided" /\ (f \in routed <=> f \in wanted)
        /\ f \in asked' => f \in wanted /\ approval[f] = "pending"
    BY <1>10, <1>13, <2>1 DEF CreateRequests, Gated, TriagedAt
  <2>3. n.at \in {"ask", "dead", "fail", "complete"}
    BY <1>4, <1>9, <1>13, FollowingSteps
  <2>4. CASE n.at # "complete"
    BY <2>2, <2>3, <2>4 DEF TriagedAt
  <2>5. CASE n.at = "complete"
    <3>1. ~Faulty(w)
      BY <1>1, <1>4, <1>13, <2>5, NotBoth
    <3>2. f \in wanted /\ approval[f] = "pending" => f \in asked'
      BY <1>10, <2>1, <2>2, <3>1 DEF CreateRequests, Gated
    <3> QED
      BY <2>2, <2>5, <3>2 DEF TriagedAt
  <2> QED
    BY <2>4, <2>5
<1> QED
  BY <1>2, <1>11, <1>12, <1>13

\* A function run that starts has memoized nothing.
LEMMA StartStep ==
  ASSUME ScanInv, NEW w \in Workflows, NEW t \in Targets \cup {NoTarget},
         Start(w, t)
  PROVE  ScanInv'
<1>1. /\ TypeOK /\ RunIsMemoized /\ RunIsOwn /\ LiveIsMemoized
      /\ InsertedAreOwn /\ DecidedSoFar
  BY DEF ScanInv
<1>2. function[w].at = "idle" /\ function[w].run = NoRun
  BY <1>1 DEF Start, RunIsMemoized
<1>3. 1 \in 1..MaxAttempts
  BY ScanAssumption
<1>4. PICK n \in FunctionStates :
        /\ function' = [function EXCEPT ![w] = n]
        /\ n.at = "create" /\ n.kind \in {"scan", "alert"}
        /\ n.run = NoRun /\ n.inserted = {}
  <2>1. CASE t \in Targets /\ Goto(w, [IdleFunction EXCEPT !.at = "create",
                                                           !.target = t])
    <3> DEFINE n == [IdleFunction EXCEPT !.at = "create", !.target = t]
    <3>1. /\ n \in FunctionStates /\ n.at = "create" /\ n.kind = "scan"
          /\ n.run = NoRun /\ n.inserted = {}
      BY <1>3, <2>1 DEF IdleFunction, FunctionStates, Steps
    <3> QED
      BY <2>1, <3>1 DEF Goto
  <2>2. CASE Goto(w, [IdleFunction EXCEPT !.at = "create", !.kind = "alert"])
    <3> DEFINE n == [IdleFunction EXCEPT !.at = "create", !.kind = "alert"]
    <3>1. /\ n \in FunctionStates /\ n.at = "create" /\ n.kind = "alert"
          /\ n.run = NoRun /\ n.inserted = {}
      BY <1>3 DEF IdleFunction, FunctionStates, Steps
    <3> QED
      BY <2>2, <3>1 DEF Goto
  <2> QED
    BY <2>1, <2>2 DEF Start
<1>5. "create" \in DOMAIN Following[n.kind]
  BY <1>4, FollowingSteps DEF Steps
<1>6. Goes(w, n)
  BY <1>4, <1>5 DEF Goes
<1>7. \A v \in Workflows : function'[v] = IF v = w THEN n ELSE function[v]
  BY <1>1, <1>6, GoesTyped
<1>8. requested' \in [Targets -> 0..MaxRequested]
  <2>1. CASE requested' = requested
    BY <1>1, <2>1 DEF TypeOK
  <2>2. CASE /\ t \in Targets /\ requested[t] > 0
             /\ requested' = [requested EXCEPT ![t] = @ - 1]
    <3>1. requested[t] - 1 \in 0..MaxRequested
      BY <1>1, <2>2, ScanAssumption DEF TypeOK
    <3> QED
      BY <1>1, <2>2, <3>1 DEF TypeOK
  <2> QED
    BY <2>1, <2>2 DEF Start
<1>9. TypeOK'
  BY <1>1, <1>6, <1>8, GoesTyped DEF TypeOK, Start, runVars, findingVars
<1>10. RunIsMemoized'
  BY <1>1, <1>4, <1>7 DEF RunIsMemoized, Steps
<1>11. RunIsOwn' /\ InsertedAreOwn'
  BY <1>1, <1>4, <1>7
     DEF RunIsOwn, InsertedAreOwn, Start, runVars, findingVars
<1>12. LiveIsMemoized'
  BY <1>1, <1>2, <1>7, ScanAssumption DEF LiveIsMemoized, Start, runVars
<1>13. DecidedSoFar' /\ RoutedHaveRun'
  BY <1>4, <1>6, NothingTriaged DEF Start
<1> QED
  BY <1>9, <1>10, <1>11, <1>12, <1>13 DEF ScanInv

\* Who asks for scans writes no run and no finding.
LEMMA RequestersStep ==
  ASSUME ScanInv, Requesters
  PROVE  ScanInv'
<1>1. TypeOK
  BY DEF ScanInv
<1>2. UNCHANGED <<runVars, findingVars, function>>
  BY DEF Requesters, RequestScan, ToggleTarget, CronSends, Revalidate,
         CronLoads, CronEnds
<1>3. ASSUME NEW t \in Targets, Send(t)
      PROVE  requested' \in [Targets -> 0..MaxRequested]
  <2>1. requested[t] + 1 \in 0..MaxRequested
    BY <1>1, <1>3, ScanAssumption DEF TypeOK, Send
  <2> QED
    BY <1>1, <1>3, <2>1 DEF TypeOK, Send
<1>4. ASSUME NEW f \in Findings, Revalidate(f)
      PROVE  requested' \in [Targets -> 0..MaxRequested]
  <2>1. TargetOf(finding_run[f]) \in Targets
        \/ requested' \in [Targets -> 0..MaxRequested]
    BY <1>1, <1>4 DEF Revalidate, Send, TypeOK
  <2> QED
    BY <1>3, <1>4, <2>1 DEF Revalidate
<1>5. requested' \in [Targets -> 0..MaxRequested]
  BY <1>1, <1>3, <1>4
     DEF Requesters, RequestScan, ToggleTarget, CronSends, CronLoads, CronEnds,
         TypeOK
<1>6. /\ active' \subseteq Targets
      /\ failures' \in 0..MaxFailures
  BY <1>1, ScanAssumption
     DEF Requesters, RequestScan, ToggleTarget, CronSends, Revalidate,
         CronLoads, CronEnds, TypeOK
<1>7. cron' \in [at : {"idle", "send"}, todo : SUBSET Targets]
  BY <1>1, ScanAssumption
     DEF Requesters, RequestScan, ToggleTarget, CronSends, Revalidate,
         CronLoads, CronEnds, TypeOK
<1>8. TypeOK'
  BY <1>1, <1>2, <1>5, <1>6, <1>7 DEF TypeOK, runVars, findingVars
<1> QED
  BY <1>2, <1>8
     DEF ScanInv, RunIsMemoized, RunIsOwn, LiveIsMemoized, InsertedAreOwn,
         DecidedSoFar, TriagedAt, RoutedHaveRun, runVars, findingVars

-----------------------------------------------------------------------------
LEMMA ScanInit == Init => ScanInv
<1> SUFFICES ASSUME Init PROVE ScanInv
  OBVIOUS
<1>1. 1 \in 1..MaxAttempts /\ 0 \in 0..MaxFailures /\ 0 \in 0..MaxRequested
  BY ScanAssumption
<1>2. IdleFunction \in FunctionStates
  BY <1>1 DEF IdleFunction, FunctionStates
<1>3. TypeOK
  BY <1>1, <1>2 DEF Init, TypeOK, IdleFunction, Steps
<1> QED
  BY <1>3
     DEF Init, ScanInv, RunIsMemoized, RunIsOwn, LiveIsMemoized,
         InsertedAreOwn, DecidedSoFar, RoutedHaveRun, IdleFunction, Steps

LEMMA ScanStep == ScanInv /\ [Next]_vars => ScanInv'
<1> SUFFICES ASSUME ScanInv, [Next]_vars PROVE ScanInv'
  OBVIOUS
<1>1. CASE UNCHANGED vars
  BY <1>1
     DEF ScanInv, TypeOK, RunIsMemoized, RunIsOwn, LiveIsMemoized,
         InsertedAreOwn, DecidedSoFar, TriagedAt, RoutedHaveRun, vars, runVars,
         findingVars
<1>2. CASE Requesters
  BY <1>2, RequestersStep
<1>3. ASSUME NEW w \in Workflows, FunctionStep(w)
      PROVE  ScanInv'
  <2>1. CASE LoadTarget(w) \/ MarkRunRunning(w) \/ CompleteRun(w) \/ FailRun(w)
    <3>1. function[w].at \in Steps
      BY <2>1
         DEF LoadTarget, MarkRunRunning, CompleteRun, FailRun, MarkRun, Steps
    <3> QED
      BY <2>1, <3>1, MarkStep
  <2>2. CASE Triages(w)
    BY <2>2, TriageStep
  <2> QED
    BY <1>3, <2>1, <2>2, CreateStep, InsertStep DEF FunctionStep, Triages
<1> QED
  BY <1>1, <1>2, <1>3, StartStep, ThrowStep DEF Next

LEMMA ScanInvariant == Spec => []ScanInv
BY ScanInit, ScanStep, PTL DEF Spec

\* The types of the run model hold in every reachable state.
THEOREM TypeCorrect == Spec => []TypeOK
<1>1. ScanInv => TypeOK
  BY DEF ScanInv
<1> QED
  BY <1>1, ScanInvariant, PTL

\* However often create-run-record and create-alert-run are retried, one row
\* of scan_runs per function run leaves the state queued.
THEOREM OneRunIsLive == Spec => []OneLiveRun
<1>1. ScanInv => OneLiveRun
  <2> SUFFICES ASSUME ScanInv, NEW s1 \in ScanRuns, NEW s2 \in ScanRuns,
                      {run_status[s1], run_status[s2]}
                        \cap {"absent", "queued"} = {},
                      workflow[s1] = workflow[s2]
               PROVE  s1 = s2
    BY DEF OneLiveRun
  <2> QED
    BY DEF ScanInv, LiveIsMemoized
<1> QED
  BY <1>1, ScanInvariant, PTL

\* A scan that has returned has decided every finding it inserted and knows of;
\* the findings whose decision asks for a remediation, and no others, have an
\* action, and those of them that need an approval, and no others, a request.
THEOREM CompletedScansAreTriaged == Spec => []CompletedIsTriaged
<1>1. ScanInv => CompletedIsTriaged
  BY DEF ScanInv, DecidedSoFar, TriagedAt, CompletedIsTriaged
<1> QED
  BY <1>1, ScanInvariant, PTL
-----------------------------------------------------------------------------
\* What the row of a function run shows at each of its steps.
ShownSoFar(w) ==
  /\ function[w].at = "target" => Shown(w) = "queued"
  /\ function[w].at = "running" => Shown(w) \in {"queued", "running"}
  /\ function[w].at \in {"insert", "evaluate", "route", "ask"}
       => Shown(w) = "running"
  /\ function[w].at = "complete" => Shown(w) \in {"running", "completed"}
  /\ function[w].at = "done" => Shown(w) = "completed"

ShownInv == ScanInv /\ \A w \in Workflows : ShownSoFar(w)

\* The state a marking step writes.
MarkAt == [running |-> "running", complete |-> "completed", fail |-> "failed"]

\* All that a step of a function run does to the rows of scan_runs: n is where
\* the function run goes.
Moves(w, n) ==
  \/ /\ function[w].at \in {"idle", "create"} /\ n.at \in {"create", "dead"}
     /\ n.run = NoRun
     /\ \A s \in ScanRuns : run_status[s] # "absent" => run_status'[s] = run_status[s]
  \/ /\ function[w].at = "create" /\ n.at \in {"target", "running"}
     /\ n.run \in ScanRuns /\ run_status[n.run] = "absent"
     /\ run_status' = [run_status EXCEPT ![n.run] = "queued"]
  \/ /\ function[w].at \in Steps \ {"create"} /\ n.run = function[w].run
     /\ UNCHANGED run_status
     /\ \/ n.at \in {function[w].at, "dead", "fail"}
        \/ function[w].at = "target" /\ n.at = "running"
        \/ /\ function[w].at \in {"insert", "evaluate", "route", "ask"}
           /\ n.at \in {"evaluate", "route", "ask", "complete"}
  \/ /\ function[w].at \in DOMAIN MarkAt /\ n.run = function[w].run
     /\ Marks(w, MarkAt[function[w].at])
     /\ \/ n.at \in {function[w].at, "dead", "fail"}
        \/ function[w].at = "running" /\ n.at = "insert"
        \/ function[w].at = "complete" /\ n.at = "done"

LEMMA CreateMoves ==
  ASSUME ScanInv, NEW w \in Workflows, NEW s \in ScanRuns, CreateRun(w, s)
  PROVE  \E n : Goes(w, n) /\ Moves(w, n)
<1> DEFINE r == [function[w] EXCEPT !.run = s]
<1>1. /\ TypeOK /\ function[w].at = "create" /\ function[w].at \in Steps
      /\ function[w].run = NoRun /\ run_status[s] = "absent"
      /\ run_status' = [run_status EXCEPT ![s] = "queued"]
  BY DEF CreateRun, ScanInv, RunIsMemoized, Steps
<1>2. CASE Acknowledged(w, r)
  <2>1. /\ r \in FunctionStates /\ r.at = "create" /\ r.run = s
        /\ r.kind = function[w].kind /\ r.kind \in {"scan", "alert"}
        /\ r.at \in Steps /\ r.at \in DOMAIN Following[r.kind]
    <3>1. function[w] \in FunctionStates
      BY <1>1, FunctionIsTyped
    <3>2. /\ r \in FunctionStates /\ r.at = "create" /\ r.run = s
          /\ r.kind = function[w].kind /\ r.kind \in {"scan", "alert"}
      BY <1>1, <3>1 DEF FunctionStates
    <3>3. "create" \in DOMAIN Following[r.kind]
      BY <1>1, <3>2, FunctionIsTyped
    <3> QED BY <1>1, <3>2, <3>3
  <2> HIDE DEF r
  <2>2. PICK n : Goes(w, n) /\ n.at = Following[r.kind]["create"] /\ n.run = s
    BY <1>1, <1>2, <2>1, AcknowledgedGoes
  <2>3. n.at \in {"target", "running"}
    BY <2>1, <2>2, FollowingSteps
  <2> QED BY <1>1, <2>2, <2>3 DEF Moves
<1>3. CASE Faulty(w)
  <2>1. PICK n : /\ Goes(w, n) /\ n.run = NoRun /\ n.at \in {"create", "dead"}
    BY <1>1, <1>3, FaultyGoes DEF Keeps
  <2>2. \A x \in ScanRuns : run_status[x] # "absent" => run_status'[x] = run_status[x]
    BY <1>1 DEF TypeOK
  <2> QED BY <1>1, <2>1, <2>2 DEF Moves
<1> QED BY <1>2, <1>3 DEF CreateRun, DoneOrLost

\* Steps that memoize nothing.
LEMMA EndedMoves ==
  ASSUME ScanInv, NEW w \in Workflows,
         \/ LoadTarget(w) \/ MarkRunRunning(w) \/ CompleteRun(w) \/ FailRun(w)
         \/ OtherStepThrows(w) /\ function[w].at # "create"
         \/ Triages(w)
  PROVE  \E n : Goes(w, n) /\ Moves(w, n)
<1> DEFINE at == function[w].at
<1>1. at \in Steps \ {"create"} /\ Ended(w)
  BY DEF LoadTarget, MarkRunRunning, CompleteRun, FailRun, MarkRun,
         OtherStepThrows, DoneOrLost, Triages, EvaluateFindings,
         RouteCandidates, CreateRequests, Ended, Steps
<1>2. PICK n : /\ Goes(w, n) /\ Keeps(w, n)
               /\ \/ n.at \in {at, "dead", "fail"}
                  \/ Acknowledged(w, function[w]) /\ n.at = Following[n.kind][at]
  BY <1>1, EndedGoes
<1>3. /\ n.run = function[w].run /\ n.kind = function[w].kind
      /\ n.kind \in {"scan", "alert"}
      /\ at \in DOMAIN Following[n.kind]
  BY <1>1, <1>2, FunctionIsTyped DEF Keeps, ScanInv, FunctionStates
<1>4. \/ at \in DOMAIN MarkAt /\ Marks(w, MarkAt[at])
      \/ UNCHANGED run_status /\ at \in {"target", "evaluate", "route", "ask"}
      \/ UNCHANGED run_status /\ ~ Acknowledged(w, function[w])
  BY NotBoth
     DEF LoadTarget, MarkRunRunning, CompleteRun, FailRun, MarkRun, MarkAt,
         OtherStepThrows, Triages, EvaluateFindings, RouteCandidates,
         CreateRequests, runVars, ScanInv
<1>5. CASE n.at \in {at, "dead", "fail"}
  BY <1>1, <1>2, <1>3, <1>4, <1>5 DEF Moves
<1>6. CASE Acknowledged(w, function[w]) /\ n.at = Following[n.kind][at]
  <2>1. CASE at \in DOMAIN MarkAt /\ Marks(w, MarkAt[at])
    <3>1. \/ at = "running" /\ n.at = "insert"
          \/ at = "complete" /\ n.at = "done"
          \/ at = "fail" /\ n.at = "dead"
      BY <1>3, <1>6, <2>1, FollowingSteps DEF MarkAt
    <3> QED BY <1>2, <1>3, <2>1, <3>1 DEF Moves
  <2>2. CASE UNCHANGED run_status /\ at \in {"target", "evaluate", "route", "ask"}
    <3>1. \/ at = "target" /\ n.at = "running"
          \/ /\ at \in {"evaluate", "route", "ask"}
             /\ n.at \in {"route", "ask", "complete"}
      BY <1>3, <1>6, <2>2, FollowingSteps
    <3> QED BY <1>1, <1>2, <1>3, <2>2, <3>1 DEF Moves
  <2> QED BY <1>4, <1>6, <2>1, <2>2
<1> QED BY <1>2, <1>5, <1>6

LEMMA InsertMoves ==
  ASSUME ScanInv, NEW w \in Workflows, NEW rows \in SUBSET Findings,
         InsertFindings(w, rows)
  PROVE  \E n : Goes(w, n) /\ Moves(w, n)
<1> DEFINE r == [function[w] EXCEPT !.inserted = rows]
<1>1. /\ TypeOK /\ function[w].at = "insert"
      /\ function[w].at \in Steps \ {"create"} /\ UNCHANGED run_status
  BY DEF InsertFindings, ScanInv, Steps, runVars
<1>2. CASE Acknowledged(w, r)
  <2>1. /\ function[w] \in FunctionStates
        /\ "insert" \in DOMAIN Following[function[w].kind]
    BY <1>1, FunctionIsTyped
  <2>2. /\ r \in FunctionStates /\ r.at = "insert" /\ r.run = function[w].run
        /\ r.kind = function[w].kind /\ r.kind \in {"scan", "alert"}
    BY <1>1, <2>1 DEF FunctionStates
  <2> HIDE DEF r
  <2>3. PICK n : /\ Goes(w, n) /\ n.at = Following[r.kind]["insert"]
                 /\ n.run = function[w].run
    BY <1>1, <1>2, <2>1, <2>2, AcknowledgedGoes DEF Steps
  <2>4. n.at \in {"evaluate", "complete"}
    BY <2>2, <2>3, FollowingSteps
  <2> QED BY <1>1, <2>3, <2>4 DEF Moves
<1>3. CASE Faulty(w)
  <2>1. PICK n : /\ Goes(w, n) /\ n.run = function[w].run
                 /\ n.at \in {"insert", "dead", "fail"}
    BY <1>1, <1>3, FaultyGoes DEF Keeps
  <2> QED BY <1>1, <2>1 DEF Moves
<1> QED BY <1>2, <1>3 DEF InsertFindings, DoneOrLost

LEMMA StartMoves ==
  ASSUME ScanInv, NEW w \in Workflows, NEW t \in Targets \cup {NoTarget},
         Start(w, t) \/ (OtherStepThrows(w) /\ function[w].at = "create")
  PROVE  \E n : Goes(w, n) /\ Moves(w, n)
<1>1. /\ TypeOK /\ UNCHANGED run_status
      /\ function[w].at \in {"idle", "create"} /\ function[w].run = NoRun
  BY DEF Start, OtherStepThrows, ScanInv, RunIsMemoized, runVars
<1>2. CASE OtherStepThrows(w) /\ function[w].at = "create"
  <2>1. PICK n : Goes(w, n) /\ n.run = NoRun /\ n.at \in {"create", "dead"}
    BY <1>1, <1>2, FaultyGoes DEF OtherStepThrows, Keeps
  <2> QED BY <1>1, <2>1 DEF Moves
<1>3. CASE Start(w, t)
  <2> DEFINE n1 == [IdleFunction EXCEPT !.at = "create", !.target = t]
             n2 == [IdleFunction EXCEPT !.at = "create", !.kind = "alert"]
  <2>1. /\ IdleFunction \in FunctionStates
        /\ \A kind \in {"scan", "alert"} : "create" \in DOMAIN Following[kind]
    BY ScanAssumption, FollowingSteps DEF IdleFunction, FunctionStates, Steps
  <2>2. PICK n \in {n1, n2} : function' = [function EXCEPT ![w] = n]
    BY <1>3 DEF Start, Goto
  <2>3. /\ n \in FunctionStates /\ n.at = "create" /\ n.run = NoRun
        /\ n.kind \in {"scan", "alert"}
    BY <2>1 DEF FunctionStates, IdleFunction, Steps
  <2>4. Goes(w, n)
    BY <2>1, <2>2, <2>3 DEF Goes
  <2> QED BY <1>1, <2>3, <2>4 DEF Moves
<1> QED BY <1>2, <1>3

-----------------------------------------------------------------------------
\* One step of a function run is a step of the ledger or none, and leaves what
\* the other function runs show alone.
LEMMA MovesTurn ==
  ASSUME ShownInv, NEW w \in Workflows, NEW n, Goes(w, n), Moves(w, n)
  PROVE  /\ ShownSoFar(w)'
         /\ \A v \in Workflows \ {w} :
              function'[v] = function[v] /\ Shown(v)' = Shown(v)
         /\ function'[w] = n /\ (function[w].at = "done" => FALSE)
         /\ \/ Shown(w)' = Shown(w) /\ n.at # "done"
            \/ Shown(w) = "none" /\ Shown(w)' = "queued" /\ n.at # "done"
            \/ Shown(w) = "queued" /\ Shown(w)' = "running" /\ n.at # "done"
            \/ Shown(w) \in {"running", "completed"} /\ Shown(w)' = "completed"
            \/ /\ Shown(w) \in {"queued", "running", "completed"}
               /\ Shown(w)' = "failed" /\ n.at # "done"
<1>1. /\ ScanInv /\ TypeOK /\ RunIsMemoized /\ RunIsOwn /\ ShownSoFar(w)
      /\ run_status \in
           [ScanRuns -> {"absent", "queued", "running", "completed", "failed"}]
  BY DEF ShownInv, ScanInv, TypeOK
<1>2. \A v \in Workflows : function'[v] = IF v = w THEN n ELSE function[v]
  BY <1>1, GoesTyped
<1>3. ASSUME NEW v \in Workflows, function[v].run # NoRun
      PROVE  /\ function[v].run \in ScanRuns
             /\ workflow[function[v].run] = v
             /\ run_status[function[v].run] # "absent"
  BY <1>1, <1>3, ScanAssumption DEF TypeOK, FunctionStates, RunIsOwn
<1>4. function[w].at \in {"idle", "create"} => Shown(w) = "none"
  BY <1>1 DEF RunIsMemoized, Shown
<1>5. function[w].at \in Steps \ {"create"} =>
        /\ function[w].run # NoRun
        /\ Shown(w) = run_status[function[w].run] /\ Shown(w) # "absent"
        /\ Shown(w) \in {"queued", "running", "completed", "failed"}
  BY <1>1, <1>3 DEF RunIsMemoized, Shown
<1>6. Shown(w)' = IF n.run = NoRun THEN "none" ELSE run_status'[n.run]
  BY <1>2 DEF Shown
<1>7. ASSUME NEW v \in Workflows \ {w} PROVE Shown(v)' = Shown(v)
  <2>1. CASE function[v].run = NoRun
    BY <1>2, <2>1 DEF Shown
  <2>2. CASE function[v].run # NoRun
    <3>1. /\ function[v].run \in ScanRuns
          /\ run_status[function[v].run] # "absent"
          /\ function[v].run # function[w].run
      BY <1>3, <2>2
    <3>2. run_status'[function[v].run] = run_status[function[v].run]
      BY <1>1, <3>1 DEF Moves, Marks
    <3> QED BY <1>2, <3>2 DEF Shown
  <2> QED BY <2>1, <2>2
<1>8. ShownSoFar(w)' <=>
        /\ n.at = "target" => Shown(w)' = "queued"
        /\ n.at = "running" => Shown(w)' \in {"queued", "running"}
        /\ n.at \in {"insert", "evaluate", "route", "ask"} => Shown(w)' = "running"
        /\ n.at = "complete" => Shown(w)' \in {"running", "completed"}
        /\ n.at = "done" => Shown(w)' = "completed"
  BY <1>2 DEF ShownSoFar
<1>9. CASE function[w].at \in {"idle", "create"} /\ n.at \in {"create", "dead"}
           /\ n.run = NoRun
  BY <1>2, <1>4, <1>6, <1>7, <1>8, <1>9
<1>10. CASE /\ function[w].at = "create" /\ n.at \in {"target", "running"}
            /\ n.run \in ScanRuns
            /\ run_status' = [run_status EXCEPT ![n.run] = "queued"]
  <2>1. Shown(w)' = "queued"
    BY <1>1, <1>6, <1>10, ScanAssumption
  <2> QED BY <1>2, <1>4, <1>7, <1>8, <1>10, <2>1
<1>11. CASE /\ function[w].at \in Steps \ {"create"} /\ n.run = function[w].run
            /\ UNCHANGED run_status
            /\ \/ n.at \in {function[w].at, "dead", "fail"}
               \/ function[w].at = "target" /\ n.at = "running"
               \/ /\ function[w].at \in {"insert", "evaluate", "route", "ask"}
                  /\ n.at \in {"evaluate", "route", "ask", "complete"}
  <2>1. Shown(w)' = Shown(w)
    BY <1>6, <1>11 DEF Shown
  <2>2. n.at # "done" /\ function[w].at # "done"
    BY <1>11 DEF Steps
  <2>3. ShownSoFar(w)'
    BY <1>1, <1>8, <1>11, <2>1, <2>2 DEF ShownSoFar
  <2> QED BY <1>2, <1>7, <2>1, <2>2, <2>3
<1>12. CASE /\ function[w].at \in DOMAIN MarkAt /\ n.run = function[w].run
            /\ Marks(w, MarkAt[function[w].at])
            /\ \/ n.at \in {function[w].at, "dead", "fail"}
               \/ function[w].at = "running" /\ n.at = "insert"
               \/ function[w].at = "complete" /\ n.at = "done"
  <2>1. function[w].at \in {"running", "complete", "fail"}
    BY <1>12 DEF MarkAt
  <2>2. function[w].at \in Steps \ {"create"}
    BY <2>1 DEF Steps
  <2>3. Shown(w)' = MarkAt[function[w].at]
    BY <1>1, <1>3, <1>5, <1>6, <1>12, <2>2 DEF Marks
  <2>4. CASE function[w].at = "running"
    BY <1>1, <1>2, <1>7, <1>8, <1>12, <2>3, <2>4 DEF MarkAt, ShownSoFar
  <2>5. CASE function[w].at = "complete"
    BY <1>1, <1>2, <1>7, <1>8, <1>12, <2>3, <2>5 DEF MarkAt, ShownSoFar
  <2>6. CASE function[w].at = "fail"
    BY <1>1, <1>2, <1>5, <1>7, <1>8, <1>12, <2>2, <2>3, <2>6
       DEF MarkAt, ShownSoFar
  <2> QED BY <2>1, <2>4, <2>5, <2>6
<1> QED BY <1>9, <1>10, <1>11, <1>12 DEF Moves

\* A step of the system is a step of a function run, or leaves rows and function
\* runs alone.
LEMMA StepMoves ==
  ASSUME ScanInv, [Next]_vars
  PROVE  \/ UNCHANGED <<function, run_status>>
         \/ \E w \in Workflows : \E n : Goes(w, n) /\ Moves(w, n)
<1>1. CASE UNCHANGED vars
  BY <1>1 DEF vars, runVars
<1>2. CASE Requesters
  BY <1>2
     DEF Requesters, RequestScan, ToggleTarget, CronSends, Revalidate,
         CronLoads, CronEnds, runVars
<1>3. ASSUME NEW w \in Workflows, FunctionStep(w)
      PROVE  \E n : Goes(w, n) /\ Moves(w, n)
  <2>1. CASE \E s \in ScanRuns : CreateRun(w, s)
    BY <2>1, CreateMoves
  <2>2. CASE \E rows \in SUBSET Findings : InsertFindings(w, rows)
    BY <2>2, InsertMoves
  <2>3. CASE ~ (\E s \in ScanRuns : CreateRun(w, s))
             /\ ~ (\E rows \in SUBSET Findings : InsertFindings(w, rows))
    BY <1>3, <2>3, EndedMoves DEF FunctionStep, Triages
  <2> QED BY <2>1, <2>2, <2>3
<1>4. ASSUME NEW w \in Workflows, OtherStepThrows(w)
      PROVE  \E n : Goes(w, n) /\ Moves(w, n)
  <2>1. CASE function[w].at = "create"
    BY <1>4, <2>1, StartMoves
  <2>2. CASE function[w].at # "create"
    BY <1>4, <2>2, EndedMoves
  <2> QED BY <2>1, <2>2
<1> QED BY <1>1, <1>2, <1>3, <1>4, StartMoves DEF Next

LEMMA ShownStep == ShownInv /\ [Next]_vars => ShownInv'
<1> SUFFICES ASSUME ShownInv, [Next]_vars PROVE ShownInv'
  OBVIOUS
<1>1. ScanInv /\ ScanInv'
  BY ScanStep DEF ShownInv
<1>2. CASE UNCHANGED <<function, run_status>>
  BY <1>1, <1>2 DEF ShownInv, ShownSoFar, Shown
<1>3. ASSUME NEW w \in Workflows, NEW n, Goes(w, n), Moves(w, n)
      PROVE  ShownInv'
  <2>1. /\ ShownSoFar(w)'
        /\ \A v \in Workflows \ {w} :
             function'[v] = function[v] /\ Shown(v)' = Shown(v)
    BY <1>3, MovesTurn
  <2>2. ASSUME NEW v \in Workflows PROVE ShownSoFar(v)'
    <3>1. CASE v # w
      BY <2>1, <3>1 DEF ShownInv, ShownSoFar
    <3> QED BY <2>1, <3>1
  <2> QED BY <1>1, <2>2 DEF ShownInv
<1> QED BY <1>1, <1>2, <1>3, StepMoves

LEMMA ShownInvariant == Spec => []ShownInv
<1>1. Init => ShownInv
  BY ScanInit DEF Init, ShownInv, ShownSoFar, IdleFunction
<1> QED BY <1>1, ShownStep, PTL DEF Spec

\* Every step shows as one of the ledger, or not at all.
LEMMA LedgerStep == ShownInv /\ [Next]_vars => [Ledger!Next]_(Ledger!vars)
<1> SUFFICES ASSUME ShownInv, [Next]_vars PROVE [Ledger!Next]_(Ledger!vars)
  OBVIOUS
<1> DEFINE shown == [v \in Workflows |-> Shown(v)]
           returned == {v \in Workflows : function[v].at = "done"}
<1>1. CASE UNCHANGED <<function, run_status>>
  BY <1>1 DEF Ledger!vars, Shown
<1>2. ASSUME NEW w \in Workflows, NEW n, Goes(w, n), Moves(w, n)
      PROVE  [Ledger!Next]_(Ledger!vars)
  <2>1. /\ \A v \in Workflows \ {w} :
             function'[v] = function[v] /\ Shown(v)' = Shown(v)
        /\ function'[w] = n /\ function[w].at # "done"
        /\ \/ Shown(w)' = Shown(w) /\ n.at # "done"
           \/ Shown(w) = "none" /\ Shown(w)' = "queued" /\ n.at # "done"
           \/ Shown(w) = "queued" /\ Shown(w)' = "running" /\ n.at # "done"
           \/ Shown(w) \in {"running", "completed"} /\ Shown(w)' = "completed"
           \/ /\ Shown(w) \in {"queued", "running", "completed"}
              /\ Shown(w)' = "failed" /\ n.at # "done"
    BY <1>2, MovesTurn
  <2>2. shown' = [shown EXCEPT ![w] = Shown(w)']
    BY <2>1
  <2>3. w \notin returned
        /\ returned' = IF n.at = "done" THEN returned \cup {w} ELSE returned
    BY <2>1
  <2>4. shown[w] = Shown(w)
    OBVIOUS
  <2> HIDE DEF shown, returned
  <2>5. \/ shown' = [shown EXCEPT ![w] = shown[w]] /\ returned' = returned
        \/ Ledger!Queue(w) \/ Ledger!Run(w) \/ Ledger!Complete(w)
        \/ Ledger!Fail(w)
    BY <2>1, <2>2, <2>3, <2>4
       DEF Ledger!Queue, Ledger!Run, Ledger!Complete, Ledger!Fail, Ledger!Turns,
           shown, returned
  <2>6. CASE shown' = [shown EXCEPT ![w] = shown[w]] /\ returned' = returned
    BY <2>6 DEF Ledger!vars, shown, returned
  <2> QED BY <2>5, <2>6 DEF Ledger!Next
<1> QED BY <1>1, <1>2, StepMoves DEF ShownInv

\* What a function run shows follows the ledger, whatever is retried and lost.
THEOREM RunsKeepTheLedger == Spec => LedgerSpec
<1>1. Init => Ledger!Init
  BY DEF Init, Ledger!Init, Shown, IdleFunction
<1> QED BY <1>1, LedgerStep, ShownInvariant, PTL DEF Spec, LedgerSpec, Ledger!Spec

\* The row of a function that has returned says completed, and says so for good.
THEOREM ReturnedIsCompleted ==
  Spec => [](\A w \in Workflows : function[w].at = "done" => Shown(w) = "completed")
<1>1. ShownInv
        => \A w \in Workflows : function[w].at = "done" => Shown(w) = "completed"
  BY DEF ShownInv, ShownSoFar
<1> QED BY <1>1, ShownInvariant, PTL
=============================================================================
