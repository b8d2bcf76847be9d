---------------------------- MODULE SlaSweep_proofs ----------------------------
(***************************************************************************)
(* Theorems about the two sweeps, for any rows, deadlines and clock.       *)
(***************************************************************************)
EXTENDS SlaSweep, TLAPS

\* A row was open by time t and not decided before its deadline, which is
\* not after t: what a sweep knows of a row it has selected, for good.
MissedBy(r, t) ==
  /\ status[r] # "absent"
  /\ sla_due_at[r] <= t
  /\ decided_at[r] # Never => sla_due_at[r] <= decided_at[r]

DecidedHaveTime == \A r \in Rows : status[r] # "decided" => decided_at[r] = Never

RiskSweepKnows ==
  riskSweep.at # "idle" =>
    /\ riskSweep.now \in Nat /\ riskSweep.now <= clock
    /\ \A r \in riskSweep.todo : MissedBy(r, riskSweep.now)

BreachSweepKnows == \A r \in breachSweep.overdue : MissedBy(r, clock)

MarksAreRight ==
  \A r \in Rows :
    sla_breached_at[r] # Never =>
      sla_breached_at[r] <= clock /\ MissedBy(r, sla_breached_at[r])

IdleRiskSweepIsEmpty == riskSweep.at = "idle" => riskSweep.todo = {}

\* The marking steps follow the one that sends the events.
EventsBeforeMarks ==
  breachSweep.at \in {"approvals", "exceptions"} =>
    breachSweep.overdue \subseteq announced

\* The inductive invariant.
SlaInv ==
  /\ TypeOK
  /\ DecidedHaveTime
  /\ IdleRiskSweepIsEmpty
  /\ RiskSweepKnows
  /\ BreachSweepKnows
  /\ MarksAreRight
  /\ EventsBeforeMarks
  /\ BreachIsTold

LEMMA TimesAreIntegers == Never \in Int /\ Never \notin Nat /\ Times \subseteq Int
BY DEF Never, Times

LEMMA InitTyped == Init => TypeOK
BY SlaAssumption
   DEF Init, TypeOK, Times, Never, IdleRiskSweep, IdleBreachSweep

-----------------------------------------------------------------------------
\* Type correctness, action by action.
LEMMA RowsTyped ==
  ASSUME TypeOK, NEW r \in Rows, Tick \/ OpenRow(r) \/ DecideRow(r)
  PROVE  TypeOK'
<1>1. CASE Tick
  BY <1>1 DEF TypeOK, Tick, rowVars, markVars
<1>2. CASE OpenRow(r)
  <2>1. SlaHours(r) \in Nat
    BY SlaAssumption DEF SlaHours
  <2> QED BY <1>2, <2>1 DEF TypeOK, OpenRow, markVars
<1>3. CASE DecideRow(r)
  BY <1>3 DEF TypeOK, DecideRow, markVars, Times
<1> QED BY <1>1, <1>2, <1>3

LEMMA UnmarkedTyped ==
  ASSUME NEW table, NEW now
  PROVE  /\ Unmarked(table, now) \subseteq table
         /\ Due(table) \subseteq table
BY DEF Unmarked, Due

LEMMA RiskSweepTyped ==
  ASSUME TypeOK, RiskSweepStep \/ RiskSweepThrows
  PROVE  TypeOK'
<1>1. CASE StartRiskSweep
  BY <1>1, UnmarkedTyped
     DEF TypeOK, StartRiskSweep, rowVars, markVars, Times, Rows
<1>2. ASSUME NEW r \in Rows, MarkRow(r) PROVE TypeOK'
  BY <1>2 DEF TypeOK, MarkRow, rowVars
<1>3. CASE NextTable
  BY <1>3, UnmarkedTyped DEF TypeOK, NextTable, rowVars, markVars, Rows
<1>4. CASE EndRiskSweep
  BY <1>4 DEF TypeOK, EndRiskSweep, IdleRiskSweep, rowVars, markVars, Times
<1>5. CASE RiskSweepThrows
  BY <1>5, SlaAssumption
     DEF TypeOK, RiskSweepThrows, Fail, IdleRiskSweep, rowVars, markVars, Times
<1> QED BY <1>1, <1>2, <1>3, <1>4, <1>5 DEF RiskSweepStep

LEMMA FailTyped == TypeOK /\ Fail => failures' \in 0..MaxFailures
BY SlaAssumption DEF TypeOK, Fail

LEMMA BreachSweepTyped ==
  ASSUME TypeOK, BreachSweepStep \/ BreachSweepFails
  PROVE  TypeOK'
<1> USE FailTyped
<1>1. CASE FetchItems
  <2>1. \A table \in {Rows, Approvals, Exceptions, {}} : Due(table) \subseteq Rows
    BY UnmarkedTyped DEF Rows
  <2> QED BY <1>1, <2>1 DEF TypeOK, FetchItems, rowVars, markVars
<1>2. CASE EmitEvents
  BY <1>2 DEF TypeOK, EmitEvents, BreachGoto, rowVars, markVars
<1>3. ASSUME NEW label, NEW table, NEW next,
             next \in {[breachSweep EXCEPT !.at = "exceptions"], IdleBreachSweep},
             MarkBreaches(label, table, next)
      PROVE  TypeOK'
  <2>1. breachSweep' \in [at : {"idle", "emit", "approvals", "exceptions"},
                          overdue : SUBSET Rows]
    BY <1>3 DEF TypeOK, MarkBreaches, IdleBreachSweep
  <2>2. sla_breached_at' \in [Rows -> Times]
    BY <1>3 DEF TypeOK, MarkBreaches, StoreMarks, Times
  <2>3. failures' \in 0..MaxFailures
    BY <1>3 DEF TypeOK, MarkBreaches
  <2> QED BY <1>3, <2>1, <2>2, <2>3 DEF TypeOK, MarkBreaches, rowVars
<1>4. CASE MarkApprovals \/ MarkExceptions
  BY <1>3, <1>4 DEF MarkApprovals, MarkExceptions
<1>5. CASE BreachSweepFails
  BY <1>5 DEF TypeOK, BreachSweepFails, IdleBreachSweep, rowVars, markVars
<1> QED BY <1>1, <1>2, <1>4, <1>5 DEF BreachSweepStep

LEMMA StepTyped == TypeOK /\ [Next]_vars => TypeOK'
<1> SUFFICES ASSUME TypeOK, [Next]_vars PROVE TypeOK'
  OBVIOUS
<1>1. CASE Tick \/ \E r \in Rows : OpenRow(r) \/ DecideRow(r)
  <2>1. CASE Tick
    BY <2>1 DEF TypeOK, Tick, rowVars, markVars
  <2> QED BY <1>1, <2>1, RowsTyped
<1>2. CASE UNCHANGED vars
  BY <1>2 DEF TypeOK, vars, rowVars, markVars
<1> QED BY <1>1, <1>2, RiskSweepTyped, BreachSweepTyped DEF Next

\* The columns of both tables, the sweeps and the clock keep their types.
THEOREM TypeCorrect == Spec => []TypeOK
<1>1. Init => TypeOK
  BY InitTyped
<1>2. TypeOK /\ [Next]_vars => TypeOK'
  BY StepTyped
<1> QED BY <1>1, <1>2, PTL DEF Spec

-----------------------------------------------------------------------------
LEMMA InitInv == Init => SlaInv
<1> SUFFICES ASSUME Init PROVE SlaInv
  OBVIOUS
<1>1. DecidedHaveTime /\ IdleRiskSweepIsEmpty /\ MarksAreRight /\ BreachIsTold
  BY DEF Init, DecidedHaveTime, IdleRiskSweepIsEmpty, MarksAreRight,
         BreachIsTold, IdleRiskSweep
<1>2. RiskSweepKnows /\ BreachSweepKnows /\ EventsBeforeMarks
  BY DEF Init, RiskSweepKnows, BreachSweepKnows, EventsBeforeMarks,
         IdleRiskSweep, IdleBreachSweep
<1> QED BY <1>1, <1>2, InitTyped DEF SlaInv

\* What is known of a row stays true: deadlines are fixed, and a decision
\* still to come bears a time that is not before what was known.
LEMMA MissedStays ==
  ASSUME SlaInv, [Next]_vars, NEW r \in Rows, NEW t \in Nat, t <= clock,
         MissedBy(r, t)
  PROVE  MissedBy(r, t)'
<1>1. status[r] # "absent" /\ sla_due_at[r] <= clock /\ clock \in Nat
      /\ sla_due_at[r] \in Nat
  BY DEF MissedBy, SlaInv, TypeOK
<1>2. ASSUME NEW q \in Rows, OpenRow(q) PROVE MissedBy(r, t)'
  <2>1. q # r
    BY <1>1, <1>2 DEF OpenRow
  <2> QED BY <1>2, <2>1 DEF OpenRow, MissedBy, SlaInv, TypeOK
<1>3. ASSUME NEW q \in Rows, DecideRow(q) PROVE MissedBy(r, t)'
  BY <1>1, <1>3 DEF DecideRow, MissedBy, SlaInv, TypeOK
<1>4. CASE UNCHANGED rowVars
  BY <1>4 DEF MissedBy, rowVars
<1>5. CASE Tick \/ RiskSweepStep \/ RiskSweepThrows \/ BreachSweepStep
           \/ BreachSweepFails \/ UNCHANGED vars
  BY <1>4, <1>5
     DEF Tick, RiskSweepStep, StartRiskSweep, MarkRow, NextTable, EndRiskSweep,
         RiskSweepThrows, BreachSweepStep, FetchItems, EmitEvents, MarkApprovals,
         MarkExceptions, MarkBreaches, BreachSweepFails, vars, rowVars
<1> QED BY <1>2, <1>3, <1>5 DEF Next

LEMMA ClockAdvances == TypeOK /\ [Next]_vars => clock <= clock' /\ clock' \in Nat
BY DEF TypeOK, Next, Tick, OpenRow, DecideRow, RiskSweepStep, StartRiskSweep,
       MarkRow, NextTable, EndRiskSweep, RiskSweepThrows, BreachSweepStep,
       FetchItems, EmitEvents, MarkApprovals, MarkExceptions, MarkBreaches,
       BreachSweepFails, vars

LEMMA DecidedHaveTimeStep == SlaInv /\ [Next]_vars => DecidedHaveTime'
<1> SUFFICES ASSUME SlaInv, [Next]_vars PROVE DecidedHaveTime'
  OBVIOUS
<1>1. ASSUME NEW q \in Rows, OpenRow(q) \/ DecideRow(q) PROVE DecidedHaveTime'
  BY <1>1 DEF OpenRow, DecideRow, DecidedHaveTime, SlaInv, TypeOK
<1>2. CASE UNCHANGED rowVars
  BY <1>2 DEF DecidedHaveTime, SlaInv, rowVars
<1>3. CASE Tick \/ RiskSweepStep \/ RiskSweepThrows \/ BreachSweepStep
           \/ BreachSweepFails \/ UNCHANGED vars
  BY <1>2, <1>3
     DEF Tick, RiskSweepStep, StartRiskSweep, MarkRow, NextTable, EndRiskSweep,
         RiskSweepThrows, BreachSweepStep, FetchItems, EmitEvents, MarkApprovals,
         MarkExceptions, MarkBreaches, BreachSweepFails, vars, rowVars
<1> QED BY <1>1, <1>3 DEF Next

\* A selected row is waiting, so it is undecided, and its deadline is over.
LEMMA SelectedAreMissed ==
  ASSUME SlaInv, NEW table \in SUBSET Rows, NEW t \in Nat, t <= clock
  PROVE  /\ \A r \in Unmarked(table, t) : MissedBy(r, t)
         /\ \A r \in Due(table) : MissedBy(r, clock)
BY DEF SlaInv, TypeOK, DecidedHaveTime, Unmarked, Due, MissedBy

LEMMA RiskSweepKnowsStep ==
  SlaInv /\ [Next]_vars => RiskSweepKnows' /\ IdleRiskSweepIsEmpty'
<1> SUFFICES ASSUME SlaInv, [Next]_vars
             PROVE  RiskSweepKnows' /\ IdleRiskSweepIsEmpty'
  OBVIOUS
<1>1. /\ riskSweep \in [at : {"idle", "approvals", "exceptions"},
                        now : Times, todo : SUBSET Rows]
      /\ clock \in Nat /\ clock <= clock' /\ clock' \in Nat
  BY ClockAdvances DEF SlaInv, TypeOK
<1>2. CASE UNCHANGED riskSweep
  BY <1>1, <1>2, MissedStays DEF SlaInv, RiskSweepKnows, IdleRiskSweepIsEmpty
<1>3. CASE riskSweep' = IdleRiskSweep
  BY <1>3 DEF RiskSweepKnows, IdleRiskSweepIsEmpty, IdleRiskSweep
<1>4. CASE StartRiskSweep
  <2>1. \A r \in Unmarked(Approvals, clock) : MissedBy(r, clock)
    <3>1. Approvals \in SUBSET Rows /\ clock <= clock
      BY <1>1 DEF Rows
    <3> QED BY <1>1, <3>1, SelectedAreMissed
  <2>2. \A r \in Unmarked(Approvals, clock) : MissedBy(r, clock)'
    BY <1>1, <1>4, <2>1 DEF StartRiskSweep, MissedBy, rowVars
  <2> QED BY <1>1, <1>4, <2>2
          DEF StartRiskSweep, RiskSweepKnows, IdleRiskSweepIsEmpty, MissedBy, rowVars
<1>5. ASSUME NEW q \in Rows, MarkRow(q)
      PROVE  RiskSweepKnows' /\ IdleRiskSweepIsEmpty'
  <2>1. /\ riskSweep'.at = riskSweep.at /\ riskSweep.at # "idle"
        /\ riskSweep'.now = riskSweep.now
        /\ riskSweep'.todo \subseteq riskSweep.todo
    BY <1>1, <1>5 DEF MarkRow, SlaInv, IdleRiskSweepIsEmpty
  <2> QED BY <1>1, <2>1, MissedStays
          DEF SlaInv, RiskSweepKnows, IdleRiskSweepIsEmpty
<1>6. CASE NextTable
  <2>1. riskSweep.now \in Nat /\ riskSweep.now <= clock
    BY <1>6 DEF NextTable, SlaInv, RiskSweepKnows
  <2>2. \A r \in Unmarked(Exceptions, riskSweep.now) : MissedBy(r, riskSweep.now)
    BY <2>1, SelectedAreMissed DEF Rows
  <2>3. /\ riskSweep'.at = "exceptions" /\ riskSweep'.now = riskSweep.now
        /\ riskSweep'.todo = Unmarked(Exceptions, riskSweep.now)
        /\ UNCHANGED <<clock, status, sla_due_at, decided_at>>
    BY <1>1, <1>6 DEF NextTable, rowVars
  <2> QED BY <2>1, <2>2, <2>3
          DEF RiskSweepKnows, IdleRiskSweepIsEmpty, MissedBy
<1>7. CASE EndRiskSweep \/ RiskSweepThrows
  BY <1>3, <1>7 DEF EndRiskSweep, RiskSweepThrows
<1>8. ASSUME NEW q \in Rows, OpenRow(q) \/ DecideRow(q)
      PROVE  UNCHANGED riskSweep
  BY <1>8 DEF OpenRow, DecideRow
<1>9. CASE Tick \/ BreachSweepStep \/ BreachSweepFails \/ UNCHANGED vars
  BY <1>2, <1>9
     DEF Tick, BreachSweepStep, FetchItems, EmitEvents, MarkApprovals,
         MarkExceptions, MarkBreaches, BreachSweepFails, vars
<1> QED BY <1>2, <1>4, <1>5, <1>6, <1>7, <1>8, <1>9 DEF Next, RiskSweepStep

LEMMA BreachSweepKnowsStep ==
  SlaInv /\ [Next]_vars => BreachSweepKnows' /\ EventsBeforeMarks'
<1> SUFFICES ASSUME SlaInv, [Next]_vars
             PROVE  BreachSweepKnows' /\ EventsBeforeMarks'
  OBVIOUS
<1>1. /\ breachSweep \in [at : {"idle", "emit", "approvals", "exceptions"},
                          overdue : SUBSET Rows]
      /\ clock \in Nat /\ clock <= clock' /\ clock' \in Nat
  BY ClockAdvances DEF SlaInv, TypeOK
<1>2. ASSUME NEW r \in Rows, MissedBy(r, clock) PROVE MissedBy(r, clock)'
  <2>1. MissedBy(r, clock)' <=> /\ status'[r] # "absent"
                                /\ sla_due_at'[r] <= clock'
                                /\ decided_at'[r] # Never
                                     => sla_due_at'[r] <= decided_at'[r]
    BY DEF MissedBy
  <2>2. /\ status'[r] # "absent" /\ sla_due_at'[r] <= clock
        /\ decided_at'[r] # Never => sla_due_at'[r] <= decided_at'[r]
    <3>1. \A u \in Nat : u <= clock /\ MissedBy(r, u) =>
            /\ status'[r] # "absent" /\ sla_due_at'[r] <= u
            /\ decided_at'[r] # Never => sla_due_at'[r] <= decided_at'[r]
      <4> TAKE u \in Nat
      <4> HAVE u <= clock /\ MissedBy(r, u)
      <4>1. MissedBy(r, u)'
        BY MissedStays
      <4> QED BY <4>1 DEF MissedBy
    <3> QED BY <1>1, <1>2, <3>1
  <2>3. sla_due_at'[r] \in Nat
    BY StepTyped DEF SlaInv, TypeOK
  <2> QED BY <1>1, <2>1, <2>2, <2>3
<1>3. CASE UNCHANGED <<breachSweep, announced>>
  BY <1>1, <1>2, <1>3 DEF SlaInv, BreachSweepKnows, EventsBeforeMarks
<1>4. CASE breachSweep' = IdleBreachSweep
  BY <1>4 DEF BreachSweepKnows, EventsBeforeMarks, IdleBreachSweep
<1>5. CASE FetchItems
  <2>1. PICK table \in SUBSET Rows :
          breachSweep' = [at |-> "emit", overdue |-> Due(table)]
    BY <1>5 DEF FetchItems, Rows
  <2>2. \A r \in Due(table) : MissedBy(r, clock)
    <3>1. clock <= clock
      BY <1>1
    <3> QED BY <1>1, <3>1, SelectedAreMissed
  <2>3. Due(table) \subseteq Rows
    BY <2>1, UnmarkedTyped
  <2> QED BY <1>2, <2>1, <2>2, <2>3 DEF BreachSweepKnows, EventsBeforeMarks
<1>6. CASE EmitEvents
  <2>1. /\ breachSweep'.overdue = breachSweep.overdue
        /\ announced' = announced \cup breachSweep.overdue
    BY <1>1, <1>6 DEF EmitEvents, BreachGoto
  <2> QED BY <1>1, <1>2, <2>1 DEF SlaInv, BreachSweepKnows, EventsBeforeMarks
<1>7. ASSUME NEW label, NEW table, NEW next, MarkBreaches(label, table, next),
             label \in {"approvals", "exceptions"},
             next \in {[breachSweep EXCEPT !.at = "exceptions"], IdleBreachSweep}
      PROVE  BreachSweepKnows' /\ EventsBeforeMarks'
  <2>1. /\ breachSweep.at \in {"approvals", "exceptions"}
        /\ announced' = announced
        /\ \/ breachSweep'.overdue = breachSweep.overdue
           \/ breachSweep' = IdleBreachSweep
    BY <1>1, <1>7 DEF MarkBreaches
  <2>2. breachSweep.overdue \subseteq announced
    BY <2>1 DEF SlaInv, EventsBeforeMarks
  <2>3. CASE breachSweep'.overdue = breachSweep.overdue
    BY <1>1, <1>2, <2>1, <2>2, <2>3 DEF SlaInv, BreachSweepKnows, EventsBeforeMarks
  <2> QED BY <1>4, <2>1, <2>3
<1>8. CASE MarkApprovals \/ MarkExceptions
  BY <1>7, <1>8 DEF MarkApprovals, MarkExceptions
<1>9. CASE BreachSweepFails
  BY <1>4, <1>9 DEF BreachSweepFails
<1>10. ASSUME NEW q \in Rows, OpenRow(q) \/ DecideRow(q)
       PROVE  UNCHANGED <<breachSweep, announced>>
  BY <1>10 DEF OpenRow, DecideRow
<1>11. CASE Tick \/ RiskSweepStep \/ RiskSweepThrows \/ UNCHANGED vars
  BY <1>3, <1>11
     DEF Tick, RiskSweepStep, StartRiskSweep, MarkRow, NextTable, EndRiskSweep,
         RiskSweepThrows, vars
<1> QED BY <1>3, <1>5, <1>6, <1>8, <1>9, <1>10, <1>11 DEF Next, BreachSweepStep

LEMMA MarksAreRightStep == SlaInv /\ [Next]_vars => MarksAreRight' /\ BreachIsTold'
<1> SUFFICES ASSUME SlaInv, [Next]_vars, NEW r \in Rows, sla_breached_at'[r] # Never
             PROVE  /\ sla_breached_at'[r] <= clock' /\ MissedBy(r, sla_breached_at[r])'
                    /\ escalation_level'[r] = 1 \/ r \in announced'
  BY DEF MarksAreRight, BreachIsTold
<1> DEFINE Goal == /\ sla_breached_at'[r] <= clock' /\ MissedBy(r, sla_breached_at[r])'
                   /\ escalation_level'[r] = 1 \/ r \in announced'
<1>1. /\ clock \in Nat /\ clock <= clock' /\ clock' \in Nat
      /\ sla_breached_at \in [Rows -> Times] /\ escalation_level \in [Rows -> {0, 1}]
      /\ sla_due_at \in [Rows -> Nat]
  BY ClockAdvances DEF SlaInv, TypeOK
\* A mark that was there.
<1>2. ASSUME sla_breached_at'[r] = sla_breached_at[r],
             escalation_level'[r] = escalation_level[r] \/ escalation_level'[r] = 1,
             announced \subseteq announced'
      PROVE  Goal
  <2> DEFINE t == sla_breached_at[r]
  <2>1. t \in Nat /\ t <= clock /\ MissedBy(r, t)
    BY <1>1, <1>2 DEF SlaInv, MarksAreRight, Times
  <2>2. MissedBy(r, sla_breached_at[r])'
    <3>1. \A u \in Nat : u <= clock /\ MissedBy(r, u) =>
            /\ status'[r] # "absent" /\ sla_due_at'[r] <= u
            /\ decided_at'[r] # Never => sla_due_at'[r] <= decided_at'[r]
      <4> TAKE u \in Nat
      <4> HAVE u <= clock /\ MissedBy(r, u)
      <4>1. MissedBy(r, u)'
        BY MissedStays
      <4> QED BY <4>1 DEF MissedBy
    <3> QED BY <1>2, <2>1, <3>1 DEF MissedBy
  <2>3. escalation_level[r] = 1 \/ r \in announced
    BY <1>2 DEF SlaInv, BreachIsTold
  <2> QED BY <1>1, <1>2, <2>1, <2>2, <2>3
<1>3. ASSUME NEW q \in Rows, OpenRow(q) \/ DecideRow(q) PROVE Goal
  BY <1>2, <1>3 DEF OpenRow, DecideRow, markVars
<1>4. ASSUME NEW q \in Rows, MarkRow(q) PROVE Goal
  <2>1. CASE q # r
    BY <1>1, <1>2, <1>4, <2>1 DEF MarkRow
  <2>2. CASE q = r
    <3>1. /\ sla_breached_at'[r] = riskSweep.now /\ escalation_level'[r] = 1
          /\ UNCHANGED <<clock, status, sla_due_at, decided_at>>
      BY <1>1, <1>4, <2>2 DEF MarkRow, rowVars
    <3>2. /\ riskSweep.now \in Nat /\ riskSweep.now <= clock
          /\ MissedBy(r, riskSweep.now)
      BY <1>4, <2>2 DEF MarkRow, SlaInv, IdleRiskSweepIsEmpty, RiskSweepKnows
    <3> QED BY <1>1, <3>1, <3>2 DEF MissedBy
  <2> QED BY <2>1, <2>2
<1>5. ASSUME NEW label, NEW table, NEW next, MarkBreaches(label, table, next),
             label \in {"approvals", "exceptions"}
      PROVE  Goal
  <2>1. UNCHANGED <<clock, status, sla_due_at, decided_at, escalation_level, announced>>
    BY <1>5 DEF MarkBreaches, rowVars
  <2>2. CASE sla_breached_at'[r] = sla_breached_at[r]
    BY <1>2, <2>1, <2>2
  <2>3. CASE sla_breached_at'[r] # sla_breached_at[r]
    <3>1. r \in breachSweep.overdue /\ sla_breached_at'[r] = clock
      BY <1>1, <1>5, <2>3 DEF MarkBreaches, StoreMarks
    <3>2. MissedBy(r, clock) /\ r \in announced
      BY <1>5, <3>1 DEF MarkBreaches, SlaInv, BreachSweepKnows, EventsBeforeMarks
    <3> QED BY <1>1, <2>1, <3>1, <3>2 DEF MissedBy
  <2> QED BY <2>2, <2>3
<1>6. CASE MarkApprovals \/ MarkExceptions
  BY <1>5, <1>6 DEF MarkApprovals, MarkExceptions
<1>7. CASE UNCHANGED markVars /\ announced \subseteq announced'
  BY <1>2, <1>7 DEF markVars
<1>8. CASE \/ Tick \/ StartRiskSweep \/ NextTable \/ EndRiskSweep \/ RiskSweepThrows
           \/ FetchItems \/ EmitEvents \/ BreachSweepFails \/ UNCHANGED vars
  BY <1>7, <1>8
     DEF Tick, StartRiskSweep, NextTable, EndRiskSweep, RiskSweepThrows,
         FetchItems, EmitEvents, BreachSweepFails, vars
<1> QED BY <1>3, <1>4, <1>6, <1>8 DEF Next, RiskSweepStep, BreachSweepStep

LEMMA SlaInvStep == SlaInv /\ [Next]_vars => SlaInv'
BY StepTyped, DecidedHaveTimeStep, RiskSweepKnowsStep, BreachSweepKnowsStep,
   MarksAreRightStep
   DEF SlaInv

LEMMA Invariance == Spec => []SlaInv
<1>1. Init => SlaInv
  BY InitInv
<1>2. SlaInv /\ [Next]_vars => SlaInv'
  BY SlaInvStep
<1> QED BY <1>1, <1>2, PTL DEF Spec

\* Whatever is decided between a sweep's read and its write, and however the
\* two sweeps interleave and fail, only rows that missed their deadline bear
\* a mark, and the mark is not before the deadline.
THEOREM MarksAreDeserved == Spec => []MarkedWasOverdue
<1>1. SlaInv => MarkedWasOverdue
  <2> SUFFICES ASSUME SlaInv, NEW r \in Rows, sla_breached_at[r] # Never
               PROVE  /\ status[r] # "absent"
                      /\ sla_due_at[r] <= sla_breached_at[r]
                      /\ sla_breached_at[r] <= clock
                      /\ decided_at[r] # Never => sla_due_at[r] <= decided_at[r]
    BY DEF MarkedWasOverdue
  <2> QED BY DEF SlaInv, MarksAreRight, MissedBy
<1>2. Spec => []SlaInv
  BY Invariance
<1> QED BY <1>1, <1>2, PTL

\* No sweep marks a breach in silence.
THEOREM BreachesAreTold == Spec => []BreachIsTold
<1>1. SlaInv => BreachIsTold
  BY DEF SlaInv
<1>2. Spec => []SlaInv
  BY Invariance
<1> QED BY <1>1, <1>2, PTL
-----------------------------------------------------------------------------
\* While a run goes on no row becomes one that the run should have selected: a
\* deadline that is set is not before the time of the run, and a mark stays.
LEMMA NoneIsAdded ==
  ASSUME SlaInv, [Next]_vars, riskSweep.at # "idle", NEW r \in Rows,
         MissedAt(r, riskSweep.now)'
  PROVE  MissedAt(r, riskSweep.now')
<1> DEFINE t == riskSweep'.now
<1>1. status'[r] = "waiting" /\ sla_due_at'[r] < t /\ sla_breached_at'[r] = Never
  BY DEF MissedAt
<1>2. /\ riskSweep.now \in Nat /\ riskSweep.now <= clock /\ clock \in Nat
      /\ riskSweep \in [at : {"idle", "approvals", "exceptions"},
                        now : Times, todo : SUBSET Rows]
      /\ sla_breached_at \in [Rows -> Times] /\ sla_due_at \in [Rows -> Nat]
      /\ status \in [Rows -> {"absent", "waiting", "decided"}]
  BY DEF SlaInv, TypeOK, RiskSweepKnows
<1>3. CASE UNCHANGED <<rowVars, sla_breached_at>>
  BY <1>1, <1>3 DEF MissedAt, rowVars
<1>4. ASSUME NEW q \in Rows, OpenRow(q) PROVE MissedAt(r, t)
  <2>1. CASE q = r
    <3>1. sla_due_at'[r] = clock + SlaHours(r) /\ t = riskSweep.now
      BY <1>2, <1>4, <2>1 DEF OpenRow
    <3>2. SlaHours(r) \in Nat
      BY SlaAssumption DEF SlaHours
    <3> QED BY <1>1, <1>2, <3>1, <3>2
  <2>2. CASE q # r
    BY <1>1, <1>2, <1>4, <2>2 DEF OpenRow, MissedAt, markVars
  <2> QED BY <2>1, <2>2
<1>5. ASSUME NEW q \in Rows, DecideRow(q) PROVE MissedAt(r, t)
  BY <1>1, <1>2, <1>5 DEF DecideRow, MissedAt, markVars
<1>6. ASSUME NEW q \in Rows, MarkRow(q) PROVE MissedAt(r, t)
  <2>1. sla_breached_at'[q] = riskSweep.now /\ riskSweep.now # Never
    BY <1>2, <1>6, TimesAreIntegers DEF MarkRow
  <2>2. q # r
    BY <1>1, <2>1
  <2> QED BY <1>1, <1>2, <1>6, <2>2 DEF MarkRow, MissedAt, rowVars
<1>7. ASSUME NEW label, NEW table, NEW next, MarkBreaches(label, table, next)
      PROVE  MissedAt(r, t)
  <2>1. sla_breached_at[r] = Never
    BY <1>1, <1>7 DEF MarkBreaches, StoreMarks
  <2> QED BY <1>1, <1>7, <2>1 DEF MarkBreaches, MissedAt, rowVars
<1>8. CASE MarkApprovals \/ MarkExceptions
  BY <1>7, <1>8 DEF MarkApprovals, MarkExceptions
<1>9. CASE \/ Tick \/ StartRiskSweep \/ NextTable \/ EndRiskSweep \/ RiskSweepThrows
           \/ FetchItems \/ EmitEvents \/ BreachSweepFails \/ UNCHANGED vars
  BY <1>3, <1>9
     DEF Tick, StartRiskSweep, NextTable, EndRiskSweep, RiskSweepThrows,
         FetchItems, EmitEvents, BreachSweepFails, vars, markVars
<1> QED BY <1>4, <1>5, <1>6, <1>8, <1>9 DEF Next, RiskSweepStep, BreachSweepStep

LEMMA SweepMissesNothingStep ==
  SlaInv /\ SweepMissesNothing /\ [Next]_vars => SweepMissesNothing'
<1> SUFFICES ASSUME SlaInv, SweepMissesNothing, [Next]_vars
             PROVE  SweepMissesNothing'
  OBVIOUS
<1>1. /\ riskSweep \in [at : {"idle", "approvals", "exceptions"},
                        now : Times, todo : SUBSET Rows]
      /\ Approvals \subseteq Rows /\ Exceptions \subseteq Rows
      /\ Approvals \cap Exceptions = {}
      /\ clock \in Nat /\ sla_breached_at \in [Rows -> Times]
  BY SlaAssumption DEF SlaInv, TypeOK, Rows
<1>2. ASSUME riskSweep'.at = "idle" PROVE SweepMissesNothing'
  BY <1>2 DEF SweepMissesNothing
<1>3. CASE UNCHANGED riskSweep
  <2>1. ASSUME riskSweep.at # "idle", NEW r \in Rows, MissedAt(r, riskSweep.now)'
        PROVE  MissedAt(r, riskSweep.now)
    BY <1>3, <2>1, NoneIsAdded
  <2> QED BY <1>1, <1>3, <2>1 DEF SweepMissesNothing
<1>4. CASE StartRiskSweep
  BY <1>1, <1>4
     DEF StartRiskSweep, SweepMissesNothing, MissedAt, Unmarked, rowVars, markVars
<1>5. ASSUME NEW q \in Rows, MarkRow(q) PROVE SweepMissesNothing'
  <2>1. /\ riskSweep.at # "idle" /\ riskSweep.now \in Nat
        /\ riskSweep'.at = riskSweep.at /\ riskSweep'.now = riskSweep.now
        /\ riskSweep'.todo = riskSweep.todo \ {q}
        /\ sla_breached_at'[q] # Never
    BY <1>1, <1>5, TimesAreIntegers
       DEF MarkRow, SlaInv, IdleRiskSweepIsEmpty, RiskSweepKnows
  <2>2. ASSUME NEW r \in Rows, MissedAt(r, riskSweep.now)'
        PROVE  MissedAt(r, riskSweep.now) /\ r # q
    BY <2>1, <2>2, NoneIsAdded DEF MissedAt
  <2> QED BY <1>1, <2>1, <2>2 DEF SweepMissesNothing
<1>6. CASE NextTable
  BY <1>1, <1>6
     DEF NextTable, SweepMissesNothing, MissedAt, Unmarked, rowVars, markVars
<1>7. CASE EndRiskSweep \/ RiskSweepThrows
  BY <1>2, <1>7 DEF EndRiskSweep, RiskSweepThrows, IdleRiskSweep
<1>8. ASSUME NEW q \in Rows, OpenRow(q) \/ DecideRow(q) PROVE UNCHANGED riskSweep
  BY <1>8 DEF OpenRow, DecideRow
<1>9. CASE Tick \/ BreachSweepStep \/ BreachSweepFails \/ UNCHANGED vars
  BY <1>3, <1>9
     DEF Tick, BreachSweepStep, FetchItems, EmitEvents, MarkApprovals,
         MarkExceptions, MarkBreaches, BreachSweepFails, vars
<1> QED BY <1>3, <1>4, <1>5, <1>6, <1>7, <1>8, <1>9 DEF Next, RiskSweepStep

\* Whatever happens to the tables while a run of the risk sweep works off its
\* selection, nothing that was overdue at its time is left out.
THEOREM NothingIsMissed == Spec => []SweepMissesNothing
<1>1. Init => SweepMissesNothing
  BY DEF Init, IdleRiskSweep, SweepMissesNothing
<1> QED BY <1>1, SweepMissesNothingStep, Invariance, PTL DEF Spec

\* A run that ends by itself leaves no row unmarked that was overdue when it
\* began and still waits: the step that ends it finds nothing in both tables.
THEOREM EndedSweepMarkedAll ==
  Spec => [][EndRiskSweep => \A r \in Rows : ~ MissedAt(r, riskSweep.now)]_vars
<1>1. SweepMissesNothing /\ [Next]_vars
        => [EndRiskSweep => \A r \in Rows : ~ MissedAt(r, riskSweep.now)]_vars
  BY DEF SweepMissesNothing, EndRiskSweep, Rows
<1> QED BY <1>1, NothingIsMissed, PTL DEF Spec

\* A mark is never withdrawn and an escalation never lowered, by either sweep
\* or by the decision of the row.
THEOREM MarksStay ==
  Spec => [][\A r \in Rows :
               /\ sla_breached_at[r] # Never => sla_breached_at'[r] # Never
               /\ escalation_level[r] <= escalation_level'[r]]_vars
<1> DEFINE Stay(r) == /\ sla_breached_at[r] # Never => sla_breached_at'[r] # Never
                      /\ escalation_level[r] <= escalation_level'[r]
<1>1. ASSUME SlaInv, [Next]_vars, NEW r \in Rows PROVE Stay(r)
  <2>1. /\ sla_breached_at \in [Rows -> Times] /\ clock \in Nat
        /\ escalation_level \in [Rows -> {0, 1}]
    BY <1>1 DEF SlaInv, TypeOK
  <2>2. CASE UNCHANGED markVars
    BY <2>1, <2>2 DEF markVars
  <2>3. ASSUME NEW q \in Rows, MarkRow(q) PROVE Stay(r)
    <3>1. riskSweep.now \in Nat
      BY <1>1, <2>3 DEF MarkRow, SlaInv, IdleRiskSweepIsEmpty, RiskSweepKnows
    <3> QED BY <2>1, <2>3, <3>1, TimesAreIntegers DEF MarkRow
  <2>4. ASSUME NEW label, NEW table, NEW next, MarkBreaches(label, table, next)
        PROVE  Stay(r)
    BY <2>1, <2>4 DEF MarkBreaches, StoreMarks
  <2>5. CASE MarkApprovals \/ MarkExceptions
    BY <2>4, <2>5 DEF MarkApprovals, MarkExceptions
  <2>6. ASSUME NEW q \in Rows, OpenRow(q) \/ DecideRow(q) PROVE UNCHANGED markVars
    BY <2>6 DEF OpenRow, DecideRow
  <2>7. CASE \/ Tick \/ StartRiskSweep \/ NextTable \/ EndRiskSweep
             \/ RiskSweepThrows \/ FetchItems \/ EmitEvents \/ BreachSweepFails
             \/ UNCHANGED vars
    BY <2>2, <2>7
       DEF Tick, StartRiskSweep, NextTable, EndRiskSweep, RiskSweepThrows,
           FetchItems, EmitEvents, BreachSweepFails, vars
  <2> QED BY <1>1, <2>2, <2>3, <2>5, <2>6, <2>7
          DEF Next, RiskSweepStep, BreachSweepStep
<1>2. SlaInv /\ [Next]_vars => [\A r \in Rows : Stay(r)]_vars
  BY <1>1
<1> QED BY <1>2, Invariance, PTL DEF Spec
=============================================================================
