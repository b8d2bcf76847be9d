----------------------- MODULE VoiceConfirmation_proofs -----------------------
(***************************************************************************)
(* Theorems about spoken confirmations, for any number of commands,        *)
(* conversations and concurrent calls, and any limit of the lookback.      *)
(***************************************************************************)
EXTENDS VoiceConfirmation, FiniteSetTheorems, WellFoundedInduction, TLAPS

\* Where a call has a command, and what it has done to it.
CallShape ==
  \A k \in Calls :
    /\ call[k].at \in {"challenge", "check", "dispatch", "confirmation", "command"}
         => call[k].command \in Commands
    /\ call[k].at \in {"check", "dispatch", "confirmation", "command"}
         => confirmation[call[k].command] # "none"
    /\ call[k].sent => call[k].at \in {"confirmation", "command"}
    /\ call[k].landed => call[k].at = "command"

\* The challenge of a command is written once, by the call that inserted it.
ChallengeIsOwn ==
  /\ \A k \in Calls :
       call[k].at = "challenge" =>
         /\ command[call[k].command] = "awaiting_confirmation"
         /\ confirmation[call[k].command] = "none"
  /\ \A k1, k2 \in Calls :
       /\ call[k1].at = "challenge" /\ call[k2].at = "challenge"
       /\ call[k1].command = call[k2].command
       => k1 = k2

\* Nothing happens to a command before its challenge.
UntouchedBefore ==
  \A c \in Commands :
    /\ command[c] = "absent" => confirmation[c] = "none"
    /\ confirmation[c] = "none" => dispatched[c] = 0 /\ lapsed[c] = 0

\* Both rows of a command still say that it waits for an answer.
Pending(c) == command[c] = "awaiting_confirmation" /\ confirmation[c] = "pending"

\* The calls that have dispatched a command and written no row yet.
Sent(c) == {k \in Calls : call[k].command = c /\ call[k].sent /\ ~call[k].landed}

\* The calls that may still dispatch a command.
Held(c) ==
  {k \in Calls : \/ call[k].at \in {"check", "dispatch"} /\ call[k].command = c
                 \/ call[k].at = "look" /\ c \in call[k].todo
                      /\ confirmation[c] = "pending"}

\* While a command is pending every dispatch belongs to a call that has still
\* to write, or to one that never will.  Afterwards no call joins those that
\* hold the command.
Counted(c) ==
  /\ Pending(c) => dispatched[c] = Cardinality(Sent(c)) + lapsed[c]
  /\ ~Pending(c) =>
       dispatched[c] + Cardinality(Held(c)) <= Cardinality(Calls) + lapsed[c]

\* The inductive invariant.
VoiceInv ==
  /\ TypeOK
  /\ CallShape
  /\ ChallengeIsOwn
  /\ UntouchedBefore
  /\ \A c \in Commands : Counted(c)

-----------------------------------------------------------------------------
\* Type correctness.
CallRecords ==
  [at : {"idle", "challenge", "list", "look", "check", "dispatch",
         "confirmation", "command"},
   to : Conversations \cup {Nobody}, todo : SUBSET Commands,
   command : Commands \cup {NoCommand},
   outcome : Refusals \cup Answered, sent : BOOLEAN, landed : BOOLEAN]

LEMMA IdleTyped == IdleCall \in CallRecords
BY DEF IdleCall, CallRecords, NoOutcome, Refusals

LEMMA OutcomeWords ==
  ASSUME NEW o \in Refusals \cup Answered
  PROVE  /\ o.confirmation \in {"confirmed", "rejected", "expired"}
         /\ o.command \in {"executed", "clarification_requested", "denied",
                            "failed"}
BY DEF Refusals, Answered, Outcome

LEMMA LostTyped == TypeOK /\ Lose => lost' \in 0..MaxLost
BY VoiceAssumption DEF TypeOK, Lose

LEMMA InitTyped == Init => TypeOK
BY IdleTyped, VoiceAssumption DEF Init, TypeOK, CallRecords

LEMMA CallStepTyped ==
  ASSUME TypeOK, CallShape, NEW k \in Calls, CallStep(k)
  PROVE  TypeOK'
<1> USE IdleTyped, LostTyped, OutcomeWords
<1>1. /\ call \in [Calls -> CallRecords] /\ call[k] \in CallRecords
      /\ call[k].outcome \in Refusals \cup Answered
  BY DEF TypeOK, CallRecords
<1>2. ASSUME NEW v \in Conversations, NEW c \in Commands, InsertCommand(k, c, v)
      PROVE  TypeOK'
  <2>1. [IdleCall EXCEPT !.at = "challenge", !.command = c] \in CallRecords
    BY DEF CallRecords
  <2> QED BY <1>1, <1>2, <2>1 DEF TypeOK, InsertCommand, CallRecords
<1>3. CASE InsertConfirmation(k)
  BY <1>1, <1>3 DEF TypeOK, InsertConfirmation, CallRecords
<1>4. ASSUME NEW v \in Conversations, Hear(k, v) PROVE TypeOK'
  <2>1. [IdleCall EXCEPT !.at = "list", !.to = v] \in CallRecords
    BY DEF CallRecords
  <2> QED BY <1>1, <1>4, <2>1 DEF TypeOK, Hear, CallRecords, rowVars
<1>5. CASE ListCommands(k)
  <2>1. Newest(Awaiting(call[k].to)) \in SUBSET Commands
    BY DEF Newest, Awaiting
  <2>2. [call[k] EXCEPT !.at = "look", !.todo = Newest(Awaiting(call[k].to))]
          \in CallRecords
    BY <1>1, <2>1 DEF CallRecords
  <2>3. call' = [call EXCEPT ![k] = [call[k] EXCEPT !.at = "look",
                                       !.todo = Newest(Awaiting(call[k].to))]]
    BY <1>1, <1>5 DEF ListCommands
  <2> QED BY <1>1, <1>5, <2>2, <2>3 DEF TypeOK, ListCommands, CallRecords, rowVars
<1>6. CASE LookAtNewest(k)
  <2>1. call' \in [Calls -> CallRecords]
    <3>1. CASE call' = [call EXCEPT ![k] = IdleCall]
      BY <1>1, <3>1
    <3>2. ASSUME NEW c \in call[k].todo,
                 call' = [call EXCEPT ![k].at = "check", ![k].command = c,
                                      ![k].todo = {}]
          PROVE  call' \in [Calls -> CallRecords]
      BY <1>1, <3>2 DEF CallRecords
    <3>3. ASSUME NEW c \in call[k].todo,
                 call' = [call EXCEPT ![k].todo = @ \ {c}]
          PROVE  call' \in [Calls -> CallRecords]
      BY <1>1, <3>3 DEF CallRecords
    <3> QED BY <1>6, <3>1, <3>2, <3>3 DEF LookAtNewest
  <2> QED BY <1>6, <2>1 DEF TypeOK, LookAtNewest, CallRecords, rowVars
<1>7. CASE Check(k)
  <2>1. call' \in [Calls -> CallRecords]
    BY <1>1, <1>7 DEF Check, CallRecords
  <2> QED BY <1>7, <2>1 DEF TypeOK, Check, CallRecords, rowVars
<1>8. ASSUME NEW sent \in BOOLEAN, NEW outcome \in Answered,
             Dispatch(k, sent, outcome)
      PROVE  TypeOK'
  <2>1. call' \in [Calls -> CallRecords]
    BY <1>1, <1>8 DEF Dispatch, CallRecords
  <2>2. dispatched' \in [Commands -> Nat]
    <3>1. call[k].command \in Commands
      BY <1>8 DEF CallShape, Dispatch
    <3>2. dispatched[call[k].command] + 1 \in Nat
      BY <3>1 DEF TypeOK
    <3> QED BY <1>8, <3>1, <3>2 DEF TypeOK, Dispatch
  <2> QED BY <1>8, <2>1, <2>2 DEF TypeOK, Dispatch, CallRecords, rowVars
<1>9. CASE WriteConfirmation(k)
  <2>1. call' \in [Calls -> CallRecords]
    BY <1>1, <1>9 DEF WriteConfirmation, CallRecords
  <2>2. confirmation' \in [Commands -> {"none", "pending", "confirmed", "rejected",
                                        "expired"}]
    BY <1>1, <1>9 DEF TypeOK, WriteConfirmation
  <2> QED BY <1>9, <2>1, <2>2 DEF TypeOK, WriteConfirmation, CallRecords
<1>10. Lapse(k) => lapsed' \in [Commands -> Nat]
  <2>1. CASE call[k].sent
    <3>1. call[k].command \in Commands
      BY <2>1 DEF CallShape
    <3>2. lapsed[call[k].command] + 1 \in Nat
      BY <3>1 DEF TypeOK
    <3> QED BY <2>1, <3>1, <3>2 DEF TypeOK, Lapse
  <2>2. CASE ~call[k].sent
    BY <2>2 DEF TypeOK, Lapse
  <2> QED BY <2>1, <2>2
<1>11. CASE WriteCommand(k)
  <2>1. call' \in [Calls -> CallRecords]
    BY <1>1, <1>11 DEF WriteCommand
  <2>2. command' \in [Commands -> {"absent", "awaiting_confirmation", "executed",
                                   "clarification_requested", "denied", "failed"}]
    BY <1>1, <1>11 DEF TypeOK, WriteCommand
  <2> QED BY <1>10, <1>11, <2>1, <2>2 DEF TypeOK, WriteCommand, CallRecords
<1>12. CASE CallDies(k)
  <2>1. call' \in [Calls -> CallRecords]
    BY <1>1, <1>12 DEF CallDies
  <2> QED BY <1>10, <1>12, <2>1 DEF TypeOK, CallDies, CallRecords, rowVars
<1> QED BY <1>2, <1>3, <1>4, <1>5, <1>6, <1>7, <1>8, <1>9, <1>11, <1>12 DEF CallStep

-----------------------------------------------------------------------------
\* A step is a step of one call.
LEMMA OneCallMoves ==
  ASSUME TypeOK, NEW k \in Calls, CallStep(k), NEW j \in Calls, j # k
  PROVE  call'[j] = call[j]
<1>1. call \in [Calls -> CallRecords]
  BY DEF TypeOK, CallRecords
<1>2. ASSUME NEW r, call' = [call EXCEPT ![k] = r] PROVE call'[j] = call[j]
  BY <1>1, <1>2
<1>3. ASSUME NEW v \in Conversations, Hear(k, v) PROVE call'[j] = call[j]
  BY <1>2, <1>3 DEF Hear
<1>4. ASSUME NEW v \in Conversations, NEW c \in Commands, InsertCommand(k, c, v)
      PROVE  call'[j] = call[j]
  BY <1>2, <1>4 DEF InsertCommand
<1>5. CASE InsertConfirmation(k) \/ WriteCommand(k) \/ CallDies(k)
  BY <1>2, <1>5 DEF InsertConfirmation, WriteCommand, CallDies
<1>6. CASE ListCommands(k)
  BY <1>1, <1>6 DEF ListCommands
<1>7. CASE LookAtNewest(k)
  BY <1>1, <1>7 DEF LookAtNewest
<1>8. CASE Check(k)
  BY <1>1, <1>8 DEF Check
<1>9. CASE WriteConfirmation(k)
  BY <1>1, <1>9 DEF WriteConfirmation
<1>10. ASSUME NEW sent \in BOOLEAN, NEW outcome \in Answered,
              Dispatch(k, sent, outcome)
       PROVE  call'[j] = call[j]
  BY <1>1, <1>10 DEF Dispatch
<1> QED BY <1>3, <1>4, <1>5, <1>6, <1>7, <1>8, <1>9, <1>10 DEF CallStep

\* What a step does to the call that takes it.
Moved(k) ==
  LET r == call[k]
      n == call'[k]
      same == n.command = r.command /\ n.sent = r.sent /\ n.landed = r.landed
  IN
  \/ n = IdleCall
  \/ r.at = "idle" /\ n.at = "challenge" /\ ~n.sent /\ ~n.landed
  \/ r.at = "idle" /\ n.at = "list" /\ ~n.sent /\ ~n.landed
  \/ r.at = "list" /\ n.at = "look" /\ same
  \/ r.at = "look" /\ n.at = "look" /\ n.todo \subseteq r.todo /\ same
  \/ r.at = "look" /\ n.at = "check" /\ n.command \in r.todo
       /\ confirmation[n.command] = "pending"
       /\ n.sent = r.sent /\ n.landed = r.landed
  \/ r.at = "check" /\ n.at \in {"dispatch", "confirmation"} /\ same
  \/ r.at = "dispatch" /\ n.at = "confirmation" /\ n.command = r.command
       /\ n.landed = r.landed
  \/ r.at = "confirmation" /\ n.at = "command" /\ n.command = r.command
       /\ n.sent = r.sent

LEMMA StepMoves ==
  ASSUME TypeOK, NEW k \in Calls, CallStep(k)
  PROVE  Moved(k)
<1>1. call \in [Calls -> CallRecords] /\ call[k] \in CallRecords
  BY DEF TypeOK, CallRecords
<1>2. ASSUME NEW v \in Conversations, NEW c \in Commands, InsertCommand(k, c, v)
      PROVE  Moved(k)
  BY <1>1, <1>2 DEF InsertCommand, IdleCall, Moved
<1>3. CASE InsertConfirmation(k) \/ WriteCommand(k) \/ CallDies(k)
  BY <1>1, <1>3 DEF InsertConfirmation, WriteCommand, CallDies, Moved
<1>4. ASSUME NEW v \in Conversations, Hear(k, v) PROVE Moved(k)
  BY <1>1, <1>4 DEF Hear, IdleCall, Moved
<1>5. CASE ListCommands(k)
  BY <1>1, <1>5 DEF ListCommands, Moved, CallRecords
<1>6. CASE LookAtNewest(k)
  <2>1. CASE call' = [call EXCEPT ![k] = IdleCall]
    BY <1>1, <2>1 DEF Moved
  <2>2. ASSUME NEW c \in call[k].todo, Answers(c),
               call' = [call EXCEPT ![k].at = "check", ![k].command = c,
                                    ![k].todo = {}]
        PROVE  Moved(k)
    <3>1. call'[k] = [call[k] EXCEPT !.at = "check", !.command = c, !.todo = {}]
      BY <1>1, <2>2
    <3> QED BY <1>1, <1>6, <2>2, <3>1 DEF LookAtNewest, Moved, CallRecords, Answers
  <2>3. ASSUME NEW c \in call[k].todo, call' = [call EXCEPT ![k].todo = @ \ {c}]
        PROVE  Moved(k)
    <3>1. call'[k] = [call[k] EXCEPT !.todo = @ \ {c}]
      BY <1>1, <2>3
    <3>2. /\ call'[k].at = call[k].at /\ call'[k].command = call[k].command
          /\ call'[k].todo \subseteq call[k].todo
          /\ call'[k].sent = call[k].sent /\ call'[k].landed = call[k].landed
      BY <1>1, <3>1 DEF CallRecords
    <3>3. call[k].at = "look"
      BY <1>6 DEF LookAtNewest
    <3> QED BY <3>2, <3>3 DEF Moved
  <2> QED BY <1>6, <2>1, <2>2, <2>3 DEF LookAtNewest
<1>7. CASE Check(k)
  BY <1>1, <1>7 DEF Check, Moved, CallRecords
<1>8. ASSUME NEW sent \in BOOLEAN, NEW outcome \in Answered,
             Dispatch(k, sent, outcome)
      PROVE  Moved(k)
  BY <1>1, <1>8 DEF Dispatch, Moved, CallRecords
<1>9. CASE WriteConfirmation(k)
  BY <1>1, <1>9 DEF WriteConfirmation, Moved, CallRecords
<1> QED BY <1>2, <1>3, <1>4, <1>5, <1>6, <1>7, <1>8, <1>9 DEF CallStep

-----------------------------------------------------------------------------
\* What a step does to the counts of a command.
SameCounters(c) == dispatched'[c] = dispatched[c] /\ lapsed'[c] = lapsed[c]

Quiet(c) ==
  /\ Pending(c)' <=> Pending(c)
  /\ SameCounters(c)
  /\ Sent(c)' = Sent(c)
  /\ ~Pending(c) => Held(c)' \subseteq Held(c)

Begins(c) ==
  confirmation[c] = "none" /\ SameCounters(c) /\ Pending(c)' /\ Sent(c)' = {}

Dispatches(k, c) ==
  /\ Pending(c)' <=> Pending(c)
  /\ dispatched'[c] = dispatched[c] + 1 /\ lapsed'[c] = lapsed[c]
  /\ k \in Held(c) /\ k \notin Sent(c)
  /\ Sent(c)' = Sent(c) \cup {k} /\ Held(c)' \subseteq Held(c) \ {k}

Settles(c) ==
  Pending(c) /\ ~Pending(c)' /\ SameCounters(c) /\ Held(c)' \cap Sent(c) = {}

Settled(c) ==
  /\ ~Pending(c) /\ ~Pending(c)'
  /\ dispatched'[c] = dispatched[c] /\ lapsed'[c] \in {lapsed[c], lapsed[c] + 1}
  /\ Held(c)' \subseteq Held(c)

Lapses(k, c) ==
  /\ Pending(c) /\ Pending(c)'
  /\ dispatched'[c] = dispatched[c] /\ lapsed'[c] = lapsed[c] + 1
  /\ k \in Sent(c) /\ Sent(c)' = Sent(c) \ {k}

CountsMove(k, c) ==
  \/ Quiet(c) \/ Begins(c) \/ Dispatches(k, c) \/ Settles(c) \/ Settled(c)
  \/ Lapses(k, c)

\* The calls that take no step keep their place.
LEMMA OthersKeepPlace ==
  ASSUME TypeOK, NEW k \in Calls, CallStep(k), NEW c \in Commands
  PROVE  /\ Sent(c)' \ {k} = Sent(c) \ {k}
         /\ (confirmation'[c] = "pending" => confirmation[c] = "pending")
              => Held(c)' \ {k} \subseteq Held(c)
<1>1. \A j \in Calls : j # k => call'[j] = call[j]
  BY OneCallMoves
<1>2. Sent(c)' \ {k} = Sent(c) \ {k}
  BY <1>1 DEF Sent
<1>3. ASSUME confirmation'[c] = "pending" => confirmation[c] = "pending"
      PROVE  Held(c)' \ {k} \subseteq Held(c)
  BY <1>1, <1>3 DEF Held
<1> QED BY <1>2, <1>3

\* A call that has been idle or is idle is nowhere.
LEMMA PlaceOf ==
  ASSUME TypeOK, CallShape, NEW k \in Calls, NEW c \in Commands
  PROVE  /\ k \in Sent(c) => call[k].at \in {"confirmation", "command"}
         /\ k \in Held(c) => call[k].at \in {"look", "check", "dispatch"}
         /\ Held(c) \cap Sent(c) = {}
BY DEF Sent, Held, CallShape

LEMMA ChallengeMoves ==
  ASSUME VoiceInv, NEW k \in Calls, NEW c \in Commands, CallStep(k),
         \/ \E v \in Conversations, d \in Commands : InsertCommand(k, d, v)
         \/ InsertConfirmation(k)
  PROVE  CountsMove(k, c)
<1>1. TypeOK /\ CallShape /\ ChallengeIsOwn /\ UntouchedBefore
      /\ call \in [Calls -> CallRecords]
  BY DEF VoiceInv, TypeOK, CallRecords
<1>2. k \notin Sent(c)
  BY <1>1, PlaceOf DEF InsertCommand, InsertConfirmation
<1>3. k \notin Sent(c)' /\ k \notin Held(c)'
  <2>1. ASSUME NEW v \in Conversations, NEW d \in Commands, InsertCommand(k, d, v)
        PROVE  call'[k].at = "challenge" /\ ~call'[k].sent
    BY <1>1, <2>1 DEF InsertCommand, IdleCall
  <2>2. CASE InsertConfirmation(k)
    <3>1. call'[k].at = "idle" /\ ~call'[k].sent
      BY <1>1, <2>2 DEF InsertConfirmation, IdleCall
    <3> QED BY <3>1 DEF Sent, Held
  <2> QED BY <2>1, <2>2 DEF Sent, Held
<1>4. Sent(c)' = Sent(c)
  BY <1>1, <1>2, <1>3, OthersKeepPlace
<1>5. ASSUME NEW v \in Conversations, NEW d \in Commands, InsertCommand(k, d, v)
      PROVE  CountsMove(k, c)
  <2>1. Pending(c)' <=> Pending(c)
    BY <1>1, <1>5 DEF InsertCommand, Pending, UntouchedBefore, TypeOK
  <2>2. Held(c)' \subseteq Held(c) /\ SameCounters(c)
    BY <1>1, <1>3, <1>5, OthersKeepPlace DEF InsertCommand, SameCounters
  <2> QED BY <1>4, <2>1, <2>2 DEF CountsMove, Quiet
<1>6. CASE InsertConfirmation(k) /\ confirmation'[c] = confirmation[c]
  <2>1. Pending(c)' <=> Pending(c)
    BY <1>6 DEF InsertConfirmation, Pending
  <2>2. Held(c)' \subseteq Held(c) /\ SameCounters(c)
    BY <1>1, <1>3, <1>6, OthersKeepPlace DEF InsertConfirmation, SameCounters
  <2> QED BY <1>4, <2>1, <2>2 DEF CountsMove, Quiet
<1>7. CASE InsertConfirmation(k) /\ confirmation'[c] # confirmation[c]
  <2>1. /\ call[k].command = c /\ confirmation'[c] = "pending"
        /\ confirmation[c] = "none" /\ command[c] = "awaiting_confirmation"
    BY <1>1, <1>7 DEF InsertConfirmation, ChallengeIsOwn, TypeOK
  <2>2. Pending(c)' /\ SameCounters(c)
    BY <1>7, <2>1 DEF InsertConfirmation, Pending, SameCounters
  <2>3. Sent(c) = {}
    BY <1>1, <2>1 DEF Sent, CallShape
  <2> QED BY <1>4, <2>1, <2>2, <2>3 DEF CountsMove, Begins
<1> QED BY <1>5, <1>6, <1>7

LEMMA ReadingMoves ==
  ASSUME VoiceInv, NEW k \in Calls, NEW c \in Commands, CallStep(k),
         \/ \E v \in Conversations : Hear(k, v)
         \/ ListCommands(k) \/ LookAtNewest(k) \/ Check(k)
  PROVE  CountsMove(k, c)
<1>1. TypeOK /\ CallShape /\ call \in [Calls -> CallRecords]
      /\ call[k] \in CallRecords
  BY DEF VoiceInv, TypeOK, CallRecords
<1>2. UNCHANGED <<command, confirmation, dispatched, lapsed>>
  BY DEF Hear, ListCommands, LookAtNewest, Check, rowVars
<1>3. call[k].at \in {"idle", "list", "look", "check"}
  BY DEF Hear, ListCommands, LookAtNewest, Check
<1>4. ~call[k].sent /\ k \notin Sent(c)
  BY <1>1, <1>3 DEF CallShape, Sent
<1>5. ~call'[k].sent /\ k \notin Sent(c)'
  <2>1. CASE \E v \in Conversations : Hear(k, v)
    BY <1>1, <2>1 DEF Hear, IdleCall, Sent
  <2>2. CASE ListCommands(k)
    BY <1>1, <1>4, <2>2 DEF ListCommands, CallRecords, Sent
  <2>3. CASE LookAtNewest(k)
    <3>1. call[k].at = "look"
      BY <2>3 DEF LookAtNewest
    <3>2. call'[k].sent = call[k].sent \/ call'[k] = IdleCall
      BY <1>1, <3>1, StepMoves DEF Moved
    <3> QED BY <1>4, <3>2 DEF IdleCall, Sent
  <2>4. CASE Check(k)
    BY <1>1, <1>4, <2>4 DEF Check, CallRecords, Sent
  <2> QED BY <2>1, <2>2, <2>3, <2>4
<1>6. ASSUME ~Pending(c), k \in Held(c)' PROVE k \in Held(c)
  <2>1. CASE \E v \in Conversations : Hear(k, v)
    BY <1>1, <1>6, <2>1 DEF Hear, IdleCall, Held
  <2>2. CASE ListCommands(k)
    <3>1. call'[k].at = "look" /\ call'[k].todo = Newest(Awaiting(call[k].to))
      BY <1>1, <2>2 DEF ListCommands, CallRecords
    <3>2. c \in Awaiting(call[k].to) /\ confirmation[c] = "pending"
      BY <1>2, <1>6, <3>1 DEF Held, Newest
    <3> QED BY <1>6, <3>2 DEF Awaiting, Pending
  <2>3. CASE LookAtNewest(k)
    <3>1. call[k].at = "look"
      BY <2>3 DEF LookAtNewest
    <3>2. \/ call'[k].at = "idle"
          \/ call'[k].at = "look" /\ call'[k].todo \subseteq call[k].todo
          \/ /\ call'[k].at = "check" /\ call'[k].command \in call[k].todo
             /\ confirmation[call'[k].command] = "pending"
      BY <1>1, <3>1, StepMoves DEF Moved, IdleCall
    <3> QED BY <1>2, <1>6, <3>1, <3>2 DEF Held
  <2>4. CASE Check(k)
    BY <1>1, <1>2, <1>6, <2>4 DEF Check, CallRecords, Held
  <2> QED BY <2>1, <2>2, <2>3, <2>4
<1>7. Sent(c)' = Sent(c) /\ (~Pending(c) => Held(c)' \subseteq Held(c))
  BY <1>1, <1>2, <1>4, <1>5, <1>6, OthersKeepPlace
<1> QED BY <1>2, <1>7 DEF CountsMove, Quiet, SameCounters, Pending

LEMMA DispatchMoves ==
  ASSUME VoiceInv, NEW k \in Calls, NEW c \in Commands, CallStep(k),
         NEW sent \in BOOLEAN, NEW outcome \in Answered, Dispatch(k, sent, outcome)
  PROVE  CountsMove(k, c)
<1>1. TypeOK /\ CallShape /\ call \in [Calls -> CallRecords]
      /\ call[k] \in CallRecords
  BY DEF VoiceInv, TypeOK, CallRecords
<1>2. /\ UNCHANGED <<command, confirmation, lapsed>>
      /\ call[k].at = "dispatch" /\ ~call[k].sent /\ ~call[k].landed
  BY <1>1 DEF Dispatch, rowVars, CallShape
<1>3. /\ call'[k].at = "confirmation" /\ call'[k].sent = sent
      /\ call'[k].command = call[k].command /\ ~call'[k].landed
  BY <1>1, <1>2 DEF Dispatch, CallRecords
<1>4. k \notin Sent(c) /\ k \notin Held(c)'
  BY <1>2, <1>3 DEF Sent, Held
<1>5. Held(c)' \subseteq Held(c) \ {k}
  BY <1>1, <1>2, <1>4, OthersKeepPlace
<1>6. CASE sent /\ call[k].command = c
  <2>1. dispatched'[c] = dispatched[c] + 1
    BY <1>1, <1>6 DEF Dispatch, TypeOK
  <2>2. k \in Held(c) /\ k \in Sent(c)'
    BY <1>2, <1>3, <1>6 DEF Held, Sent
  <2>3. Sent(c)' = Sent(c) \cup {k}
    BY <1>1, <1>4, <2>2, OthersKeepPlace
  <2> QED BY <1>2, <1>4, <1>5, <2>1, <2>2, <2>3 DEF CountsMove, Dispatches, Pending
<1>7. CASE ~(sent /\ call[k].command = c)
  <2>1. dispatched'[c] = dispatched[c]
    BY <1>1, <1>7 DEF Dispatch, TypeOK
  <2>2. Sent(c)' = Sent(c)
    <3>1. k \notin Sent(c)'
      BY <1>3, <1>7 DEF Sent
    <3> QED BY <1>1, <1>4, <3>1, OthersKeepPlace
  <2> QED BY <1>2, <1>5, <2>1, <2>2 DEF CountsMove, Quiet, SameCounters, Pending
<1> QED BY <1>6, <1>7

\* A call that ends without a write, or with its last one.
LEMMA WriteMoves ==
  ASSUME VoiceInv, NEW k \in Calls, NEW c \in Commands, CallStep(k),
         WriteConfirmation(k) \/ WriteCommand(k) \/ CallDies(k)
  PROVE  CountsMove(k, c)
<1>1. /\ TypeOK /\ CallShape /\ call \in [Calls -> CallRecords]
      /\ call[k] \in CallRecords
      /\ lapsed \in [Commands -> Nat]
      /\ call[k].outcome \in Refusals \cup Answered
  BY DEF VoiceInv, TypeOK, CallRecords
<1>2. dispatched' = dispatched
  BY DEF WriteConfirmation, WriteCommand, CallDies
<1>3. call'[k].at \in {"idle", "command"} /\ k \notin Held(c)'
  <2>1. CASE WriteConfirmation(k)
    BY <1>1, <2>1 DEF WriteConfirmation, CallRecords, Held
  <2>2. CASE WriteCommand(k) \/ CallDies(k)
    <3>1. call'[k].at = "idle"
      BY <1>1, <2>2 DEF WriteCommand, CallDies, IdleCall
    <3> QED BY <3>1 DEF Held
  <2> QED BY <2>1, <2>2
<1>4. confirmation'[c] = "pending" => confirmation[c] = "pending"
  BY <1>1, OutcomeWords DEF WriteConfirmation, WriteCommand, CallDies, TypeOK, rowVars
<1>5. command'[c] = "awaiting_confirmation" => command[c] = "awaiting_confirmation"
  BY <1>1, OutcomeWords DEF WriteConfirmation, WriteCommand, CallDies, TypeOK, rowVars
<1>6. Held(c)' \subseteq Held(c) /\ Held(c)' \cap Sent(c) = {}
  <2>1. Held(c)' \subseteq Held(c)
    BY <1>1, <1>3, <1>4, OthersKeepPlace
  <2> QED BY <1>1, <2>1, PlaceOf
<1>7. Sent(c)' \ {k} = Sent(c) \ {k} /\ (k \in Sent(c)' => k \in Sent(c))
  <2>1. k \in Sent(c)' => k \in Sent(c)
    <3>1. CASE WriteConfirmation(k)
      <4>1. /\ call'[k].command = call[k].command /\ call'[k].sent = call[k].sent
            /\ call'[k].landed = call[k].landed \/ call'[k].landed = TRUE
        BY <1>1, <3>1 DEF WriteConfirmation, CallRecords
      <4> QED BY <4>1 DEF Sent
    <3>2. CASE WriteCommand(k) \/ CallDies(k)
      <4>1. ~call'[k].sent
        BY <1>1, <3>2 DEF WriteCommand, CallDies, IdleCall
      <4> QED BY <4>1 DEF Sent
    <3> QED BY <3>1, <3>2
  <2> QED BY <1>1, <2>1, OthersKeepPlace
<1>8. lapsed'[c] = lapsed[c] \/ (lapsed'[c] = lapsed[c] + 1 /\ k \in Sent(c))
  <2>1. Lapse(k) => lapsed'[c] = lapsed[c] \/ (lapsed'[c] = lapsed[c] + 1 /\ k \in Sent(c))
    BY <1>1 DEF Lapse, Sent
  <2> QED BY <2>1 DEF WriteConfirmation, WriteCommand, CallDies
<1>9. CASE ~Pending(c)
  <2>1. ~Pending(c)'
    BY <1>4, <1>5, <1>9 DEF Pending
  <2> QED BY <1>2, <1>6, <1>8, <1>9, <2>1 DEF CountsMove, Settled
<1>10. CASE Pending(c) /\ ~Pending(c)'
  <2>1. lapsed' = lapsed
    <3>1. UNCHANGED rowVars => (Pending(c)' <=> Pending(c))
      BY DEF Pending, rowVars
    <3> QED BY <1>10, <3>1
            DEF WriteConfirmation, WriteCommand, CallDies, rowVars
  <2> QED BY <1>2, <1>6, <1>10, <2>1 DEF CountsMove, Settles, SameCounters
<1>11. CASE Pending(c) /\ Pending(c)' /\ lapsed'[c] = lapsed[c]
  <2>1. k \in Sent(c) => k \in Sent(c)'
    <3> SUFFICES ASSUME k \in Sent(c) PROVE k \in Sent(c)'
      OBVIOUS
    <3>1. call[k].command = c /\ call[k].sent /\ ~call[k].landed
      BY DEF Sent
    <3>2. ~Lapse(k)
      BY <1>1, <1>11, <3>1 DEF Lapse
    <3>3. ~CallDies(k)
      BY <3>2 DEF CallDies
    <3>4. ~WriteCommand(k)
      <4>1. WriteCommand(k) => command'[c] = call[k].outcome.command
        BY <1>1, <3>1, <3>2 DEF WriteCommand, TypeOK
      <4> QED BY <1>1, <1>11, <4>1, OutcomeWords DEF Pending
    <3>5. WriteConfirmation(k)
      BY <3>3, <3>4
    <3>6. confirmation' = confirmation
      <4>1. \/ confirmation' = confirmation
            \/ confirmation'[c] = call[k].outcome.confirmation
        BY <1>1, <3>1, <3>5 DEF WriteConfirmation, TypeOK
      <4> QED BY <1>1, <1>11, <4>1, OutcomeWords DEF Pending
    <3>7. ~call'[k].landed /\ call'[k].sent /\ call'[k].command = c
      <4>1. confirmation' # [confirmation EXCEPT ![c] = call[k].outcome.confirmation]
        <5>1. call[k].outcome.confirmation # confirmation[c]
          BY <1>1, <1>11, OutcomeWords DEF Pending
        <5> QED BY <3>6, <5>1 DEF TypeOK, VoiceInv
      <4>2. call' = [call EXCEPT ![k].at = "command"]
        BY <3>1, <3>5, <4>1 DEF WriteConfirmation
      <4> QED BY <1>1, <3>1, <4>2 DEF CallRecords
    <3> QED BY <3>7 DEF Sent
  <2>2. Sent(c)' = Sent(c)
    BY <1>7, <2>1
  <2> QED BY <1>2, <1>11, <2>2 DEF CountsMove, Quiet, SameCounters
<1>12. CASE Pending(c) /\ Pending(c)' /\ lapsed'[c] # lapsed[c]
  <2>1. lapsed'[c] = lapsed[c] + 1 /\ k \in Sent(c)
    BY <1>8, <1>12
  <2>2. k \notin Sent(c)'
    <3>1. ~WriteConfirmation(k)
      BY <1>12 DEF WriteConfirmation
    <3>2. call'[k] = IdleCall
      BY <1>1, <3>1 DEF WriteCommand, CallDies
    <3> QED BY <3>2 DEF IdleCall, Sent
  <2>3. Sent(c)' = Sent(c) \ {k}
    BY <1>7, <2>2
  <2> QED BY <1>2, <1>12, <2>1, <2>3 DEF CountsMove, Lapses
<1> QED BY <1>9, <1>10, <1>11, <1>12

-----------------------------------------------------------------------------
\* Cardinalities of sets of calls.
LEMMA CallsCounted ==
  ASSUME NEW S \in SUBSET Calls
  PROVE  /\ IsFiniteSet(S) /\ Cardinality(S) \in Nat /\ Cardinality(Calls) \in Nat
         /\ Cardinality(S) <= Cardinality(Calls)
         /\ \A T \in SUBSET S : Cardinality(T) <= Cardinality(S)
         /\ \A k \in S : Cardinality(S \ {k}) = Cardinality(S) - 1
         /\ \A k \in Calls \ S : Cardinality(S \cup {k}) = Cardinality(S) + 1
<1>1. IsFiniteSet(Calls)
  BY VoiceAssumption
<1>2. IsFiniteSet(S)
  BY <1>1, FS_Subset
<1>3. Cardinality(S) \in Nat /\ Cardinality(Calls) \in Nat
  BY <1>1, <1>2, FS_CardinalityType
<1>4. Cardinality(S) <= Cardinality(Calls)
  BY <1>1, FS_Subset
<1>5. \A T \in SUBSET S : Cardinality(T) <= Cardinality(S)
  BY <1>2, FS_Subset
<1>6. \A k \in S : Cardinality(S \ {k}) = Cardinality(S) - 1
  BY <1>2, FS_RemoveElement
<1>7. \A k \in Calls \ S : Cardinality(S \cup {k}) = Cardinality(S) + 1
  BY <1>2, FS_AddElement
<1> QED BY <1>2, <1>3, <1>4, <1>5, <1>6, <1>7

LEMMA DisjointCounted ==
  ASSUME NEW S \in SUBSET Calls, NEW T \in SUBSET Calls, S \cap T = {}
  PROVE  Cardinality(S) + Cardinality(T) <= Cardinality(Calls)
<1>1. IsFiniteSet(S) /\ IsFiniteSet(T)
  BY CallsCounted
<1>2. Cardinality(S \cup T)
        = Cardinality(S) + Cardinality(T) - Cardinality(S \cap T)
  BY <1>1, FS_Union
<1>3. Cardinality(S \cap T) = 0
  BY FS_EmptySet
<1>4. Cardinality(S \cup T) <= Cardinality(Calls)
  <2>1. S \cup T \in SUBSET Calls
    OBVIOUS
  <2> QED BY <2>1, CallsCounted
<1>5. Cardinality(S) \in Nat /\ Cardinality(T) \in Nat
  BY CallsCounted
<1> QED BY <1>2, <1>3, <1>4, <1>5

LEMMA CountedStep ==
  ASSUME VoiceInv, NEW k \in Calls, NEW c \in Commands, CountsMove(k, c)
  PROVE  Counted(c)'
<1>1. /\ dispatched[c] \in Nat /\ lapsed[c] \in Nat /\ Counted(c)
      /\ confirmation[c] = "none" => dispatched[c] = 0 /\ lapsed[c] = 0
  BY DEF VoiceInv, TypeOK, UntouchedBefore
<1>2. /\ Sent(c) \in SUBSET Calls /\ Held(c) \in SUBSET Calls
      /\ Sent(c)' \in SUBSET Calls /\ Held(c)' \in SUBSET Calls
  BY DEF Sent, Held
<1>3. /\ Cardinality(Sent(c)) \in Nat /\ Cardinality(Held(c)) \in Nat
      /\ Cardinality(Sent(c)') \in Nat /\ Cardinality(Held(c)') \in Nat
      /\ Cardinality(Calls) \in Nat
  BY <1>2, CallsCounted
<1>4. /\ Pending(c)' => dispatched'[c] = Cardinality(Sent(c)') + lapsed'[c]
      /\ ~Pending(c)' => dispatched'[c] + Cardinality(Held(c)')
                           <= Cardinality(Calls) + lapsed'[c]
      => Counted(c)'
  BY DEF Counted
<1>5. CASE Quiet(c)
  <2>1. ~Pending(c) => Cardinality(Held(c)') <= Cardinality(Held(c))
    BY <1>2, <1>5, CallsCounted DEF Quiet
  <2> QED BY <1>1, <1>3, <1>4, <1>5, <2>1 DEF Quiet, SameCounters, Counted
<1>6. CASE Begins(c)
  <2>1. Cardinality(Sent(c)') = 0
    BY <1>6, FS_EmptySet DEF Begins
  <2> QED BY <1>1, <1>3, <1>4, <1>6, <2>1 DEF Begins, SameCounters
<1>7. CASE Dispatches(k, c)
  <2>1. Cardinality(Sent(c)') = Cardinality(Sent(c)) + 1
    BY <1>2, <1>7, CallsCounted DEF Dispatches
  <2>2. Cardinality(Held(c)') <= Cardinality(Held(c)) - 1
    <3>1. Held(c) \ {k} \in SUBSET Calls /\ Held(c)' \in SUBSET (Held(c) \ {k})
      BY <1>2, <1>7 DEF Dispatches
    <3>2. Cardinality(Held(c) \ {k}) = Cardinality(Held(c)) - 1
      BY <1>2, <1>7, CallsCounted DEF Dispatches
    <3>3. Cardinality(Held(c)') <= Cardinality(Held(c) \ {k})
      BY <3>1, CallsCounted
    <3> QED BY <3>2, <3>3
  <2> QED BY <1>1, <1>3, <1>4, <1>7, <2>1, <2>2 DEF Dispatches, Counted
<1>8. CASE Settles(c)
  <2>1. Cardinality(Held(c)') + Cardinality(Sent(c)) <= Cardinality(Calls)
    BY <1>2, <1>8, DisjointCounted DEF Settles
  <2> QED BY <1>1, <1>3, <1>4, <1>8, <2>1 DEF Settles, SameCounters, Counted
<1>9. CASE Settled(c)
  <2>1. Cardinality(Held(c)') <= Cardinality(Held(c))
    BY <1>2, <1>9, CallsCounted DEF Settled
  <2> QED BY <1>1, <1>3, <1>4, <1>9, <2>1 DEF Settled, Counted
<1>10. CASE Lapses(k, c)
  <2>1. Cardinality(Sent(c)') = Cardinality(Sent(c)) - 1
    BY <1>2, <1>10, CallsCounted DEF Lapses
  <2> QED BY <1>1, <1>3, <1>4, <1>10, <2>1 DEF Lapses, Counted
<1> QED BY <1>5, <1>6, <1>7, <1>8, <1>9, <1>10 DEF CountsMove

-----------------------------------------------------------------------------
LEMMA ConfirmationStays ==
  ASSUME VoiceInv, NEW k \in Calls, CallStep(k), NEW c \in Commands,
         confirmation'[c] = "none"
  PROVE  confirmation[c] = "none"
<1>1. TypeOK /\ call[k].outcome \in Refusals \cup Answered
  BY DEF VoiceInv, TypeOK
<1> QED BY <1>1, OutcomeWords
        DEF TypeOK, CallStep, InsertCommand, InsertConfirmation, Hear, ListCommands,
            LookAtNewest, Check, Dispatch, WriteConfirmation, WriteCommand,
            CallDies, rowVars

LEMMA ShapeStep ==
  ASSUME VoiceInv, NEW k \in Calls, CallStep(k)
  PROVE  CallShape'
<1>1. /\ TypeOK /\ TypeOK' /\ CallShape
      /\ call[k] \in CallRecords /\ call'[k] \in CallRecords
  BY CallStepTyped DEF VoiceInv, TypeOK, CallRecords
<1> SUFFICES ASSUME NEW j \in Calls
             PROVE  /\ call'[j].at \in {"challenge", "check", "dispatch",
                                       "confirmation", "command"}
                         => call'[j].command \in Commands
                    /\ call'[j].at \in {"check", "dispatch", "confirmation", "command"}
                         => confirmation'[call'[j].command] # "none"
                    /\ call'[j].sent => call'[j].at \in {"confirmation", "command"}
                    /\ call'[j].landed => call'[j].at = "command"
  BY DEF CallShape
<1>2. CASE j # k
  BY <1>1, <1>2, OneCallMoves, ConfirmationStays DEF CallShape
<1>3. CASE j = k
  <2>1. Moved(k)
    BY <1>1, StepMoves
  <2>2. call'[k].at = "challenge" => call'[k].command \in Commands
    <3>1. \A v \in Conversations, c \in Commands :
            InsertCommand(k, c, v) => call'[k].command \in Commands
      BY <1>1 DEF InsertCommand, TypeOK, IdleCall
    <3>2. call[k].at = "challenge" \/ call[k].at # "idle" => call'[k].at # "challenge"
      BY <2>1 DEF Moved, IdleCall
    <3>3. \A v \in Conversations : Hear(k, v) => call'[k].at # "challenge"
      BY <1>1 DEF Hear, TypeOK, IdleCall
    <3> QED BY <3>1, <3>2, <3>3
            DEF CallStep, InsertConfirmation, ListCommands, LookAtNewest, Check,
                Dispatch, WriteConfirmation, WriteCommand, CallDies
  <2>3. call'[k].at = "check" => /\ call'[k].command \in Commands
                                /\ confirmation'[call'[k].command] # "none"
    <3> SUFFICES ASSUME call'[k].at = "check"
                 PROVE  /\ call'[k].command \in Commands
                        /\ confirmation'[call'[k].command] # "none"
      OBVIOUS
    <3>1. call'[k].command \in call[k].todo /\ confirmation[call'[k].command] = "pending"
      BY <2>1 DEF Moved, IdleCall
    <3>2. call'[k].command \in Commands
      BY <1>1, <3>1 DEF CallRecords
    <3> QED BY <3>1, <3>2, ConfirmationStays
  <2>4. call'[k].at \in {"dispatch", "confirmation", "command"} =>
          /\ call[k].at \in {"check", "dispatch", "confirmation"}
          /\ call'[k].command = call[k].command
    BY <2>1 DEF Moved, IdleCall
  <2>5. call'[k].at \in {"dispatch", "confirmation", "command"} =>
          /\ call'[k].command \in Commands
          /\ confirmation'[call'[k].command] # "none"
    BY <1>1, <2>4, ConfirmationStays DEF CallShape
  <2>6. /\ call[k].sent => call[k].at \in {"confirmation", "command"}
        /\ call[k].landed => call[k].at = "command"
    BY <1>1 DEF CallShape
  <2>7. /\ call'[k].sent => call'[k].at \in {"confirmation", "command"}
        /\ call'[k].landed => call'[k].at = "command"
    BY <2>1, <2>6 DEF Moved, IdleCall
  <2> QED BY <1>3, <2>2, <2>3, <2>5, <2>7
<1> QED BY <1>2, <1>3

LEMMA ChallengeStep ==
  ASSUME VoiceInv, NEW k \in Calls, CallStep(k)
  PROVE  ChallengeIsOwn' /\ UntouchedBefore'
<1>1. TypeOK /\ CallShape /\ ChallengeIsOwn /\ UntouchedBefore
      /\ call \in [Calls -> CallRecords]
      /\ call[k].outcome \in Refusals \cup Answered
  BY DEF VoiceInv, TypeOK, CallRecords
<1>2. ASSUME NEW v \in Conversations, NEW c \in Commands, InsertCommand(k, c, v)
      PROVE  ChallengeIsOwn' /\ UntouchedBefore'
  <2>1. /\ call'[k].at = "challenge" /\ call'[k].command = c
        /\ command' = [command EXCEPT ![c] = "awaiting_confirmation"]
        /\ confirmation' = confirmation /\ command[c] = "absent"
        /\ UNCHANGED <<dispatched, lapsed>>
    BY <1>1, <1>2 DEF InsertCommand, IdleCall
  <2>2. confirmation[c] = "none"
    BY <1>1, <2>1 DEF UntouchedBefore
  <2>3. UntouchedBefore'
    BY <1>1, <2>1, <2>2 DEF UntouchedBefore, TypeOK
  <2>4. \A j \in Calls : j # k /\ call'[j].at = "challenge" =>
          /\ call'[j] = call[j] /\ call'[j].command \in Commands
          /\ call'[j].command # c
    BY <1>1, <2>1, OneCallMoves DEF ChallengeIsOwn, CallShape
  <2> QED BY <1>1, <2>1, <2>2, <2>3, <2>4 DEF ChallengeIsOwn, TypeOK
<1>3. CASE ~\E v \in Conversations, c \in Commands : InsertCommand(k, c, v)
  <2>1. call'[k].at # "challenge"
    <3>1. call[k].at # "idle" => call'[k].at # "challenge"
      <4>1. Moved(k)
        BY <1>1, StepMoves
      <4> QED BY <4>1 DEF Moved, IdleCall
    <3>2. \A v \in Conversations : Hear(k, v) => call'[k].at # "challenge"
      BY <1>1 DEF Hear, IdleCall
    <3> QED BY <1>3, <3>1, <3>2
            DEF CallStep, InsertConfirmation, ListCommands, LookAtNewest, Check,
                Dispatch, WriteConfirmation, WriteCommand, CallDies
  <2>2. \A j \in Calls : call'[j].at = "challenge" => j # k /\ call'[j] = call[j]
    BY <1>1, <2>1, OneCallMoves
  <2>3. ASSUME NEW j \in Calls, call'[j].at = "challenge"
        PROVE  /\ command'[call[j].command] = "awaiting_confirmation"
               /\ confirmation'[call[j].command] = "none"
    <3> DEFINE c == call[j].command
    <3>1. /\ j # k /\ call[j].at = "challenge" /\ c \in Commands
          /\ command[c] = "awaiting_confirmation" /\ confirmation[c] = "none"
      BY <1>1, <2>2, <2>3 DEF ChallengeIsOwn, CallShape
    <3>2. call[k].at \in {"challenge", "confirmation", "command"}
            => call[k].command # c
      BY <1>1, <3>1 DEF ChallengeIsOwn, CallShape
    <3>3. command'[c] = command[c] /\ confirmation'[c] = confirmation[c]
      BY <1>1, <1>3, <3>1, <3>2
         DEF CallStep, InsertConfirmation, Hear, ListCommands, LookAtNewest, Check,
             Dispatch, WriteConfirmation, WriteCommand, CallDies, rowVars, TypeOK
    <3> QED BY <3>1, <3>3
  <2>4. ChallengeIsOwn'
    BY <1>1, <2>2, <2>3 DEF ChallengeIsOwn
  <2>5. UntouchedBefore'
    <3> SUFFICES ASSUME NEW c \in Commands
                 PROVE  /\ command'[c] = "absent" => confirmation'[c] = "none"
                        /\ confirmation'[c] = "none" =>
                             dispatched'[c] = 0 /\ lapsed'[c] = 0
      BY DEF UntouchedBefore
    <3>1. command'[c] = "absent" => command[c] = "absent" /\ confirmation[c] = "none"
      BY <1>1, <1>3, OutcomeWords
         DEF UntouchedBefore, CallStep, InsertConfirmation, Hear, ListCommands,
             LookAtNewest, Check, Dispatch, WriteConfirmation, WriteCommand, CallDies,
             rowVars, TypeOK
    <3>2. confirmation[c] = "none" /\ command[c] = "absent"
            => confirmation'[c] = "none"
      BY <1>1, <1>3
         DEF ChallengeIsOwn, CallShape, CallStep, InsertConfirmation, Hear, ListCommands,
             LookAtNewest, Check, Dispatch, WriteConfirmation, WriteCommand, CallDies,
             rowVars, TypeOK
    <3>3. confirmation'[c] = "none" => confirmation[c] = "none"
      BY ConfirmationStays
    <3>4. confirmation[c] = "none" =>
            dispatched'[c] = dispatched[c] /\ lapsed'[c] = lapsed[c]
      BY <1>1, <1>3
         DEF CallShape, CallStep, InsertConfirmation, Hear, ListCommands,
             LookAtNewest, Check, Dispatch, WriteConfirmation, WriteCommand, CallDies,
             Lapse, rowVars, TypeOK
    <3> QED BY <1>1, <3>1, <3>2, <3>3, <3>4 DEF UntouchedBefore
  <2> QED BY <2>4, <2>5
<1> QED BY <1>2, <1>3

-----------------------------------------------------------------------------
LEMMA InitInv == Init => VoiceInv
<1> SUFFICES ASSUME Init PROVE VoiceInv
  OBVIOUS
<1>1. CallShape /\ ChallengeIsOwn /\ UntouchedBefore
  BY DEF Init, IdleCall, CallShape, ChallengeIsOwn, UntouchedBefore
<1>2. ASSUME NEW c \in Commands PROVE Counted(c)
  <2>1. ~Pending(c) /\ Held(c) = {} /\ dispatched[c] = 0 /\ lapsed[c] = 0
    BY DEF Init, IdleCall, Pending, Held
  <2>2. Cardinality(Held(c)) = 0
    BY <2>1, FS_EmptySet
  <2>3. Cardinality(Calls) \in Nat
    BY CallsCounted
  <2> QED BY <2>1, <2>2, <2>3 DEF Counted
<1> QED BY <1>1, <1>2, InitTyped DEF VoiceInv

LEMMA VoiceInvStep == VoiceInv /\ [Next]_vars => VoiceInv'
<1> SUFFICES ASSUME VoiceInv, [Next]_vars PROVE VoiceInv'
  OBVIOUS
<1>1. ASSUME NEW k \in Calls, CallStep(k) PROVE VoiceInv'
  <2>1. TypeOK' /\ CallShape' /\ ChallengeIsOwn' /\ UntouchedBefore'
    BY <1>1, CallStepTyped, ShapeStep, ChallengeStep DEF VoiceInv
  <2>2. ASSUME NEW c \in Commands PROVE Counted(c)'
    <3>1. CountsMove(k, c)
      BY <1>1, ChallengeMoves, ReadingMoves, DispatchMoves, WriteMoves DEF CallStep
    <3> QED BY <3>1, CountedStep
  <2> QED BY <2>1, <2>2 DEF VoiceInv
<1>2. CASE UNCHANGED vars
  <2>1. TypeOK' /\ CallShape' /\ ChallengeIsOwn' /\ UntouchedBefore'
    BY <1>2 DEF VoiceInv, TypeOK, CallShape, ChallengeIsOwn, UntouchedBefore,
                vars, rowVars
  <2>2. ASSUME NEW c \in Commands PROVE Counted(c)'
    <3>1. Counted(c)
      BY DEF VoiceInv
    <3> QED BY <1>2, <3>1 DEF Counted, Pending, Sent, Held, vars, rowVars
  <2> QED BY <2>1, <2>2 DEF VoiceInv
<1> QED BY <1>1, <1>2 DEF Next

LEMMA Invariance == Spec => []VoiceInv
<1>1. Init => VoiceInv
  BY InitInv
<1>2. VoiceInv /\ [Next]_vars => VoiceInv'
  BY VoiceInvStep
<1> QED BY <1>1, <1>2, PTL DEF Spec

\* The two rows of every command and the local state of every call keep
\* their types.
THEOREM TypeCorrect == Spec => []TypeOK
<1>1. VoiceInv => TypeOK
  BY DEF VoiceInv
<1>2. Spec => []VoiceInv
  BY Invariance
<1> QED BY <1>1, <1>2, PTL

-----------------------------------------------------------------------------
(***************************************************************************)
(* What "executed" stands for.  A call writes it only if its own dispatch  *)
(* returned, and no dispatch is ever taken back.                           *)
(***************************************************************************)
ExecutedInv ==
  /\ \A k \in Calls :
       call[k].at \in {"confirmation", "command"}
         /\ call[k].outcome.command = "executed"
       => dispatched[call[k].command] > 0
  /\ \A c \in Commands : command[c] = "executed" => dispatched[c] > 0

\* A dispatch adds to the count of its command, and nothing takes from it.
LEMMA DispatchesGrow ==
  ASSUME TypeOK, CallShape, NEW k \in Calls, CallStep(k), NEW c \in Commands,
         dispatched[c] > 0
  PROVE  dispatched'[c] > 0
<1>1. dispatched \in [Commands -> Nat]
  BY DEF TypeOK
<1>2. CASE UNCHANGED dispatched
  BY <1>2
<1>3. ASSUME NEW sent \in BOOLEAN, NEW outcome, Dispatch(k, sent, outcome)
      PROVE  dispatched'[c] > 0
  BY <1>1, <1>3 DEF Dispatch
<1> QED BY <1>2, <1>3
        DEF CallStep, InsertCommand, InsertConfirmation, Hear, ListCommands,
            LookAtNewest, Check, WriteConfirmation, WriteCommand, CallDies

\* A call that will write "executed" has dispatched its command before.
LEMMA ExecutedCalls ==
  ASSUME VoiceInv, ExecutedInv, NEW k \in Calls, CallStep(k), NEW j \in Calls,
         call'[j].at \in {"confirmation", "command"},
         call'[j].outcome.command = "executed"
  PROVE  dispatched'[call'[j].command] > 0
<1>1. /\ TypeOK /\ CallShape /\ call \in [Calls -> CallRecords]
      /\ call[k] \in CallRecords /\ call[j] \in CallRecords
      /\ dispatched \in [Commands -> Nat]
  BY DEF VoiceInv, TypeOK, CallRecords
<1>2. CASE /\ call[j].at \in {"confirmation", "command"}
           /\ call'[j].outcome = call[j].outcome
           /\ call'[j].command = call[j].command
  <2>1. call[j].command \in Commands /\ dispatched[call[j].command] > 0
    BY <1>1, <1>2 DEF CallShape, ExecutedInv
  <2> QED BY <1>1, <1>2, <2>1, DispatchesGrow
<1>3. CASE j # k
  <2>1. call'[j] = call[j]
    BY <1>1, <1>3
       DEF CallStep, InsertCommand, InsertConfirmation, Hear, ListCommands,
           LookAtNewest, Check, Dispatch, WriteConfirmation, WriteCommand,
           CallDies
  <2> QED BY <1>2, <2>1
<1>4. CASE j = k
  <2>1. ASSUME call'[k] = IdleCall PROVE FALSE
    BY <1>4, <2>1 DEF IdleCall
  <2>2. CASE InsertConfirmation(k) \/ WriteCommand(k) \/ CallDies(k)
    BY <1>1, <2>1, <2>2 DEF InsertConfirmation, WriteCommand, CallDies
  <2>3. CASE \/ ListCommands(k) \/ LookAtNewest(k)
             \/ \E v \in Conversations :
                  Hear(k, v) \/ \E c \in Commands : InsertCommand(k, c, v)
    <3>1. CASE ListCommands(k)
      BY <1>1, <1>4, <3>1 DEF ListCommands, CallRecords
    <3>2. CASE LookAtNewest(k)
      <4>1. ASSUME NEW c, call' = [call EXCEPT ![k].at = "check",
                                      ![k].command = c, ![k].todo = {}]
            PROVE  FALSE
        BY <1>1, <1>4, <4>1 DEF CallRecords
      <4>2. ASSUME NEW s, call' = [call EXCEPT ![k].todo = s], call[k].at = "look"
            PROVE  FALSE
        BY <1>1, <1>4, <4>2 DEF CallRecords
      <4> QED BY <1>1, <2>1, <3>2, <4>1, <4>2 DEF LookAtNewest
    <3>3. ASSUME NEW v, Hear(k, v) PROVE FALSE
      BY <1>1, <1>4, <3>3 DEF Hear, IdleCall
    <3>4. ASSUME NEW v, NEW c, InsertCommand(k, c, v) PROVE FALSE
      BY <1>1, <1>4, <3>4 DEF InsertCommand, IdleCall
    <3> QED BY <2>3, <3>1, <3>2, <3>3, <3>4
  <2>4. CASE Check(k)
    <3>1. ASSUME NEW outcome \in Refusals PROVE outcome.command # "executed"
      BY DEF Refusals, Outcome
    <3> QED BY <1>1, <1>4, <2>4, <3>1 DEF Check, CallRecords
  <2>5. ASSUME NEW sent \in BOOLEAN, NEW outcome \in Answered,
               Dispatch(k, sent, outcome)
        PROVE  dispatched'[call'[j].command] > 0
    <3>1. call[k].command \in Commands
      BY <1>1, <2>5 DEF Dispatch, CallShape
    <3>2. /\ call'[k].command = call[k].command
          /\ call'[k].outcome = outcome
      BY <1>1, <2>5 DEF Dispatch, CallRecords
    <3>3. sent
      BY <1>4, <2>5, <3>2 DEF Dispatch
    <3> QED BY <1>1, <1>4, <2>5, <3>1, <3>2, <3>3 DEF Dispatch
  <2>6. CASE WriteConfirmation(k)
    BY <1>1, <1>2, <1>4, <2>6 DEF WriteConfirmation, CallRecords
  <2> QED BY <2>2, <2>3, <2>4, <2>5, <2>6 DEF CallStep
<1> QED BY <1>3, <1>4

LEMMA ExecutedStep ==
  ASSUME VoiceInv, ExecutedInv, [Next]_vars
  PROVE  ExecutedInv'
<1>1. /\ TypeOK /\ CallShape /\ dispatched \in [Commands -> Nat]
      /\ command \in [Commands -> {"absent", "awaiting_confirmation", "executed",
                                   "clarification_requested", "denied", "failed"}]
  BY DEF VoiceInv, TypeOK
<1>2. CASE UNCHANGED vars
  BY <1>2 DEF ExecutedInv, vars, rowVars
<1>3. ASSUME NEW k \in Calls, CallStep(k) PROVE ExecutedInv'
  <2>1. ASSUME NEW c \in Commands, command'[c] = "executed"
        PROVE  dispatched'[c] > 0
    <3>1. CASE command[c] = "executed"
      BY <1>1, <1>3, <3>1, DispatchesGrow DEF ExecutedInv
    <3>2. CASE WriteCommand(k) /\ call[k].command = c /\ command' # command
      <4>1. call[k].outcome.command = "executed"
        BY <1>1, <2>1, <3>2 DEF WriteCommand
      <4> QED BY <1>1, <1>3, <3>2, <4>1, DispatchesGrow
              DEF WriteCommand, ExecutedInv
    <3>3. CASE \E v \in Conversations, d \in Commands : InsertCommand(k, d, v)
      BY <1>1, <2>1, <3>1, <3>3 DEF InsertCommand
    <3>4. CASE WriteCommand(k)
      BY <1>1, <2>1, <3>1, <3>2, <3>4 DEF WriteCommand
    <3> QED BY <1>3, <2>1, <3>1, <3>3, <3>4
            DEF CallStep, InsertConfirmation, Hear, ListCommands, LookAtNewest,
                Check, Dispatch, WriteConfirmation, CallDies, rowVars
  <2> QED BY <1>3, <2>1, ExecutedCalls DEF ExecutedInv
<1> QED BY <1>2, <1>3 DEF Next

\* However many confirmations of a command race each other, it is dispatched
\* at most once per concurrent call, and once more for each call of which not
\* one write arrived; and a command that says it was executed was dispatched.
THEOREM DispatchesAreBounded == Spec => []DispatchIsBounded
<1>1. VoiceInv /\ ExecutedInv => DispatchIsBounded
  <2> SUFFICES ASSUME VoiceInv, ExecutedInv, NEW c \in Commands
               PROVE  /\ dispatched[c] <= Cardinality(Calls) + lapsed[c]
                      /\ command[c] = "executed" => dispatched[c] > 0
    BY DEF DispatchIsBounded
  <2>1. Counted(c) /\ dispatched[c] \in Nat /\ lapsed[c] \in Nat
    BY DEF VoiceInv, TypeOK
  <2>2. Sent(c) \in SUBSET Calls /\ Held(c) \in SUBSET Calls
    BY DEF Sent, Held
  <2>3. /\ Cardinality(Sent(c)) \in Nat /\ Cardinality(Held(c)) \in Nat
        /\ Cardinality(Calls) \in Nat /\ Cardinality(Sent(c)) <= Cardinality(Calls)
    BY <2>2, CallsCounted
  <2> QED BY <2>1, <2>3 DEF Counted, ExecutedInv
<1>2. Spec => []VoiceInv
  BY Invariance
<1>3. Init => ExecutedInv
  BY DEF Init, IdleCall, ExecutedInv
<1> QED BY <1>1, <1>2, <1>3, ExecutedStep, PTL DEF Spec

-----------------------------------------------------------------------------
\* Awaiting commands without a pending confirmation, of all conversations.
Dead == {c \in Commands : command[c] = "awaiting_confirmation" /\ ~Answers(c)}

\* Those no call is about to write.
Uncovered == {c \in Dead : \A k \in Midway : call[k].command # c}

\* A dead command that nobody will write has cost a lost write.
PileInv == VoiceInv /\ Cardinality(Uncovered) <= lost

\* Only a lost write or a dead call leaves a dead command uncovered, its own.
LEMMA UncoveredGrows ==
  ASSUME VoiceInv, NEW k \in Calls, CallStep(k),
         NEW c \in Uncovered', c \notin Uncovered
  PROVE  c = call[k].command /\ Lose
<1>1. /\ TypeOK /\ CallShape /\ call \in [Calls -> CallRecords]
      /\ call[k] \in CallRecords /\ call[k].outcome \in Refusals \cup Answered
  BY DEF VoiceInv, TypeOK, CallRecords
<1>2. /\ c \in Commands /\ command'[c] = "awaiting_confirmation"
      /\ confirmation'[c] # "pending"
      /\ \A j \in Calls : call'[j].at \in {"challenge", "command"}
                            => call'[j].command # c
  BY DEF Uncovered, Dead, Answers, Midway
<1>3. \A j \in Calls : j # k => call'[j] = call[j]
  BY <1>1, OneCallMoves
<1>4. ASSUME command[c] = command'[c], confirmation[c] = confirmation'[c]
      PROVE  call[k].at \in {"challenge", "command"} /\ call[k].command = c
  <2>1. c \in Dead
    BY <1>2, <1>4 DEF Dead, Answers
  <2>2. PICK j \in Calls : call[j].at \in {"challenge", "command"}
                            /\ call[j].command = c
    BY <2>1 DEF Uncovered, Midway
  <2>3. j = k
    BY <1>2, <1>3, <2>2
  <2> QED BY <2>2, <2>3
<1>5. ASSUME NEW v \in Conversations, NEW d \in Commands, InsertCommand(k, d, v)
      PROVE  FALSE
  <2>1. call'[k].at = "challenge" /\ call'[k].command = d
    BY <1>1, <1>5 DEF InsertCommand, IdleCall
  <2>2. d # c
    BY <1>2, <2>1
  <2>3. command[c] = command'[c] /\ confirmation[c] = confirmation'[c]
    BY <1>1, <1>2, <1>5, <2>2 DEF InsertCommand, TypeOK
  <2> QED BY <1>4, <1>5, <2>3 DEF InsertCommand
<1>6. ASSUME \/ \E v \in Conversations : Hear(k, v)
             \/ ListCommands(k) \/ LookAtNewest(k) \/ Check(k)
             \/ \E sent \in BOOLEAN, outcome \in Answered : Dispatch(k, sent, outcome)
      PROVE  FALSE
  <2>1. /\ command[c] = command'[c] /\ confirmation[c] = confirmation'[c]
        /\ call[k].at \notin {"challenge", "command"}
    BY <1>6 DEF Hear, ListCommands, LookAtNewest, Check, Dispatch, rowVars
  <2> QED BY <1>4, <2>1
<1>7. ASSUME WriteConfirmation(k) PROVE FALSE
  <2>1. call'[k].at = "command" /\ call'[k].command = call[k].command
    BY <1>1, <1>7 DEF WriteConfirmation, CallRecords
  <2>2. call[k].command # c
    BY <1>2, <2>1
  <2>3. command[c] = command'[c] /\ confirmation[c] = confirmation'[c]
    BY <1>1, <1>2, <1>7, <2>2 DEF WriteConfirmation, TypeOK
  <2> QED BY <1>4, <2>2, <2>3
<1>8. CASE InsertConfirmation(k)
  <2>1. CASE Lose /\ UNCHANGED confirmation
    <3>1. command[c] = command'[c] /\ confirmation[c] = confirmation'[c]
      BY <1>8, <2>1 DEF InsertConfirmation
    <3> QED BY <1>4, <2>1, <3>1
  <2>2. CASE confirmation' = [confirmation EXCEPT ![call[k].command] = "pending"]
    <3>1. call[k].command # c
      BY <1>1, <1>2, <2>2 DEF TypeOK
    <3>2. command[c] = command'[c] /\ confirmation[c] = confirmation'[c]
      BY <1>1, <1>2, <1>8, <2>2, <3>1 DEF InsertConfirmation, TypeOK
    <3> QED BY <1>4, <3>1, <3>2
  <2> QED BY <1>8, <2>1, <2>2 DEF InsertConfirmation
<1>9. CASE WriteCommand(k)
  <2>1. CASE Lose /\ UNCHANGED command
    <3>1. command[c] = command'[c] /\ confirmation[c] = confirmation'[c]
      BY <1>9, <2>1 DEF WriteCommand
    <3> QED BY <1>4, <2>1, <3>1
  <2>2. CASE command' = [command EXCEPT ![call[k].command] = call[k].outcome.command]
    <3>1. call[k].command # c
      BY <1>1, <1>2, <2>2, OutcomeWords DEF TypeOK
    <3>2. command[c] = command'[c] /\ confirmation[c] = confirmation'[c]
      BY <1>1, <1>2, <1>9, <2>2, <3>1 DEF WriteCommand, TypeOK
    <3> QED BY <1>4, <3>1, <3>2
  <2> QED BY <1>9, <2>1, <2>2 DEF WriteCommand
<1>10. CASE CallDies(k)
  <2>1. command[c] = command'[c] /\ confirmation[c] = confirmation'[c]
    BY <1>10 DEF CallDies, rowVars
  <2> QED BY <1>4, <1>10, <2>1 DEF CallDies
<1> QED BY <1>5, <1>6, <1>7, <1>8, <1>9, <1>10 DEF CallStep

LEMMA CommandsFinite ==
  ASSUME NEW S \in SUBSET Commands
  PROVE  IsFiniteSet(S) /\ Cardinality(S) \in Nat
BY VoiceAssumption, FS_Subset, FS_CardinalityType

LEMMA LostOnlyGrows ==
  ASSUME TypeOK, NEW k \in Calls, CallStep(k)
  PROVE  lost \in Nat /\ lost' \in {lost, lost + 1}
<1>1. lost \in Nat
  BY VoiceAssumption DEF TypeOK
<1> QED BY <1>1 DEF CallStep, InsertCommand, InsertConfirmation, Hear, ListCommands,
      LookAtNewest, Check, Dispatch, WriteConfirmation, WriteCommand, CallDies, Lose

LEMMA PileInvStep == PileInv /\ [Next]_vars => PileInv'
<1> SUFFICES ASSUME PileInv, [Next]_vars PROVE PileInv'
  OBVIOUS
<1>1. VoiceInv /\ VoiceInv' /\ TypeOK
  BY VoiceInvStep DEF PileInv, VoiceInv
<1>2. ASSUME NEW k \in Calls, CallStep(k) PROVE Cardinality(Uncovered') <= lost'
  <2>1. Uncovered \in SUBSET Commands /\ Uncovered' \in SUBSET Commands
    BY DEF Uncovered, Dead
  <2>2. /\ IsFiniteSet(Uncovered) /\ Cardinality(Uncovered) \in Nat
        /\ Cardinality(Uncovered') \in Nat
    BY <2>1, CommandsFinite
  <2>3. lost \in Nat /\ lost' \in {lost, lost + 1}
    BY <1>1, <1>2, LostOnlyGrows
  <2>4. CASE Uncovered' \subseteq Uncovered
    <3>1. Cardinality(Uncovered') <= Cardinality(Uncovered)
      BY <2>2, <2>4, FS_Subset
    <3> QED BY <2>2, <2>3, <3>1 DEF PileInv
  <2>5. CASE ~(Uncovered' \subseteq Uncovered)
    <3> DEFINE more == Uncovered \cup {call[k].command}
    <3>1. Lose /\ Uncovered' \subseteq more
      BY <1>1, <1>2, <2>5, UncoveredGrows
    <3>2. /\ IsFiniteSet(more) /\ Cardinality(more) \in Nat
          /\ Cardinality(more) <= Cardinality(Uncovered) + 1
      BY <2>2, FS_AddElement
    <3>3. Cardinality(Uncovered') <= Cardinality(more)
      BY <3>1, <3>2, FS_Subset
    <3>4. lost' = lost + 1
      BY <3>1 DEF Lose
    <3> HIDE DEF more
    <3> QED BY <2>2, <2>3, <3>2, <3>3, <3>4 DEF PileInv
  <2> QED BY <2>4, <2>5
<1>3. CASE UNCHANGED vars
  BY <1>1, <1>3 DEF PileInv, Uncovered, Dead, Answers, Midway, vars, rowVars
<1> QED BY <1>1, <1>2, <1>3 DEF Next, PileInv

LEMMA InitPile == Init => PileInv
<1> SUFFICES ASSUME Init PROVE PileInv
  OBVIOUS
<1>1. Uncovered = {}
  BY DEF Init, Uncovered, Dead
<1>2. Cardinality({}) <= 0
  BY FS_EmptySet
<1> QED BY <1>1, <1>2, InitInv DEF Init, PileInv

\* The dead commands of a conversation are covered, or were paid for.
LEMMA FewOrphans ==
  ASSUME PileInv, NEW v \in Conversations
  PROVE  Cardinality(Orphans(v)) <= lost + Cardinality(Midway)
<1> DEFINE covered == {call[k].command : k \in Midway}
<1>1. /\ TypeOK /\ CallShape /\ lost \in Nat
      /\ Cardinality(Uncovered) <= lost
  BY VoiceAssumption DEF PileInv, VoiceInv, TypeOK
<1>2. IsFiniteSet(Midway) /\ Cardinality(Midway) \in Nat
  BY VoiceAssumption, FS_Subset, FS_CardinalityType DEF Midway
<1>3. /\ IsFiniteSet(covered) /\ Cardinality(covered) \in Nat
      /\ Cardinality(covered) <= Cardinality(Midway)
  <2> DEFINE f == [k \in Midway |-> call[k].command]
  <2>1. f \in Surjection(Midway, covered)
    BY DEF Surjection
  <2> HIDE DEF f
  <2> QED BY <1>2, <2>1, FS_Surjection, FS_CardinalityType
<1>4. /\ IsFiniteSet(Uncovered) /\ Cardinality(Uncovered) \in Nat
  <2>1. Uncovered \in SUBSET Commands
    BY DEF Uncovered, Dead
  <2> QED BY <2>1, CommandsFinite
<1>5. Orphans(v) \subseteq Uncovered \cup covered
  BY DEF Orphans, Awaiting, Uncovered, Dead
<1> HIDE DEF covered
<1>6. /\ IsFiniteSet(Uncovered \cup covered)
      /\ Cardinality(Uncovered \cup covered)
           <= Cardinality(Uncovered) + Cardinality(covered)
  <2>1. Cardinality(Uncovered \cap covered) \in Nat
    <3>1. Uncovered \cap covered \in SUBSET Uncovered
      OBVIOUS
    <3> QED BY <1>4, <3>1, FS_Subset, FS_CardinalityType
  <2> QED BY <1>3, <1>4, <2>1, FS_Union
<1>7. /\ Cardinality(Uncovered \cup covered) \in Nat
      /\ Cardinality(Orphans(v)) \in Nat
      /\ Cardinality(Orphans(v)) <= Cardinality(Uncovered \cup covered)
  BY <1>5, <1>6, FS_Subset, FS_CardinalityType
<1> QED BY <1>1, <1>2, <1>3, <1>4, <1>6, <1>7

\* A finite set of ids has a newest one.
LEMMA NewestExists ==
  ASSUME NEW S \in SUBSET Commands, S # {}
  PROVE  \E c \in S : \A d \in S : ~(c < d)
<1> DEFINE newer(c) == {d \in S : c < d}
           T == {newer(c) : c \in S}
<1>1. S \subseteq Nat /\ IsFiniteSet(S)
  BY VoiceAssumption, CommandsFinite
<1>2. T # {} /\ T \subseteq FiniteSubsetsOf(S)
  <2>1. ASSUME NEW c \in S PROVE newer(c) \in FiniteSubsetsOf(S)
    <3>1. newer(c) \in SUBSET S
      OBVIOUS
    <3> HIDE DEF newer
    <3>2. IsFiniteSet(newer(c))
      BY <1>1, <3>1, FS_Subset
    <3> QED BY <3>1, <3>2 DEF FiniteSubsetsOf
  <2> QED BY <2>1
<1>3. PICK x \in T : \A y \in T : ~(<<y, x>> \in StrictSubsetOrdering(S))
  <2> HIDE DEF T
  <2> QED BY <1>2, WFMin, FS_StrictSubsetOrderingWellFounded
<1>4. PICK c \in S : x = newer(c)
  OBVIOUS
<1>5. ASSUME NEW d \in S, c < d PROVE FALSE
  <2>1. newer(d) \subseteq newer(c) /\ d \in newer(c) /\ d \notin newer(d)
    <3>1. c \in Nat /\ d \in Nat /\ ~(d < d)
      BY <1>1
    <3>2. ASSUME NEW e \in S, d < e PROVE c < e
      <4>1. e \in Nat
        BY <1>1
      <4> QED BY <1>5, <3>1, <3>2, <4>1
    <3> QED BY <1>5, <3>1, <3>2
  <2>2. <<newer(d), newer(c)>> \in StrictSubsetOrdering(S)
    BY <2>1 DEF StrictSubsetOrdering
  <2> QED BY <1>3, <1>4, <2>2
<1> QED BY <1>5

\* As long as fewer writes were lost or are under way than a follow-up looks
\* at commands, it finds a pending challenge if there is one.
THEOREM ChallengesAreReachable == Spec => []PendingIsReachable
<1>1. PileInv => PendingIsReachable
  <2> SUFFICES ASSUME PileInv, lost + Cardinality(Midway) < Lookback,
                      NEW v \in Conversations, \E c \in Awaiting(v) : Answers(c)
               PROVE  \E c \in Newest(Awaiting(v)) : Answers(c)
    BY DEF PendingIsReachable
  <2> DEFINE S == {c \in Awaiting(v) : Answers(c)}
  <2>1. S \in SUBSET Commands /\ S # {}
    BY DEF Awaiting
  <2> HIDE DEF S
  <2>2. PICK c \in S : \A d \in S : ~(c < d)
    BY <2>1, NewestExists
  <2> DEFINE newer == {d \in Awaiting(v) : c < d}
  <2>3. newer \subseteq Orphans(v)
    BY <2>2 DEF S, Orphans
  <2>4. Orphans(v) \in SUBSET Commands
    BY DEF Orphans, Awaiting
  <2>5. /\ IsFiniteSet(Orphans(v)) /\ Cardinality(Orphans(v)) \in Nat
        /\ Cardinality(newer) \in Nat
    BY <2>3, <2>4, CommandsFinite
  <2>6. Cardinality(newer) <= Cardinality(Orphans(v))
    BY <2>3, <2>5, FS_Subset
  <2>7. Cardinality(Orphans(v)) <= lost + Cardinality(Midway)
    BY FewOrphans
  <2>8. lost \in Nat /\ Cardinality(Midway) \in Nat /\ Lookback \in Nat
    BY VoiceAssumption, FS_Subset, FS_CardinalityType
       DEF Midway, PileInv, VoiceInv, TypeOK
  <2>9. Cardinality(newer) < Lookback
    BY <2>5, <2>6, <2>7, <2>8
  <2> QED BY <2>9 DEF Newest, S
<1>2. Init => PileInv
  BY InitPile
<1>3. PileInv /\ [Next]_vars => PileInv'
  BY PileInvStep
<1> QED BY <1>1, <1>2, <1>3, PTL DEF Spec
=============================================================================
