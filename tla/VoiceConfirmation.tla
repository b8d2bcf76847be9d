-------------------------- MODULE VoiceConfirmation --------------------------
(***************************************************************************)
(* Spoken commands of high risk.  handleVoiceCommand answers such a        *)
(* command with a challenge, a voice_commands row and a                    *)
(* voice_confirmation_requests row; an utterance that begins with          *)
(* "confirm" resolves the latest pending challenge of its user and         *)
(* conversation (tryResolveConfirmationFollowUp): it dispatches the        *)
(* command first and writes the two rows afterwards, by id.  The           *)
(* repository never throws; a write that fails is only logged.             *)
(*                                                                         *)
(* Commands that need no challenge, or whose request asserts the           *)
(* confirmation, are dispatched at once and leave no row: not modelled.    *)
(* Phrases, roles and the clock decide how a challenge is answered, which  *)
(* is all the rows keep of them: an answer comes to any outcome.           *)
(***************************************************************************)
EXTENDS Integers, FiniteSets

CONSTANTS
  Commands,       \* ids of voice_commands rows, in the order of creation
  Conversations,  \* a user in a conversation
  Calls,          \* concurrent calls of handleVoiceCommand
  Lookback,       \* commands a follow-up looks at, 5 in the code
  MaxLost,        \* writes that fail and calls that die
  NoCommand,      \* a call works on no command
  Nobody          \* the conversation of a command that is not there yet

ASSUME VoiceAssumption ==
  /\ Commands \subseteq Nat
  /\ NoCommand \notin Commands
  /\ Nobody \notin Conversations
  /\ IsFiniteSet(Calls) /\ IsFiniteSet(Commands)
  /\ {Lookback, MaxLost} \subseteq Nat

VARIABLES
  conversation,  \* client, user and conversation of a command
  command,       \* voice_commands.status
  confirmation,  \* status of its confirmation request, or none
  call,          \* local state of every call
  dispatched,    \* how often a command was dispatched
  lapsed,        \* history variable: calls that dispatched a command and
                 \* wrote neither of its rows
  lost           \* history variable: failed writes and dead calls

rowVars == <<command, confirmation>>
vars == <<conversation, rowVars, call, dispatched, lapsed, lost>>

\* What an utterance can come to: a status for each of the two rows.
Outcome(c, s) == [confirmation |-> c, command |-> s]

\* Without a dispatch: five minutes are over; another phrase, or a role that
\* may not; the stored payload cannot be read.
Refusals == {Outcome("expired", "failed"), Outcome("rejected", "denied"),
             Outcome("rejected", "failed")}

\* After routeVoiceCommand: done, a slot is missing, it has thrown.
Answered == {Outcome("confirmed", "executed"),
             Outcome("confirmed", "clarification_requested"),
             Outcome("rejected", "failed")}

NoOutcome == Outcome("rejected", "denied")

IdleCall == [at |-> "idle", to |-> Nobody, todo |-> {},
             command |-> NoCommand, outcome |-> NoOutcome,
             sent |-> FALSE, landed |-> FALSE]

TypeOK ==
  /\ conversation \in [Commands -> Conversations \cup {Nobody}]
  /\ command \in [Commands -> {"absent", "awaiting_confirmation", "executed",
                               "clarification_requested", "denied", "failed"}]
  /\ confirmation \in [Commands -> {"none", "pending", "confirmed", "rejected",
                                    "expired"}]
  /\ call \in [Calls ->
       [at : {"idle", "challenge", "list", "look", "check", "dispatch",
              "confirmation", "command"},
        to : Conversations \cup {Nobody}, todo : SUBSET Commands,
        command : Commands \cup {NoCommand},
        outcome : Refusals \cup Answered, sent : BOOLEAN, landed : BOOLEAN]]
  /\ dispatched \in [Commands -> Nat]
  /\ lapsed \in [Commands -> Nat]
  /\ lost \in 0..MaxLost

Init ==
  /\ conversation = [c \in Commands |-> Nobody]
  /\ command = [c \in Commands |-> "absent"]
  /\ confirmation = [c \in Commands |-> "none"]
  /\ call = [k \in Calls |-> IdleCall]
  /\ dispatched = [c \in Commands |-> 0]
  /\ lapsed = [c \in Commands |-> 0]
  /\ lost = 0

-----------------------------------------------------------------------------
Lose == lost < MaxLost /\ lost' = lost + 1

\* persistConfirmationChallenge inserts the command; if that fails there is
\* nothing to confirm.
InsertCommand(k, c, v) ==
  /\ call[k].at = "idle"
  /\ command[c] = "absent"
  /\ \A d \in Commands : command[d] # "absent" => d < c
  /\ command' = [command EXCEPT ![c] = "awaiting_confirmation"]
  /\ conversation' = [conversation EXCEPT ![c] = v]
  /\ call' = [call EXCEPT ![k] = [IdleCall EXCEPT !.at = "challenge",
                                                  !.command = c]]
  /\ UNCHANGED <<confirmation, dispatched, lapsed, lost>>

\* If the second insert fails the command stays behind without a
\* confirmation, and the prompt is spoken all the same.
InsertConfirmation(k) ==
  /\ call[k].at = "challenge"
  /\ \/ /\ confirmation' = [confirmation EXCEPT ![call[k].command] = "pending"]
        /\ UNCHANGED lost
     \/ Lose /\ UNCHANGED confirmation
  /\ call' = [call EXCEPT ![k] = IdleCall]
  /\ UNCHANGED <<conversation, command, dispatched, lapsed>>

-----------------------------------------------------------------------------
\* "confirm ..."
Hear(k, v) ==
  /\ call[k].at = "idle"
  /\ call' = [call EXCEPT ![k] = [IdleCall EXCEPT !.at = "list", !.to = v]]
  /\ UNCHANGED <<conversation, rowVars, dispatched, lapsed, lost>>

\* Mutant of Awaiting: the status of the command is not asked for.
AwaitingAny(v) == {c \in Commands : conversation[c] = v}

Awaiting(v) ==
  {c \in Commands : conversation[c] = v /\ command[c] = "awaiting_confirmation"}

\* order by created_at desc limit Lookback
Newest(s) == {c \in s : Cardinality({d \in s : c < d}) < Lookback}

ListCommands(k) ==
  /\ call[k].at = "list"
  /\ call' = [call EXCEPT ![k].at = "look",
                          ![k].todo = Newest(Awaiting(call[k].to))]
  /\ UNCHANGED <<conversation, rowVars, dispatched, lapsed, lost>>

\* Mutant of Answers: the status of the confirmation is not asked for.
AnswersAny(c) == confirmation[c] # "none"

\* The command has a confirmation request that is pending.
Answers(c) == confirmation[c] = "pending"

\* One row of the list after another, the newest first, until a confirmation
\* is pending; its command is not tested again.  A query that fails passes the
\* row over; nothing is left, or a query throws, and there is no pending action.
LookAtNewest(k) ==
  LET todo == call[k].todo IN
  /\ call[k].at = "look"
  /\ \/ call' = [call EXCEPT ![k] = IdleCall]
     \/ \E c \in todo :
          /\ \A d \in todo : d <= c
          /\ \/ /\ Answers(c)
                /\ call' = [call EXCEPT ![k].at = "check", ![k].command = c,
                                        ![k].todo = {}]
             \/ call' = [call EXCEPT ![k].todo = @ \ {c}]
  /\ UNCHANGED <<conversation, rowVars, dispatched, lapsed, lost>>

\* The challenge is resolved without a dispatch, or found to be answered.
Check(k) ==
  /\ call[k].at = "check"
  /\ \/ \E outcome \in Refusals :
          call' = [call EXCEPT ![k].at = "confirmation", ![k].outcome = outcome]
     \/ call' = [call EXCEPT ![k].at = "dispatch"]
  /\ UNCHANGED <<conversation, rowVars, dispatched, lapsed, lost>>

\* routeVoiceCommand sends the events of the command, or finds that a slot is
\* missing, or throws, and then the events may have been sent or not.
Dispatch(k, sent, outcome) ==
  /\ call[k].at = "dispatch"
  /\ outcome.command = "executed" => sent
  /\ outcome.command = "clarification_requested" => ~sent
  /\ dispatched' = IF sent THEN [dispatched EXCEPT ![call[k].command] = @ + 1]
                   ELSE dispatched
  /\ call' = [call EXCEPT ![k].at = "confirmation", ![k].outcome = outcome,
                          ![k].sent = sent]
  /\ UNCHANGED <<conversation, rowVars, lapsed, lost>>

\* Mutant of WriteConfirmation: the request gets the word of the command.
WriteConfirmationAsCommand(k) ==
  /\ call[k].at = "confirmation"
  /\ confirmation' =
       [confirmation EXCEPT ![call[k].command] = call[k].outcome.command]
  /\ call' = [call EXCEPT ![k].at = "command", ![k].landed = TRUE]
  /\ UNCHANGED <<conversation, command, dispatched, lapsed, lost>>

\* updateConfirmationRequestStatus
WriteConfirmation(k) ==
  LET c == call[k].command IN
  /\ call[k].at = "confirmation"
  /\ \/ /\ confirmation' =
             [confirmation EXCEPT ![c] = call[k].outcome.confirmation]
        /\ call' = [call EXCEPT ![k].at = "command", ![k].landed = TRUE]
        /\ UNCHANGED lost
     \/ /\ Lose
        /\ call' = [call EXCEPT ![k].at = "command"]
        /\ UNCHANGED confirmation
  /\ UNCHANGED <<conversation, command, dispatched, lapsed>>

\* The history of a call that ends without another write.
Lapse(k) ==
  lapsed' = IF call[k].sent /\ ~call[k].landed
            THEN [lapsed EXCEPT ![call[k].command] = @ + 1] ELSE lapsed

\* Mutant of WriteCommand: only a dispatched command is updated, as if the
\* confirmation request alone told a cancelled challenge from a pending one.
WriteCommandIfDispatched(k) ==
  /\ call[k].at = "command"
  /\ command' = IF call[k].outcome.confirmation = "confirmed"
                THEN [command EXCEPT
                        ![call[k].command] = call[k].outcome.command]
                ELSE command
  /\ call' = [call EXCEPT ![k] = IdleCall]
  /\ UNCHANGED <<conversation, confirmation, dispatched, lapsed, lost>>

\* updateCommandStatus
WriteCommand(k) ==
  /\ call[k].at = "command"
  /\ \/ /\ command' =
             [command EXCEPT ![call[k].command] = call[k].outcome.command]
        /\ UNCHANGED <<lapsed, lost>>
     \/ Lose /\ Lapse(k) /\ UNCHANGED command
  /\ call' = [call EXCEPT ![k] = IdleCall]
  /\ UNCHANGED <<conversation, confirmation, dispatched>>

\* The process dies.
CallDies(k) ==
  /\ call[k].at # "idle"
  /\ Lose
  /\ Lapse(k)
  /\ call' = [call EXCEPT ![k] = IdleCall]
  /\ UNCHANGED <<conversation, rowVars, dispatched>>

-----------------------------------------------------------------------------
CallStep(k) ==
  \/ InsertConfirmation(k) \/ ListCommands(k) \/ LookAtNewest(k) \/ Check(k)
  \/ WriteConfirmation(k) \/ WriteCommand(k) \/ CallDies(k)
  \/ \E sent \in BOOLEAN, outcome \in Answered : Dispatch(k, sent, outcome)
  \/ \E v \in Conversations : Hear(k, v) \/ \E c \in Commands : InsertCommand(k, c, v)

Next == \E k \in Calls : CallStep(k)

Spec == Init /\ [][Next]_vars

-----------------------------------------------------------------------------
\* Nothing makes a confirmation good for one dispatch only: the rows change
\* after the dispatch.  But their two statuses secure each other: a command is
\* dispatched once by each of the calls in flight at most, and again only
\* after a call of which not one write arrived.  And a command that says it
\* was executed was dispatched, whichever call wrote that last.
DispatchIsBounded ==
  \A c \in Commands :
    /\ dispatched[c] <= Cardinality(Calls) + lapsed[c]
    /\ command[c] = "executed" => dispatched[c] > 0

\* Awaiting commands nobody can confirm.
Orphans(v) == {c \in Awaiting(v) : ~Answers(c)}

\* Calls between their two writes.
Midway == {k \in Calls : call[k].at \in {"challenge", "command"}}

\* A follow-up looks at a few commands only.  As long as fewer writes than
\* that were lost or are under way, no pile of dead commands hides a pending
\* challenge from it.
PendingIsReachable ==
  lost + Cardinality(Midway) < Lookback =>
    \A v \in Conversations :
      (\E c \in Awaiting(v) : Answers(c))
        => \E c \in Newest(Awaiting(v)) : Answers(c)
=============================================================================
