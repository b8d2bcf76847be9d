--------------------------- MODULE RiskExceptions ---------------------------
(***************************************************************************)
(* Risk exceptions: POST /api/risk-exceptions asks for one, .../{id}/      *)
(* approve and .../{id}/reject decide it.  Each route is a select, a write *)
(* of the exception and a write of its finding, without a transaction, and *)
(* no index forbids a second active exception.  Deadlines of the review    *)
(* are the affair of module SlaSweep.  Nothing in the code ever makes an   *)
(* exception expired or revoked.                                           *)
(***************************************************************************)
EXTENDS Integers, FiniteSets

CONSTANTS
  Exceptions,   \* ids of risk_exceptions rows
  Findings,     \* ids of findings rows
  Posts,        \* concurrent calls of POST /api/risk-exceptions
  Reviewers,    \* concurrent calls of approve and reject
  NoFinding,    \* a call works on no finding
  NoException   \* a call works on no exception

ASSUME RiskAssumption ==
  /\ IsFiniteSet(Exceptions) /\ IsFiniteSet(Posts)
  /\ IsFiniteSet(Reviewers) /\ Reviewers # {}
  /\ NoFinding \notin Findings
  /\ NoException \notin Exceptions

VARIABLES
  status,            \* risk_exceptions.status, or absent
  finding_id,        \* the finding of an exception
  exception_status,  \* findings.exception_status
  finding_status,    \* findings.status, "open" for any but risk_accepted
  post,              \* local state of every POST call
  review,            \* local state of every approve or reject call
  approvedOnce       \* history variable: exceptions that have been approved

findingVars == <<exception_status, finding_status>>
exceptionVars == <<status, finding_id, approvedOnce>>
vars == <<exceptionVars, findingVars, post, review>>

IdlePost == [at |-> "idle", finding |-> NoFinding]

IdleReview == [at |-> "idle", exception |-> NoException, to |-> "approved"]

TypeOK ==
  /\ status \in [Exceptions -> {"absent", "requested", "approved", "rejected"}]
  /\ finding_id \in [Exceptions -> Findings \cup {NoFinding}]
  /\ \A e \in Exceptions : status[e] = "absent" <=> finding_id[e] = NoFinding
  /\ exception_status \in
       [Findings -> {"none", "requested", "approved", "denied"}]
  /\ finding_status \in [Findings -> {"open", "risk_accepted"}]
  /\ post \in [Posts -> [at : {"idle", "insert", "finding"},
                         finding : Findings \cup {NoFinding}]]
  /\ \A p \in Posts : post[p].at = "idle" <=> post[p].finding = NoFinding
  /\ review \in [Reviewers -> [at : {"idle", "row", "finding"},
                               exception : Exceptions \cup {NoException},
                               to : {"approved", "rejected"}]]
  /\ \A v \in Reviewers :
       review[v].at # "idle" =>
         review[v].exception \in Exceptions /\ status[review[v].exception] # "absent"
  /\ approvedOnce \subseteq Exceptions

Init ==
  /\ status = [e \in Exceptions |-> "absent"]
  /\ finding_id = [e \in Exceptions |-> NoFinding]
  /\ exception_status = [f \in Findings |-> "none"]
  /\ finding_status = [f \in Findings |-> "open"]
  /\ post = [p \in Posts |-> IdlePost]
  /\ review = [v \in Reviewers |-> IdleReview]
  /\ approvedOnce = {}

\* The exceptions that keep a finding from getting another one.
Active(f) ==
  {e \in Exceptions : finding_id[e] = f /\ status[e] \in {"requested", "approved"}}

-----------------------------------------------------------------------------
PostGoto(p, label) ==
  post' = [post EXCEPT ![p] = IF label = "idle" THEN IdlePost
                                                ELSE [@ EXCEPT !.at = label]]

\* Mutant of FindActive: only undecided exceptions are looked for.
FindRequested(p, f) ==
  /\ post[p].at = "idle"
  /\ {e \in Active(f) : status[e] = "requested"} = {}
  /\ post' = [post EXCEPT ![p] = [at |-> "insert", finding |-> f]]
  /\ UNCHANGED <<exceptionVars, findingVars, review>>

\* One active exception answers 409, several make maybeSingle fail: a call
\* goes on only when there is none.
FindActive(p, f) ==
  /\ post[p].at = "idle"
  /\ Active(f) = {}
  /\ post' = [post EXCEPT ![p] = [at |-> "insert", finding |-> f]]
  /\ UNCHANGED <<exceptionVars, findingVars, review>>

InsertException(p, e) ==
  /\ post[p].at = "insert"
  /\ status[e] = "absent"
  /\ status' = [status EXCEPT ![e] = "requested"]
  /\ finding_id' = [finding_id EXCEPT ![e] = post[p].finding]
  /\ PostGoto(p, "finding")
  /\ UNCHANGED <<approvedOnce, findingVars, review>>

MarkRequested(p) ==
  /\ post[p].at = "finding"
  /\ exception_status' =
       [exception_status EXCEPT ![post[p].finding] = "requested"]
  /\ PostGoto(p, "idle")
  /\ UNCHANGED <<exceptionVars, finding_status, review>>

\* A statement fails and the call answers 500, or the process dies.
PostDies(p) ==
  /\ post[p].at # "idle"
  /\ PostGoto(p, "idle")
  /\ UNCHANGED <<exceptionVars, findingVars, review>>

-----------------------------------------------------------------------------
ReviewGoto(v, label) ==
  review' = [review EXCEPT ![v] = IF label = "idle" THEN IdleReview
                                                    ELSE [@ EXCEPT !.at = label]]

\* Mutant of ReadException: the finding is written before the exception.
ReadExceptionAndAccept(v, e, to) ==
  /\ review[v].at = "idle"
  /\ e \in Exceptions /\ status[e] = "requested"
  /\ review' = [review EXCEPT ![v] = [at |-> "row", exception |-> e, to |-> to]]
  /\ exception_status' =
       [exception_status EXCEPT
          ![finding_id[e]] = IF to = "approved" THEN "approved" ELSE "denied"]
  /\ UNCHANGED <<exceptionVars, finding_status, post>>

\* "Risk exception is not requestable" unless it is requested.
ReadException(v, e, to) ==
  /\ review[v].at = "idle"
  /\ e \in Exceptions /\ status[e] = "requested"
  /\ review' = [review EXCEPT ![v] = [at |-> "row", exception |-> e, to |-> to]]
  /\ UNCHANGED <<exceptionVars, findingVars, post>>

\* By id and tenant: the status is not tested again.
WriteException(v) ==
  LET e == review[v].exception IN
  /\ review[v].at = "row"
  /\ status' = [status EXCEPT ![e] = review[v].to]
  /\ approvedOnce' =
       IF review[v].to = "approved" THEN approvedOnce \cup {e} ELSE approvedOnce
  /\ ReviewGoto(v, "finding")
  /\ UNCHANGED <<finding_id, findingVars, post>>

\* Mutant of WriteFinding: the finding gets the word of the exception.
WriteFindingAsException(v) ==
  LET f == finding_id[review[v].exception] IN
  /\ review[v].at = "finding"
  /\ exception_status' = [exception_status EXCEPT ![f] = review[v].to]
  /\ ReviewGoto(v, "idle")
  /\ UNCHANGED <<exceptionVars, finding_status, post>>

\* An approval accepts the finding's risk; a rejection leaves its status.
WriteFinding(v) ==
  LET f == finding_id[review[v].exception]
      approved == review[v].to = "approved"
  IN
  /\ review[v].at = "finding"
  /\ exception_status' = [exception_status EXCEPT
                            ![f] = IF approved THEN "approved" ELSE "denied"]
  /\ finding_status' = [finding_status EXCEPT
                          ![f] = IF approved THEN "risk_accepted" ELSE @]
  /\ ReviewGoto(v, "idle")
  /\ UNCHANGED <<exceptionVars, post>>

ReviewDies(v) ==
  /\ review[v].at # "idle"
  /\ ReviewGoto(v, "idle")
  /\ UNCHANGED <<exceptionVars, findingVars, post>>

-----------------------------------------------------------------------------
\* The evaluate-findings step of a scan, which runs again when it fails,
\* and PATCH /api/findings/{id}/status, which takes any status.
FindingEvaluated(f, wanted) ==
  /\ exception_status' = [exception_status EXCEPT ![f] = wanted]
  /\ UNCHANGED <<exceptionVars, finding_status, post, review>>

FindingPatched(f, s) ==
  /\ finding_status' = [finding_status EXCEPT ![f] = s]
  /\ UNCHANGED <<exceptionVars, exception_status, post, review>>

PostStep(p) ==
  \/ \E f \in Findings : FindActive(p, f)
  \/ \E e \in Exceptions : InsertException(p, e)
  \/ MarkRequested(p) \/ PostDies(p)

ReviewStep(v) ==
  \/ \E e \in Exceptions, to \in {"approved", "rejected"} :
       ReadException(v, e, to)
  \/ WriteException(v) \/ WriteFinding(v) \/ ReviewDies(v)

Next ==
  \/ \E p \in Posts : PostStep(p)
  \/ \E v \in Reviewers : ReviewStep(v)
  \/ \E f \in Findings :
       \/ \E wanted \in {"none", "requested"} : FindingEvaluated(f, wanted)
       \/ \E s \in {"open", "risk_accepted"} : FindingPatched(f, s)

Spec == Init /\ [][Next]_vars

-----------------------------------------------------------------------------
\* The select before the insert cannot stop concurrent calls, and an approval
\* that read a request before it was rejected makes it active again.  Still
\* each call in flight adds at most one: a finding never has more active
\* exceptions than that, however often calls are repeated.
ActiveIsBounded ==
  \A f \in Findings :
    Cardinality(Active(f)) <= Cardinality(Posts) + Cardinality(Reviewers) - 1

\* A finding's exception is shown as approved only if an exception of that
\* finding has been approved, although the finding is written last and
\* scans and other calls write the same column.
ApprovedHasException ==
  \A f \in Findings :
    exception_status[f] = "approved" =>
      \E e \in approvedOnce : finding_id[e] = f
=============================================================================
