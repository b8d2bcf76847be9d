------------------------ MODULE RiskExceptions_proofs ------------------------
(***************************************************************************)
(* Theorems about risk exceptions, for any number of exceptions, findings  *)
(* and concurrent calls.                                                   *)
(***************************************************************************)
EXTENDS RiskExceptions, FiniteSetTheorems, TLAPS

\* A reviewer that is about to approve an exception rejected meanwhile.
Reviver(v) ==
  /\ review[v].at = "row" /\ review[v].to = "approved"
  /\ status[review[v].exception] = "rejected"

Revivers == {v \in Reviewers : Reviver(v)}

\* The rejected exceptions of a finding that such a reviewer makes active.
Revivable(f) ==
  {e \in Exceptions : /\ finding_id[e] = f
                      /\ \E v \in Revivers : review[v].exception = e}

Live(f) == Active(f) \cup Revivable(f)

\* The calls that have found a finding without an active exception.
Inserting(f) == {p \in Posts : post[p].at = "insert" /\ post[p].finding = f}

\* The reviewer that made the last exception revivable is done with it.
SomebodyIsFree == Revivers # Reviewers

LiveIsBounded ==
  \A f \in Findings :
    Cardinality(Live(f)) + Cardinality(Inserting(f))
      <= Cardinality(Posts) + Cardinality(Reviewers) - 1

\* The history of approvals.
ApprovalsKnown ==
  /\ \A e \in approvedOnce : status[e] # "absent"
  /\ \A v \in Reviewers :
       review[v].at = "finding" /\ review[v].to = "approved"
         => review[v].exception \in approvedOnce

\* The inductive invariant.
RiskInv ==
  /\ TypeOK
  /\ SomebodyIsFree
  /\ LiveIsBounded
  /\ ApprovalsKnown
  /\ ApprovedHasException

LEMMA InitTyped == Init => TypeOK
BY RiskAssumption DEF Init, TypeOK, IdlePost, IdleReview

-----------------------------------------------------------------------------
\* Type correctness, action by action.
LEMMA PostTyped ==
  ASSUME TypeOK, NEW p \in Posts, PostStep(p)
  PROVE  TypeOK'
<1>1. CASE \E f \in Findings : FindActive(p, f)
  BY <1>1, RiskAssumption DEF TypeOK, FindActive, exceptionVars, findingVars
<1>2. CASE \E e \in Exceptions : InsertException(p, e)
  <2> PICK e \in Exceptions : InsertException(p, e)
    BY <1>2
  <2>1. post[p].finding \in Findings
    BY DEF TypeOK, InsertException
  <2>2. /\ status' \in [Exceptions -> {"absent", "requested", "approved", "rejected"}]
        /\ finding_id' \in [Exceptions -> Findings \cup {NoFinding}]
        /\ \A x \in Exceptions : status'[x] = "absent" <=> finding_id'[x] = NoFinding
    BY <2>1, RiskAssumption DEF TypeOK, InsertException
  <2>3. /\ post' \in [Posts -> [at : {"idle", "insert", "finding"},
                                finding : Findings \cup {NoFinding}]]
        /\ \A x \in Posts : post'[x].at = "idle" <=> post'[x].finding = NoFinding
    BY RiskAssumption DEF TypeOK, InsertException, PostGoto
  <2>4. \A v \in Reviewers :
          review'[v].at # "idle" =>
            /\ review'[v].exception \in Exceptions
            /\ status'[review'[v].exception] # "absent"
    BY DEF TypeOK, InsertException
  <2> QED
    BY <2>2, <2>3, <2>4 DEF TypeOK, InsertException, findingVars
<1>3. CASE MarkRequested(p)
  BY <1>3, RiskAssumption
     DEF TypeOK, MarkRequested, PostGoto, IdlePost, exceptionVars
<1>4. CASE PostDies(p)
  BY <1>4, RiskAssumption
     DEF TypeOK, PostDies, PostGoto, IdlePost, exceptionVars, findingVars
<1> QED
  BY <1>1, <1>2, <1>3, <1>4 DEF PostStep

LEMMA ReviewTyped ==
  ASSUME TypeOK, NEW v \in Reviewers, ReviewStep(v)
  PROVE  TypeOK'
<1>1. CASE \E e \in Exceptions, to \in {"approved", "rejected"} :
             ReadException(v, e, to)
  BY <1>1, RiskAssumption DEF TypeOK, ReadException, exceptionVars, findingVars
<1>2. CASE WriteException(v)
  <2> DEFINE e == review[v].exception
  <2>1. e \in Exceptions /\ status[e] # "absent" /\ finding_id[e] # NoFinding
    BY <1>2 DEF TypeOK, WriteException
  <2>2. /\ status' \in [Exceptions -> {"absent", "requested", "approved", "rejected"}]
        /\ \A x \in Exceptions : status'[x] = "absent" <=> finding_id[x] = NoFinding
    BY <1>2, <2>1 DEF TypeOK, WriteException
  <2>3. review' \in [Reviewers -> [at : {"idle", "row", "finding"},
                                   exception : Exceptions \cup {NoException},
                                   to : {"approved", "rejected"}]]
    BY <1>2 DEF TypeOK, WriteException, ReviewGoto
  <2>4. \A w \in Reviewers :
          review'[w].at # "idle" =>
            /\ review'[w].exception \in Exceptions
            /\ status'[review'[w].exception] # "absent"
    BY <1>2, <2>1 DEF TypeOK, WriteException, ReviewGoto
  <2>5. approvedOnce' \subseteq Exceptions
    BY <1>2, <2>1 DEF TypeOK, WriteException
  <2> QED
    BY <1>2, <2>2, <2>3, <2>4, <2>5 DEF TypeOK, WriteException, findingVars
<1>3. CASE WriteFinding(v)
  BY <1>3, RiskAssumption
     DEF TypeOK, WriteFinding, ReviewGoto, IdleReview, exceptionVars
<1>4. CASE ReviewDies(v)
  BY <1>4, RiskAssumption
     DEF TypeOK, ReviewDies, ReviewGoto, IdleReview, exceptionVars, findingVars
<1> QED
  BY <1>1, <1>2, <1>3, <1>4 DEF ReviewStep

LEMMA FindingTyped ==
  ASSUME TypeOK, NEW f \in Findings,
         \/ \E wanted \in {"none", "requested"} : FindingEvaluated(f, wanted)
         \/ \E s \in {"open", "risk_accepted"} : FindingPatched(f, s)
  PROVE  TypeOK'
BY DEF TypeOK, FindingEvaluated, FindingPatched, exceptionVars

LEMMA StepTyped == TypeOK /\ [Next]_vars => TypeOK'
<1>1. ASSUME TypeOK, UNCHANGED vars PROVE TypeOK'
  BY <1>1 DEF TypeOK, vars, exceptionVars, findingVars
<1> QED
  BY <1>1, PostTyped, ReviewTyped, FindingTyped DEF Next

\* The types of the risk exception model hold in every reachable state.
THEOREM TypeCorrect == Spec => []TypeOK
BY InitTyped, StepTyped, PTL DEF Spec

-----------------------------------------------------------------------------
\* Sets of rows and calls are finite, so that they can be counted.
LEMMA SetsAreFinite ==
  /\ IsFiniteSet(Posts) /\ Cardinality(Posts) \in Nat
  /\ IsFiniteSet(Reviewers) /\ Cardinality(Reviewers) \in Nat
  /\ \A f \in Findings :
       /\ IsFiniteSet(Live(f)) /\ Cardinality(Live(f)) \in Nat
       /\ IsFiniteSet(Inserting(f)) /\ Cardinality(Inserting(f)) \in Nat
<1>1. /\ IsFiniteSet(Posts) /\ Cardinality(Posts) \in Nat
      /\ IsFiniteSet(Reviewers) /\ Cardinality(Reviewers) \in Nat
  BY RiskAssumption, FS_CardinalityType
<1>2. ASSUME NEW f \in Findings
      PROVE  /\ IsFiniteSet(Live(f)) /\ Cardinality(Live(f)) \in Nat
             /\ IsFiniteSet(Inserting(f)) /\ Cardinality(Inserting(f)) \in Nat
  <2>1. Live(f) \subseteq Exceptions
    BY DEF Live, Active, Revivable
  <2>2. Inserting(f) \subseteq Posts
    BY DEF Inserting
  <2> QED
    BY <2>1, <2>2, RiskAssumption, FS_Subset, FS_CardinalityType
<1> QED
  BY <1>1, <1>2

\* Every revivable exception has a reviewer of its own that is not the one
\* that is free.
LEMMA FewRevivable ==
  ASSUME TypeOK, SomebodyIsFree, NEW f \in Findings
  PROVE  /\ Cardinality(Revivable(f)) \in Nat
         /\ Cardinality(Revivable(f)) <= Cardinality(Reviewers) - 1
<1> DEFINE owner == [e \in Revivable(f) |->
                       CHOOSE v \in Revivers : review[v].exception = e]
<1>1. PICK free \in Reviewers : free \notin Revivers
  BY DEF SomebodyIsFree, Revivers
<1>2. /\ IsFiniteSet(Reviewers \ {free})
      /\ Cardinality(Reviewers \ {free}) = Cardinality(Reviewers) - 1
  BY <1>1, SetsAreFinite, FS_RemoveElement
<1>3. \A e \in Revivable(f) :
        owner[e] \in Revivers /\ review[owner[e]].exception = e
  BY DEF Revivable
<1>4. owner \in [Revivable(f) -> Reviewers \ {free}]
  BY <1>1, <1>3 DEF Revivers
<1>5. IsInjective(owner)
  BY <1>3, <1>4 DEF IsInjective
<1>6. owner \in Injection(Revivable(f), Reviewers \ {free})
  BY <1>4, <1>5 DEF Injection, IsInjective
<1>7. /\ IsFiniteSet(Revivable(f))
      /\ Cardinality(Revivable(f)) <= Cardinality(Reviewers \ {free})
  BY <1>2, <1>6, FS_Injection
<1> QED
  BY <1>2, <1>7, FS_CardinalityType

\* Nothing is added to the active or revivable exceptions of a finding and
\* to the calls about to insert one: the bound is kept.
LEMMA FewerAreBounded ==
  ASSUME LiveIsBounded,
         \A f \in Findings : Live(f)' \subseteq Live(f)
                             /\ Inserting(f)' \subseteq Inserting(f)
  PROVE  LiveIsBounded'
<1> SUFFICES ASSUME NEW f \in Findings
             PROVE  Cardinality(Live(f)') + Cardinality(Inserting(f)')
                      <= Cardinality(Posts) + Cardinality(Reviewers) - 1
  BY DEF LiveIsBounded
<1>1. /\ Cardinality(Live(f)') \in Nat
      /\ Cardinality(Live(f)') <= Cardinality(Live(f))
  BY SetsAreFinite, FS_Subset, FS_CardinalityType
<1>2. /\ Cardinality(Inserting(f)') \in Nat
      /\ Cardinality(Inserting(f)') <= Cardinality(Inserting(f))
  BY SetsAreFinite, FS_Subset, FS_CardinalityType
<1> QED
  BY <1>1, <1>2, SetsAreFinite DEF LiveIsBounded

-----------------------------------------------------------------------------
\* How the calls change what is active, revivable and about to be inserted.
LEMMA InsertStep ==
  ASSUME RiskInv, NEW p \in Posts, NEW e \in Exceptions, InsertException(p, e)
  PROVE  SomebodyIsFree' /\ LiveIsBounded'
<1> DEFINE g == post[p].finding
<1>1. TypeOK /\ SomebodyIsFree /\ LiveIsBounded
  BY DEF RiskInv
<1>2. g \in Findings /\ finding_id[e] = NoFinding /\ status[e] = "absent"
  BY <1>1 DEF TypeOK, InsertException
<1>3. Revivers' \subseteq Revivers
  BY <1>1 DEF Revivers, Reviver, TypeOK, InsertException
<1>4. SomebodyIsFree'
  BY <1>1, <1>3 DEF SomebodyIsFree, Revivers
<1>5. ASSUME NEW f \in Findings
      PROVE  Live(f)' \subseteq IF f = g THEN Live(f) \cup {e} ELSE Live(f)
  <2>1. Active(f)' \subseteq IF f = g THEN Active(f) \cup {e} ELSE Active(f)
    BY <1>1, <1>2 DEF Active, TypeOK, InsertException
  <2>2. Revivable(f)' \subseteq Revivable(f)
    BY <1>1, <1>2, <1>3 DEF Revivable, Revivers, Reviver, TypeOK, InsertException
  <2> QED
    BY <2>1, <2>2 DEF Live
<1>6. ASSUME NEW f \in Findings
      PROVE  Inserting(f)' = IF f = g THEN Inserting(f) \ {p} ELSE Inserting(f)
  BY <1>1 DEF Inserting, TypeOK, InsertException, PostGoto
<1>7. p \in Inserting(g)
  BY DEF Inserting, InsertException
<1>8. ASSUME NEW f \in Findings
      PROVE  Cardinality(Live(f)') + Cardinality(Inserting(f)')
               <= Cardinality(Posts) + Cardinality(Reviewers) - 1
  <2>1. CASE f # g
    <3>1. /\ Cardinality(Live(f)') \in Nat
          /\ Cardinality(Live(f)') <= Cardinality(Live(f))
      BY <1>5, <2>1, SetsAreFinite, FS_Subset, FS_CardinalityType
    <3> QED
      BY <1>1, <1>6, <2>1, <3>1, SetsAreFinite DEF LiveIsBounded
  <2>2. CASE f = g
    <3>1. /\ IsFiniteSet(Live(f) \cup {e})
          /\ Cardinality(Live(f) \cup {e}) \in Nat
          /\ Cardinality(Live(f) \cup {e}) <= Cardinality(Live(f)) + 1
      <4>1. IsFiniteSet(Live(f)) /\ Cardinality(Live(f)) \in Nat
        BY SetsAreFinite
      <4>2. IsFiniteSet(Live(f) \cup {e})
        BY <4>1, FS_AddElement
      <4>3. \/ Cardinality(Live(f) \cup {e}) = Cardinality(Live(f))
            \/ Cardinality(Live(f) \cup {e}) = Cardinality(Live(f)) + 1
        BY <4>1, FS_AddElement
      <4> QED
        BY <4>1, <4>2, <4>3
    <3>2. /\ Cardinality(Live(f)') \in Nat
          /\ Cardinality(Live(f)') <= Cardinality(Live(f) \cup {e})
      BY <1>5, <2>2, <3>1, FS_Subset, FS_CardinalityType
    <3>3. Cardinality(Inserting(f) \ {p}) = Cardinality(Inserting(f)) - 1
      BY <1>7, <2>2, SetsAreFinite, FS_RemoveElement
    <3>4. Cardinality(Inserting(f)') = Cardinality(Inserting(f)) - 1
      BY <1>6, <2>2, <3>3
    <3> QED
      BY <1>1, <3>1, <3>2, <3>4, SetsAreFinite DEF LiveIsBounded
  <2> QED
    BY <2>1, <2>2
<1>9. LiveIsBounded'
  BY <1>8 DEF LiveIsBounded
<1> QED
  BY <1>4, <1>9

LEMMA FindStep ==
  ASSUME RiskInv, NEW p \in Posts, NEW g \in Findings, FindActive(p, g)
  PROVE  SomebodyIsFree' /\ LiveIsBounded'
<1>1. TypeOK /\ SomebodyIsFree /\ LiveIsBounded
  BY DEF RiskInv
<1>2. Revivers' = Revivers
  BY DEF Revivers, Reviver, FindActive, exceptionVars
<1>3. ASSUME NEW f \in Findings
      PROVE  Live(f)' = Live(f)
  BY <1>2 DEF Live, Active, Revivable, FindActive, exceptionVars
<1>4. ASSUME NEW f \in Findings, f # g
      PROVE  Inserting(f)' \subseteq Inserting(f)
  BY <1>1, <1>4 DEF Inserting, TypeOK, FindActive
<1>5. Live(g) = Revivable(g)
  BY DEF Live, FindActive
<1>6. /\ IsFiniteSet(Posts)
      /\ Inserting(g)' \subseteq Posts
  BY SetsAreFinite DEF Inserting
<1>7. /\ Cardinality(Inserting(g)') \in Nat
      /\ Cardinality(Inserting(g)') <= Cardinality(Posts)
  BY <1>6, FS_Subset, FS_CardinalityType
<1>8. ASSUME NEW f \in Findings
      PROVE  Cardinality(Live(f)') + Cardinality(Inserting(f)')
               <= Cardinality(Posts) + Cardinality(Reviewers) - 1
  <2>1. CASE f = g
    BY <1>1, <1>3, <1>5, <1>7, <2>1, FewRevivable, SetsAreFinite
  <2>2. CASE f # g
    <3>1. /\ Cardinality(Inserting(f)') \in Nat
          /\ Cardinality(Inserting(f)') <= Cardinality(Inserting(f))
      BY <1>4, <2>2, SetsAreFinite, FS_Subset, FS_CardinalityType
    <3> QED
      BY <1>1, <1>3, <3>1, SetsAreFinite DEF LiveIsBounded
  <2> QED
    BY <2>1, <2>2
<1>9. LiveIsBounded'
  BY <1>8 DEF LiveIsBounded
<1> QED
  BY <1>1, <1>2, <1>9 DEF SomebodyIsFree

LEMMA DecideStep ==
  ASSUME RiskInv, NEW v \in Reviewers, WriteException(v)
  PROVE  SomebodyIsFree' /\ LiveIsBounded'
<1> DEFINE e == review[v].exception
<1>1. TypeOK /\ LiveIsBounded
  BY DEF RiskInv
<1>2. e \in Exceptions /\ status[e] # "absent"
  BY <1>1 DEF TypeOK, WriteException
<1>3. v \notin Revivers'
  BY <1>1 DEF Revivers, Reviver, TypeOK, WriteException, ReviewGoto
<1>4. SomebodyIsFree'
  BY <1>3 DEF SomebodyIsFree
<1>5. ASSUME NEW f \in Findings, NEW x \in Active(f)'
      PROVE  x \in Live(f)
  <2>1. CASE x # e
    BY <1>1, <1>5, <2>1 DEF Live, Active, TypeOK, WriteException
  <2>2. CASE x = e /\ status[e] # "rejected"
    BY <1>1, <1>2, <1>5, <2>2 DEF Live, Active, TypeOK, WriteException
  <2>3. CASE x = e /\ status[e] = "rejected"
    <3>1. status'[e] = review[v].to
      BY <1>1, <1>2 DEF TypeOK, WriteException
    <3>2. review[v].to = "approved"
      BY <1>1, <1>5, <2>3, <3>1 DEF Active, TypeOK
    <3>3. v \in Revivers
      BY <2>3, <3>2 DEF Revivers, Reviver, WriteException
    <3> QED
      BY <1>5, <2>3, <3>3 DEF Live, Active, Revivable, WriteException
  <2> QED
    BY <2>1, <2>2, <2>3
<1>6. ASSUME NEW f \in Findings, NEW x \in Revivable(f)'
      PROVE  x \in Live(f)
  <2>1. PICK w \in Reviewers : Reviver(w)' /\ review'[w].exception = x
    BY <1>6 DEF Revivable, Revivers
  <2>2. w # v
    BY <1>3, <2>1 DEF Revivers
  <2>3. review'[w] = review[w]
    BY <1>1, <2>2 DEF TypeOK, WriteException, ReviewGoto
  <2>4. x \in Exceptions /\ finding_id[x] = f
    BY <1>6 DEF Revivable, WriteException
  <2>5. CASE status[x] = "rejected"
    BY <2>1, <2>3, <2>4, <2>5 DEF Live, Revivable, Revivers, Reviver
  <2>6. CASE status[x] # "rejected"
    <3>1. review[w].at # "idle" /\ review[w].exception = x
      BY <2>1, <2>3 DEF Reviver
    <3>2. status[x] \in {"requested", "approved"}
      BY <1>1, <2>4, <2>6, <3>1 DEF TypeOK
    <3> QED
      BY <2>4, <3>2 DEF Live, Active
  <2> QED
    BY <2>5, <2>6
<1>7. \A f \in Findings : /\ Live(f)' \subseteq Live(f)
                          /\ Inserting(f)' \subseteq Inserting(f)
  BY <1>5, <1>6 DEF Live, Inserting, WriteException
<1>8. LiveIsBounded'
  BY <1>1, <1>7, FewerAreBounded
<1> QED
  BY <1>4, <1>8

\* Every other step makes nothing active or revivable.
LEMMA QuietPost ==
  ASSUME RiskInv, NEW p \in Posts, MarkRequested(p) \/ PostDies(p)
  PROVE  SomebodyIsFree' /\ LiveIsBounded'
<1>1. TypeOK /\ SomebodyIsFree /\ LiveIsBounded
  BY DEF RiskInv
<1>2. UNCHANGED <<exceptionVars, review>>
  BY DEF MarkRequested, PostDies
<1>3. Revivers' = Revivers
  BY <1>2 DEF Revivers, Reviver, exceptionVars
<1>4. \A f \in Findings : Live(f)' \subseteq Live(f)
  BY <1>2, <1>3 DEF Live, Active, Revivable, exceptionVars
<1>5. \A f \in Findings : Inserting(f)' \subseteq Inserting(f)
  BY <1>1 DEF Inserting, TypeOK, MarkRequested, PostDies, PostGoto, IdlePost
<1> QED
  BY <1>1, <1>3, <1>4, <1>5, FewerAreBounded DEF SomebodyIsFree

LEMMA QuietReview ==
  ASSUME RiskInv, NEW v \in Reviewers,
         \/ \E e \in Exceptions, to \in {"approved", "rejected"} :
              ReadException(v, e, to)
         \/ WriteFinding(v)
         \/ ReviewDies(v)
  PROVE  SomebodyIsFree' /\ LiveIsBounded'
<1>1. TypeOK /\ SomebodyIsFree /\ LiveIsBounded
  BY DEF RiskInv
<1>2. UNCHANGED <<exceptionVars, post>>
  BY DEF ReadException, WriteFinding, ReviewDies
<1>3. \A w \in Reviewers \ {v} : review'[w] = review[w]
  BY <1>1 DEF TypeOK, ReadException, WriteFinding, ReviewDies, ReviewGoto
<1>4. v \notin Revivers'
  <2>1. CASE \E e \in Exceptions, to \in {"approved", "rejected"} :
               ReadException(v, e, to)
    BY <1>1, <2>1 DEF Revivers, Reviver, TypeOK, ReadException, exceptionVars
  <2>2. CASE WriteFinding(v) \/ ReviewDies(v)
    BY <1>1, <2>2
       DEF Revivers, Reviver, TypeOK, WriteFinding, ReviewDies, ReviewGoto,
           IdleReview
  <2> QED
    BY <2>1, <2>2
<1>5. \A w \in Revivers' : w \in Revivers /\ review'[w] = review[w]
  BY <1>2, <1>3, <1>4 DEF Revivers, Reviver, exceptionVars
<1>6. \A f \in Findings : /\ Live(f)' \subseteq Live(f)
                          /\ Inserting(f)' \subseteq Inserting(f)
  BY <1>2, <1>5 DEF Live, Active, Revivable, Inserting, exceptionVars
<1> QED
  BY <1>1, <1>4, <1>6, FewerAreBounded DEF SomebodyIsFree

LEMMA QuietOthers ==
  ASSUME RiskInv, UNCHANGED <<exceptionVars, post, review>>
  PROVE  SomebodyIsFree' /\ LiveIsBounded'
BY FewerAreBounded
   DEF RiskInv, SomebodyIsFree, Revivers, Reviver, Live, Active, Revivable,
       Inserting, exceptionVars

-----------------------------------------------------------------------------
\* Only a reviewer that has approved an exception of the finding writes that
\* the finding's exception is approved.
LEMMA HistoryStep ==
  ASSUME RiskInv, Next
  PROVE  ApprovalsKnown' /\ ApprovedHasException'
<1>1. TypeOK /\ ApprovalsKnown /\ ApprovedHasException
  BY DEF RiskInv
<1>2. ASSUME NEW p \in Posts, PostStep(p)
      PROVE  ApprovalsKnown' /\ ApprovedHasException'
  <2>1. CASE \E e \in Exceptions : InsertException(p, e)
    <3> PICK e \in Exceptions : InsertException(p, e)
      BY <2>1
    <3>1. e \notin approvedOnce
      BY <1>1 DEF ApprovalsKnown, InsertException
    <3>2. ApprovalsKnown'
      BY <1>1 DEF ApprovalsKnown, TypeOK, InsertException
    <3>3. ApprovedHasException'
      BY <1>1, <3>1 DEF ApprovedHasException, TypeOK, InsertException, findingVars
    <3> QED
      BY <3>2, <3>3
  <2>2. CASE \/ \E f \in Findings : FindActive(p, f)
             \/ MarkRequested(p)
             \/ PostDies(p)
    BY <1>1, <2>2
       DEF ApprovalsKnown, ApprovedHasException, TypeOK, FindActive,
           MarkRequested, PostDies, exceptionVars, findingVars
  <2> QED
    BY <1>2, <2>1, <2>2 DEF PostStep
<1>3. ASSUME NEW v \in Reviewers, ReviewStep(v)
      PROVE  ApprovalsKnown' /\ ApprovedHasException'
  <2>1. CASE WriteException(v)
    <3>1. review[v].exception \in Exceptions
          /\ status[review[v].exception] # "absent"
      BY <1>1, <2>1 DEF TypeOK, WriteException
    <3>2. ApprovalsKnown'
      BY <1>1, <2>1, <3>1 DEF ApprovalsKnown, TypeOK, WriteException, ReviewGoto
    <3>3. ApprovedHasException'
      BY <1>1, <2>1 DEF ApprovedHasException, WriteException, findingVars
    <3> QED
      BY <3>2, <3>3
  <2>2. CASE WriteFinding(v)
    <3> DEFINE e == review[v].exception
    <3>1. ApprovalsKnown'
      BY <1>1, <2>2
         DEF ApprovalsKnown, TypeOK, WriteFinding, ReviewGoto, IdleReview,
             exceptionVars
    <3>2. review[v].to = "approved" => e \in approvedOnce
      BY <1>1, <2>2 DEF ApprovalsKnown, WriteFinding
    <3>3. \A f \in Findings :
            exception_status'[f] = "approved" =>
              \/ exception_status[f] = "approved"
              \/ f = finding_id[e] /\ review[v].to = "approved"
      BY <1>1, <2>2 DEF TypeOK, WriteFinding
    <3>4. ApprovedHasException'
      BY <1>1, <2>2, <3>2, <3>3
         DEF ApprovedHasException, WriteFinding, exceptionVars
    <3> QED
      BY <3>1, <3>4
  <2>3. CASE \/ \E e \in Exceptions, to \in {"approved", "rejected"} :
                  ReadException(v, e, to)
             \/ ReviewDies(v)
    BY <1>1, <2>3
       DEF ApprovalsKnown, ApprovedHasException, TypeOK, ReadException,
           ReviewDies, ReviewGoto, IdleReview, exceptionVars, findingVars
  <2> QED
    BY <1>3, <2>1, <2>2, <2>3 DEF ReviewStep
<1>4. ASSUME NEW f \in Findings,
             \/ \E wanted \in {"none", "requested"} : FindingEvaluated(f, wanted)
             \/ \E s \in {"open", "risk_accepted"} : FindingPatched(f, s)
      PROVE  ApprovalsKnown' /\ ApprovedHasException'
  BY <1>1, <1>4
     DEF ApprovalsKnown, ApprovedHasException, TypeOK, FindingEvaluated,
         FindingPatched, exceptionVars
<1> QED
  BY <1>2, <1>3, <1>4 DEF Next

LEMMA RiskStep == RiskInv /\ [Next]_vars => RiskInv'
<1> SUFFICES ASSUME RiskInv, [Next]_vars
             PROVE  RiskInv'
  OBVIOUS
<1>1. TypeOK'
  BY StepTyped DEF RiskInv
<1>2. SomebodyIsFree' /\ LiveIsBounded'
  <2>1. CASE \E p \in Posts : PostStep(p)
    BY <2>1, FindStep, InsertStep, QuietPost DEF PostStep
  <2>2. CASE \E v \in Reviewers : ReviewStep(v)
    BY <2>2, DecideStep, QuietReview DEF ReviewStep
  <2>3. CASE UNCHANGED <<exceptionVars, post, review>>
    BY <2>3, QuietOthers
  <2> QED
    BY <2>1, <2>2, <2>3
       DEF Next, FindingEvaluated, FindingPatched, vars
<1>3. ApprovalsKnown' /\ ApprovedHasException'
  <2>1. CASE Next
    BY <2>1, HistoryStep
  <2>2. CASE UNCHANGED vars
    BY <2>2
       DEF RiskInv, ApprovalsKnown, ApprovedHasException, vars, exceptionVars,
           findingVars
  <2> QED
    BY <2>1, <2>2
<1> QED
  BY <1>1, <1>2, <1>3 DEF RiskInv

\* With nothing absent there is nothing to count: at first no call inserts
\* and no reviewer holds an exception.
LEMMA RiskInit == Init => RiskInv
<1> SUFFICES ASSUME Init PROVE RiskInv
  OBVIOUS
<1>1. TypeOK
  BY InitTyped
<1>2. Revivers = {}
  BY DEF Init, Revivers, Reviver, IdleReview
<1>3. SomebodyIsFree
  BY <1>2, RiskAssumption DEF SomebodyIsFree
<1>4. LiveIsBounded
  <2> SUFFICES ASSUME NEW f \in Findings
               PROVE  Cardinality(Live(f)) + Cardinality(Inserting(f))
                        <= Cardinality(Posts) + Cardinality(Reviewers) - 1
    BY DEF LiveIsBounded
  <2>1. Live(f) = {} /\ Inserting(f) = {}
    BY <1>2 DEF Live, Active, Revivable, Inserting, Init, IdlePost
  <2>2. Cardinality(Live(f)) = 0 /\ Cardinality(Inserting(f)) = 0
    BY <2>1, FS_EmptySet
  <2>3. Cardinality(Reviewers) # 0
    BY RiskAssumption, FS_EmptySet
  <2> QED
    BY <2>2, <2>3, SetsAreFinite
<1>5. ApprovalsKnown /\ ApprovedHasException
  BY DEF Init, ApprovalsKnown, ApprovedHasException, IdleReview
<1> QED
  BY <1>1, <1>3, <1>4, <1>5 DEF RiskInv

LEMMA RiskInvariant == Spec => []RiskInv
BY RiskInit, RiskStep, PTL DEF Spec

\* POST /api/risk-exceptions and the two decisions: a finding never has more
\* active exceptions than there are calls of them in flight at once, less one.
THEOREM ActiveBounded == Spec => []ActiveIsBounded
<1>1. RiskInv => ActiveIsBounded
  <2> SUFFICES ASSUME RiskInv, NEW f \in Findings
               PROVE  Cardinality(Active(f))
                        <= Cardinality(Posts) + Cardinality(Reviewers) - 1
    BY DEF ActiveIsBounded
  <2>1. /\ Cardinality(Active(f)) \in Nat
        /\ Cardinality(Active(f)) <= Cardinality(Live(f))
    BY SetsAreFinite, FS_Subset, FS_CardinalityType DEF Live
  <2> QED
    BY <2>1, SetsAreFinite DEF RiskInv, LiveIsBounded
<1> QED
  BY <1>1, RiskInvariant, PTL

\* A finding whose exception is shown as approved has an exception that was
\* approved once.
THEOREM ApprovalsAreReal == Spec => []ApprovedHasException
<1>1. RiskInv => ApprovedHasException
  BY DEF RiskInv
<1> QED
  BY <1>1, RiskInvariant, PTL
=============================================================================
