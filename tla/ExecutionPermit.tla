--------------------------- MODULE ExecutionPermit ---------------------------
(***************************************************************************)
(* What approvals and executions promise together: the commands of an      *)
(* action run on a permit, and every run uses its permit up.  A new run    *)
(* needs a new decision.  An override, the force flag of the execute API,  *)
(* uses up a permit that was asked for and not given yet.                  *)
(***************************************************************************)
CONSTANTS Workers, Actions

VARIABLES
  permit,   \* of each action: "none", "asked" or "granted"
  running   \* pairs of a worker and the action whose commands it runs

vars == <<permit, running>>

Permits == {"none", "asked", "granted"}

Init ==
  /\ permit \in [Actions -> Permits]
  /\ running = {}

\* A policy, an approver or an import asks for, grants or revokes a permit.
Decide(a) ==
  /\ \E p \in Permits : permit' = [permit EXCEPT ![a] = p]
  /\ UNCHANGED running

Idle(w) == \A a \in Actions : <<w, a>> \notin running

Begin(w, a) ==
  /\ Idle(w)
  /\ permit' = [permit EXCEPT ![a] = "none"]
  /\ running' = running \cup {<<w, a>>}

Start(w, a) == permit[a] = "granted" /\ Begin(w, a)

Override(w, a) == permit[a] = "asked" /\ Begin(w, a)

\* The run ends; a decision taken while it ran may be lost.
Stop(w, a) ==
  /\ <<w, a>> \in running
  /\ running' = running \ {<<w, a>>}
  /\ permit' \in {permit, [permit EXCEPT ![a] = "none"]}

Next ==
  \E a \in Actions :
    \/ Decide(a)
    \/ \E w \in Workers : Start(w, a) \/ Override(w, a) \/ Stop(w, a)

Spec == Init /\ [][Next]_vars
=============================================================================
