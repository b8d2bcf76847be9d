------------------------------ MODULE ScanLedger ------------------------------
(***************************************************************************)
(* What the row of a function run tells whoever looks at it: it goes       *)
(* through its states in order, it says completed before the function      *)
(* returns, and once the function has returned it says so for good.  A     *)
(* function that has not returned may still take completed back.           *)
(***************************************************************************)
CONSTANT Workflows   \* function runs

VARIABLES
  shown,    \* the status each function run shows, "none" before it has a row
  returned  \* the function runs that have returned

vars == <<shown, returned>>

Init ==
  /\ shown = [w \in Workflows |-> "none"]
  /\ returned = {}

Turns(w, from, to) ==
  /\ shown[w] \in from
  /\ shown' = [shown EXCEPT ![w] = to]

Queue(w) == Turns(w, {"none"}, "queued") /\ UNCHANGED returned

Run(w) == Turns(w, {"queued"}, "running") /\ UNCHANGED returned

\* The function may return with the step that completes its row.
Complete(w) ==
  /\ Turns(w, {"running", "completed"}, "completed")
  /\ returned' \in {returned, returned \cup {w}}

Fail(w) ==
  /\ w \notin returned
  /\ Turns(w, {"queued", "running", "completed"}, "failed")
  /\ UNCHANGED returned

Next == \E w \in Workflows : Queue(w) \/ Run(w) \/ Complete(w) \/ Fail(w)

Spec == Init /\ [][Next]_vars
=============================================================================
