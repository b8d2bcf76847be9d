------------------------- MODULE MCIncidentLifecycle -------------------------
(* Small instances of IncidentLifecycle: calls are interchangeable.        *)
EXTENDS IncidentLifecycle, TLC

CallSymmetry == Permutations(Calls)
=============================================================================
