------------------------ MODULE MCRemediationExecution ------------------------
(***************************************************************************)
(* The executor on a small table, for TLC.                                 *)
(***************************************************************************)
EXTENDS RemediationExecution, TLC

\* Workers are told apart by nothing but their state.
WorkerSymmetry == Permutations(Workers)
=============================================================================
