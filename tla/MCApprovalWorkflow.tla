-------------------------- MODULE MCApprovalWorkflow --------------------------
(***************************************************************************)
(* Approvals, the scan workflow and the executor on small tables, for TLC. *)
(***************************************************************************)
EXTENDS ApprovalWorkflow, TLC

\* Workers, deciders and requests are told apart by nothing but their state.
CallSymmetry ==
  Permutations(Workers) \cup Permutations(Deciders) \cup Permutations(Requests)
=============================================================================
