--------------------------- MODULE MCRiskExceptions ---------------------------
(* Small instances of RiskExceptions: calls are interchangeable.           *)
EXTENDS RiskExceptions, TLC

CallSymmetry ==
  Permutations(Posts) \cup Permutations(Reviewers) \cup Permutations(Exceptions)
=============================================================================
