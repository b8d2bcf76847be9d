SPECIFICATION Spec
CONSTANTS
  Exceptions = {e1, e2, e3, e4}
  Findings = {f1}
  Posts = {p1, p2}
  Reviewers = {v1, v2}
  NoFinding = NoFinding
  NoException = NoException
SYMMETRY CallSymmetry
INVARIANTS
  TypeOK
  ActiveIsBounded
  ApprovedHasException
