SPECIFICATION Spec
CONSTANTS
  Incidents = {1, 2}
  Findings = {f1}
  Calls = {c1, c2}
  Patches = {p1}
  MaxAttempts = 2
  NoIncident = NoIncident
  NoFinding = NoFinding
SYMMETRY CallSymmetry
INVARIANTS
  TypeOK
  PayloadCoherent
  EvidenceBeforeValidation
PROPERTIES
  OnlyStaleWritesGoBack
