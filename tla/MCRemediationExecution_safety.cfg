SPECIFICATION Spec
CONSTANTS
  Actions = {1}
  Findings = {f1}
  PatchStatuses = {}
  NoAction = NoAction
  NoFinding = NoFinding
  Workers = {w1, w2, w3}
  MaxAttempts = 2
  LiveBlocked = {TRUE, FALSE}
  MayCrash = TRUE
  MaxRequested = 2
SYMMETRY WorkerSymmetry
INVARIANTS
  TypeOK
  OneExecutor
  AnnouncedIsCompleted
PROPERTIES
  ClaimIsFinal
