SPECIFICATION FairSpec
CONSTANTS
  Actions = {1}
  Findings = {f1}
  PatchStatuses = {}
  NoAction = NoAction
  NoFinding = NoFinding
  Workers = {w1}
  MaxAttempts = 2
  LiveBlocked = {TRUE}
  MayCrash = FALSE
  MaxRequested = 1
PROPERTIES
  RunningEnds
