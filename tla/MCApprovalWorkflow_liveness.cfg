SPECIFICATION FairSystem
CONSTANTS
  Actions = {1}
  Findings = {f1}
  PatchStatuses = {}
  NoAction = NoAction
  NoFinding = NoFinding
  Workers = {w1}
  MaxAttempts = 2
  LiveBlocked = {FALSE}
  MayCrash = FALSE
  MaxRequested = 0
  Requests = {q1}
  Deciders = {d1, d2}
  ApiRequests = {"remediation_execution"}
  ApiForces = {}
  ApiDryRuns = {FALSE}
  NoRequest = NoRequest
PROPERTIES
  ApprovedIsExecuted
  DispatchedIsTaken
  RunningEnds
  EventuallyStarted
CHECK_DEADLOCK FALSE
