SPECIFICATION System
CONSTANTS
  Actions = {1}
  Findings = {f1}
  PatchStatuses = {}
  NoAction = NoAction
  NoFinding = NoFinding
  Workers = {w1}
  MaxAttempts = 1
  LiveBlocked = {FALSE}
  MayCrash = FALSE
  MaxRequested = 0
  Requests = {q1}
  Deciders = {d1, d2}
  ApiRequests = {}
  ApiForces = {TRUE, FALSE}
  ApiDryRuns = {FALSE}
  NoRequest = NoRequest
INVARIANTS
  RejectedRequestStops
