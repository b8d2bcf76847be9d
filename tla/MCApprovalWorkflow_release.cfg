SPECIFICATION System
CONSTANTS
  Actions = {1}
  Findings = {f1}
  PatchStatuses = {"cancelled"}
  NoAction = NoAction
  NoFinding = NoFinding
  Workers = {w1, w2}
  MaxAttempts = 2
  LiveBlocked = {FALSE}
  MayCrash = TRUE
  MaxRequested = 0
  Requests = {q1, q2}
  Deciders = {d1}
  ApiRequests = {}
  ApiForces = {TRUE, FALSE}
  ApiDryRuns = {FALSE}
  NoRequest = NoRequest
SYMMETRY CallSymmetry
INVARIANTS
  SystemTypeOK
  GatedNeedsApproval
  RejectedStaysStopped
  CompletedIsExecuted
PROPERTIES
  StartsWereApproved
  PermitSpec
