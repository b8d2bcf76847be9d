SPECIFICATION FairSpec
CONSTANTS
  Targets = {t1}
  Workflows = {w1}
  ScanRuns = {s1, s2}
  Findings = {f1, f2}
  Scheduled = {t1}
  MaxAttempts = 2
  MaxFailures = 4
  MaxRequested = 1
  NoTarget = NoTarget
  NoRun = NoRun
INVARIANTS
  TypeOK
  OneLiveRun
  CompletedIsTriaged
PROPERTIES
  LedgerSpec
  RunEnds
  AskedOrFailed
CHECK_DEADLOCK FALSE
