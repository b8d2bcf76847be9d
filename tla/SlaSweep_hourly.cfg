SPECIFICATION FairSpec
CONSTANTS
  Approvals = {a1}
  Exceptions = {e1}
  ApprovalSla = 0
  ReviewSla = 1
  MaxClock = 3
  MaxFailures = 1
INVARIANTS
  TypeOK
  MarkedWasOverdue
  BreachIsTold
  SweepMissesNothing
PROPERTIES
  OverdueIsMarked
