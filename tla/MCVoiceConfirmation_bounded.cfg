SPECIFICATION Spec
CONSTANTS
  Commands = {1, 2}
  Conversations = {v1}
  Calls = {k1, k2}
  Lookback = 1
  MaxLost = 2
  NoCommand = NoCommand
  Nobody = Nobody
SYMMETRY CallSymmetry
INVARIANTS
  TypeOK
  DispatchIsBounded
  PendingIsReachable
