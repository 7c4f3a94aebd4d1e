SPECIFICATION Spec
CONSTANTS
  ca = ca cb = cb k1 = k1 k2 = k2
  None = None
  Conns <- MCConns
  Contracts <- MCOneContract
  Connections = 2
  HistoryCount = 1
  HistoryBytes = 1
  MaxMessage = 2
  CreditCount = 1
  CreditBytes = 2
  MaxCounter = 3
  DeltaSizes <- MCLarge
  FullSizes <- MCLarge
  MaxVersion = 3
  MaxSource = 1
  MaxStream = 1
  MaxHeartbeat = 0
SYMMETRY ConnSymmetry
INVARIANTS
  RetentionAccounted
  PressureHasOwner
\* A stopped publisher has no further step.
CHECK_DEADLOCK FALSE
