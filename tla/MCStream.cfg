SPECIFICATION Spec
CONSTANTS
  ca = ca cb = cb k1 = k1 k2 = k2
  None = None
  Conns <- MCOneConn
  Contracts <- MCContracts
  Connections = 1
  HistoryCount = 1
  HistoryBytes = 2
  MaxMessage = 2
  CreditCount = 2
  CreditBytes = 2
  MaxCounter = 3
  DeltaSizes <- MCSmall
  FullSizes <- MCLarge
  MaxVersion = 3
  MaxSource = 2
  MaxStream = 2
  MaxHeartbeat = 1
INVARIANTS
  PublicationsApply
  ControlsAccepted
\* A stopped publisher has no further step.
CHECK_DEADLOCK FALSE
