SPECIFICATION FairSpec
CONSTANTS
  ca = ca cb = cb k1 = k1 k2 = k2
  None = None
  Conns <- MCOneConn
  Contracts <- MCOneContract
  Connections = 1
  HistoryCount = 1
  HistoryBytes = 1
  MaxMessage = 1
  CreditCount = 1
  CreditBytes = 1
  MaxCounter = 4
  DeltaSizes <- MCSmall
  FullSizes <- MCSmall
  MaxVersion = 3
  MaxSource = 1
  MaxStream = 2
  MaxHeartbeat = 0
INVARIANT TypeOK
PROPERTIES
  ConnectedClientsCatchUp
  StopsEventually
\* A stopped publisher has no further step.
CHECK_DEADLOCK FALSE
