SPECIFICATION PartSpec
CONSTANTS
  n1 = n1 n2 = n2 d1 = d1 d2 = d2 q1 = q1 c1 = c1 c2 = c2 c3 = c3 h1 = h1 h2 = h2
  None = None
  Nets <- MCOneNet
  Demands <- MCOneDemand
  Policies <- MCPolicies
  DefaultProject <- MCDefault
  UseProjectFile = FALSE
  CheckpointLimit = 1
  Clients <- MCOneClient
  Handlers <- MCOneHandler
  Actions <- MCFleetActions
  ClientLimit = 2
  MaxSequence = 2
  MaxRevision = 3
  MaxTick = 0
  MaxStarts = 4
INVARIANTS
  SimulationRunsProject
  AtMostOnce
  ClientsCountedOnce
  RestoreLoopBounded
PROPERTIES
  EpochCountersNeverGoBack
\* A stopped server past the last start has no successor.
CHECK_DEADLOCK FALSE
