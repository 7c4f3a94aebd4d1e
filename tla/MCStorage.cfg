\* Every kill comes after the first sync of a new directory; see
\* MCStateStoreFresh.cfg for the other ones.
SPECIFICATION PartSpec
CONSTANTS
  n1 = n1 n2 = n2 d1 = d1 d2 = d2 q1 = q1
  Nets <- MCNets
  Demands <- MCDemands
  Policies <- MCPolicies
  DefaultProject <- MCDefault
  UseProjectFile = TRUE
  CheckpointLimit = 2
  MaxProjectRevision = 4
  MaxGeneration = 4
  MaxCheckpoint = 3
  s1 = s1 s2 = s2
  States <- MCStates
  NoState = NoState Torn = Torn Unread = Unread
  Stamps <- MCStamps
  KeepRejected = 1
  KillBeforeSync = FALSE
  MaxStoreStarts = 4
  MaxStoreCalls = 4
INVARIANTS
  ProjectsIdentified
  NewestPointsRetained
  RewindRestoresCapture
  NeverTorn
  RejectedStateKept
PROPERTY RegisterImplemented
\* A stopped server past the last start has no successor.
CHECK_DEADLOCK FALSE
