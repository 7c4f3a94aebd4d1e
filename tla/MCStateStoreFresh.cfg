\* A process may also be killed before the first sync of a new directory.
SPECIFICATION StoreSpec
CONSTANTS
  s1 = s1 s2 = s2
  States <- MCStates
  NoState = NoState Torn = Torn Unread = Unread
  Stamps <- MCStamps
  KeepRejected = 1
  KillBeforeSync = TRUE
  MaxStoreStarts = 2
  MaxStoreCalls = 2
INVARIANTS
  DirectoryStays
\* A stopped server past the last start has no successor.
CHECK_DEADLOCK FALSE
