CONSTANTS
  c1 = c1
  c2 = c2
  c3 = c3
  Free = Free
  Orphan = Orphan
  Clients <- MCClients
  Laggards <- OneLaggard
  TTL = 3
  Wait = 2
SPECIFICATION FairLockSpec
INVARIANTS
  MutualExclusion
PROPERTIES
  LockComesFree
