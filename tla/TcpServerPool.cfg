SPECIFICATION FairSpec
CONSTANTS
  Threads = {t1, t2}
  NoThread = none
  Handles = {h1, h2, h3}
  NoHandle = nohandle
  PoolSize = 1
  MaxSessions = 2
  MaxFailures = 1
INVARIANTS
  ReadersRegistered
  NoLeakedConnection
  SlotsAccounted
PROPERTIES
  ClosedLeave
CHECK_DEADLOCK FALSE
