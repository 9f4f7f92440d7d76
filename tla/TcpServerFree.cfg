SPECIFICATION Spec
CONSTANTS
  Threads = {t1}
  NoThread = none
  Handles = {h1, h2, h3, h4}
  NoHandle = nohandle
  PoolSize = 2
  MaxSessions = 2
  MaxFailures = 1
INVARIANTS
  NoUndefined
CHECK_DEADLOCK FALSE
