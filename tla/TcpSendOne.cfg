SPECIFICATION FairSpec
CONSTANTS
  Threads = {t1}
  NoThread = none
  Cap = 3
  MsgSizes = {1, 2, 3}
  Contexts = {"strand", "free"}
  MaxCalls = 3
  MaxConns = 2
INVARIANTS
  OneSendInFlight
  MemorySafe
PROPERTIES
  Drained
  StreamSpec
CHECK_DEADLOCK FALSE
