SPECIFICATION Spec
CONSTANTS
  Threads = {t1, t2}
  NoThread = none
  Cap = 3
  MsgSizes = {1, 2}
  Contexts = {"strand"}
  MaxCalls = 2
  MaxConns = 1
INVARIANT OneSendInFlight
SYMMETRY Symmetry
CHECK_DEADLOCK FALSE
