SPECIFICATION Spec
CONSTANTS
  Threads = {t1, t2}
  NoThread = none
  MaxDrops = 2
  MaxRefusals = 1
INVARIANTS
  KnowsItsConnection
