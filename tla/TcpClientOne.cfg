SPECIFICATION FairSpec
CONSTANTS
  Threads = {t1}
  NoThread = none
  MaxDrops = 3
  MaxRefusals = 3
INVARIANTS
  StatusAccurate
PROPERTIES
  NoSelfInflictedClose
  Reconnects
