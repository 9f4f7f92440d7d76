SPECIFICATION LibrarySpec
CONSTANTS
  HeaderSize = 4
  SizeOffset = 2
  HalfRange = 4
  ErrLimit = 1
  W = 6
  L = 7
  Bodies = {0, 1, 6}
  Noise = {0, 6}
  MaxPackets = 2
  MaxNoise = 1
  Lengths = {0, 2}
  MaxPrepared = 2
  MaxResponses = 2
  MaxRows = 3
  MaxBatch = 2
  MaxLosses = 1
  Token <- TokenOne
  Fields <- TwoFields
  ReadLengths = {1, 2, 5, 8, 64}
INVARIANTS
  NothingHeldBack
  Intact
  WholeMessages
  AllOrNothing
  PartsAsSent
PROPERTIES
  Routed
  PairsComeOut
  DigestsAgree
  FramesComeOut
  AlgorithmsRight
  RowsAsStored
  JsonComesBack
CHECK_DEADLOCK FALSE
