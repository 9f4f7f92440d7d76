SPECIFICATION Spec
CONSTANTS
  MaxBeats = 2
  MaxFrames = 2
  Kinds = {"text", "binary", "ping", "close"}
INVARIANTS
  InOrder
  OneHeartBeat
PROPERTIES
  SilentPeerClosed
  ConnectionEnds
CHECK_DEADLOCK FALSE
