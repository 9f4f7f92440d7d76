SPECIFICATION Spec
CONSTANTS
  Requests <- MCRequests
  Buffer = 3
  MaxSize = 4
  Offset = 1
  Width = 64
INVARIANTS
  
  ResponsesMatch
PROPERTIES
  Answered
  ReleasedAtLast
CHECK_DEADLOCK FALSE
