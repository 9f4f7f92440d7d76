SPECIFICATION Spec
CONSTANTS
  Requests <- MCLongRequests
  Buffer = 3
  MaxSize = 6
  Offset = 1
  Width = 64
PROPERTIES
  TooLongRefused
CHECK_DEADLOCK FALSE
