SPECIFICATION TimersSpec
CONSTANTS
  Contexts = {c1, c2}
  Delays = {1, 2}
  None = none
  MaxTime = 8
  MaxCalls = 4
INVARIANTS
  Sorted
PROPERTIES
  TriggersExpected
  EventuallyTriggered
  PendingEnds
  DestructorReturns
CHECK_DEADLOCK FALSE
