CONSTANTS
  Requests <- OneByOne
  MaxPost = 2
  MaxBacklog = 3
  MaxCalls = 3
SPECIFICATION Spec
INVARIANT MarkedIsKilled
CHECK_DEADLOCK FALSE
