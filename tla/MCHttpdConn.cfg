CONSTANTS
  Requests <- OneByOne
  MaxPost = 2
  MaxBacklog = 3
  MaxCalls = 3
SPECIFICATION Spec
INVARIANTS StreamIntact WellFramed
PROPERTIES EveryRequestAnswered
CHECK_DEADLOCK FALSE
