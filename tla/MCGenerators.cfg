SPECIFICATION MCSpec
CONSTANTS
  Gen = {g1, g2}
  MaxRequests = 4
  MaxDepth = 8
  MaxCalls = 8
INVARIANTS
  FrameMatchesState
  InOrder
  ResumedWhereStopped
PROPERTIES
  AnsweredOrOver
CHECK_DEADLOCK FALSE
