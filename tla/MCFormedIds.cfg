SPECIFICATION TracedSpec
CONSTANTS
  Ids <- SmallIds
  Goals <- SmallGoals
  MaxCalls = 2
  Tracing = FALSE
INVARIANTS ShownIdsGrounded
CHECK_DEADLOCK FALSE
