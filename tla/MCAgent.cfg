SPECIFICATION TracedSpec
CONSTANTS
  Ids <- SmallIds
  Goals <- SmallGoals
  MaxCalls = 2
  Tracing = TRUE
INVARIANTS TypeOK AnswerGrounded ResultsPaired RowsCited InventedOnlyUnplanned NoKeyNeeded TraceTellsAnswer PlanReachesOperator
PROPERTIES RowsKept RunEnds
CHECK_DEADLOCK FALSE
