SPECIFICATION TracedSpec
CONSTANTS
  Ids <- SmallIds
  Goals <- SmallGoals
  MaxCalls = 2
  Tracing = FALSE
INVARIANTS EvidenceSupported
CHECK_DEADLOCK FALSE
