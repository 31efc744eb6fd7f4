SPECIFICATION Spec
CONSTANTS
  Ids <- OneLink
  Requests = {"demo"}
  Shared = {}
  Loaded = {"ebom", "sourcing"}
  Cleaned = {}
  MaxTime = 2
  MaxSkew = 0
INVARIANT StaleJoinWarned
CHECK_DEADLOCK FALSE
