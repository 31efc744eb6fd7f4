SPECIFICATION Spec
CONSTANTS
  Ids <- OneLink
  Requests = {a, b}
  Shared = {a, b}
  a = a
  b = b
  Loaded = {"sourcing"}
  Cleaned = {}
  MaxTime = 1
  MaxSkew = 0
INVARIANT RejectsOnlyMissing
SYMMETRY AnyOrder
CHECK_DEADLOCK FALSE
