SPECIFICATION Spec
CONSTANTS
  Ids <- TwoParts
  Requests = {a, b}
  Shared = {a, b}
  a = a
  b = b
  Loaded = {"sourcing"}
  Cleaned = {}
  MaxTime = 1
  MaxSkew = 0
INVARIANTS MasterGateSound
SYMMETRY AnyOrder
CHECK_DEADLOCK FALSE
