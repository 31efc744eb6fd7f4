SPECIFICATION Spec
CONSTANTS
  Ids <- TwoSuppliers
  Requests = {"demo"}
  Shared = {}
  Loaded = {"ebom", "routing", "sourcing"}
  Cleaned = {"sourcing"}
  MaxTime = 1
  MaxSkew = 0
INVARIANTS TypeOK RowsBracketed ViewShowsRows ReportReaches
PROPERTY SingleSourceTrue
CHECK_DEADLOCK FALSE
