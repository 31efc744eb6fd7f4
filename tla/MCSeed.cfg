SPECIFICATION Spec
CONSTANTS
  Ids <- MCIds
  SUPPLIERS <- MCSuppliers
  PRODUCTS <- MCProducts
  PROCESSES <- MCProcesses
  PRODUCT_PROCESSES <- MCProductProcesses
  COMPONENT_BOM <- TwoParts
  Scripts = {"seed_reset", "server", "loader"}
  Servers = {"server"}
  Program <- MCProgram
  MaxRuns = 2
INVARIANTS TypeOK SuppliedByInMaster MetadataComplete CompletedRunComplete
PROPERTY ScriptsEnd
CHECK_DEADLOCK FALSE
