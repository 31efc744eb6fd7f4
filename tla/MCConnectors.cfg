SPECIFICATION Spec
CONSTANTS
  Ids <- MCIds
  SUPPLIERS <- MCSuppliers
  PRODUCTS <- MCProducts
  PROCESSES <- MCProcesses
  PRODUCT_PROCESSES <- MCProductProcesses
  COMPONENT_BOM <- OnePart
  Scripts = {"seed", "sourcing"}
  Servers = {}
  Program <- MCProgram
  MaxRuns = 2
INVARIANTS CompletedRunComplete NoRejection
PROPERTY ReplicationSpec
CHECK_DEADLOCK FALSE
