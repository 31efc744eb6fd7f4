SPECIFICATION Spec
CONSTANTS
  Ids <- MCIds
  SUPPLIERS <- MCSuppliers
  PRODUCTS <- MCProducts
  PROCESSES <- MCProcesses
  PRODUCT_PROCESSES <- MCProductProcesses
  COMPONENT_BOM <- OnePart
  Scripts = {"explore"}
  Servers = {}
  Program <- MCProgram
  MaxRuns = 1
INVARIANT SuppliedByInMaster
CHECK_DEADLOCK FALSE
