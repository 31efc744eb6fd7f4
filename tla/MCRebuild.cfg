SPECIFICATION Spec
CONSTANTS
  Ids <- MCIds
  SUPPLIERS <- MCSuppliers
  PRODUCTS <- MCProducts
  PROCESSES <- MCProcesses
  PRODUCT_PROCESSES <- MCProductProcesses
  COMPONENT_BOM <- OnePart
  Scripts = {"seed_reset", "federation"}
  Servers = {}
  Program <- MCProgram
  MaxRuns = 2
INVARIANT EdgeEndpointsPresent
PROPERTY CatalogSpec
CHECK_DEADLOCK FALSE
