SPECIFICATION Spec
CONSTANTS
  Ids <- OnePartIds
  NodePool <- MCNodes
  RelPool <- MCRels
  Snapshots <- MCSnapshots
  Rank <- MCRank
  BridgeLimit = 2
  MaxChanges = 1
INVARIANTS TypeOK NothingMissed NoFalseAlarm StewardTold
CHECK_DEADLOCK FALSE
