SPECIFICATION FairTreeSpec
CONSTANTS
  root = root
  child = child
  sibling = sibling
  grandchild = grandchild
  Processor = {root, child}
  Root = root
  ParentOf <- OneParent
  Activities <- OnePlan
  OneCallPerTurn = FALSE
  MaxHostCalls = 2
CHECK_DEADLOCK FALSE
PROPERTIES
  LastCallHolds
