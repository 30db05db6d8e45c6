SPECIFICATION FairTreeSpec
CONSTANTS
  root = root
  child = child
  sibling = sibling
  grandchild = grandchild
  Processor = {root, child, sibling, grandchild}
  Root = root
  ParentOf <- Parents
  Activities <- Plan
  OneCallPerTurn = TRUE
  MaxHostCalls = 2
CHECK_DEADLOCK FALSE
INVARIANTS
  TreePausesAsOne
  AbortReachesAll
PROPERTIES
  AbortEndsRun
  WaitersHear
