SPECIFICATION FairSpec
CONSTANTS
  LongestArray = 6
  SplitRunMax = 5
  SplitRunConcurrency = 3
  ListenersThrow = TRUE
INVARIANTS
  OutcomeIsWhole
  AbortIsHeeded
PROPERTIES
  AbortEndsNode
