SPECIFICATION Spec
CONSTANTS
  NodeCount = 4
  Passthrough = {2}
  Required = {2, 3}
  Graphs <- AllGraphs
INVARIANTS
  ComponentsAreCycles
  NeighboursAgree
  FastNodesNeverWaitInACircle
