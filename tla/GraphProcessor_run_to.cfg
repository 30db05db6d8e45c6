SPECIFICATION FairSpec
CONSTANTS
  a = a
  b = b
  c = c
  d = d
  e = e
  Node = {a, b, c, d, e}
  Connection <- JoinTail
  IfPort <- JoinIf
  Conditional = {b}
  Disabled = {}
  MissingRequired = {}
  MergeNode = {d}
  RunTo = {d, e}
  NodeConcurrency = 2
  Frozen = {a}
  Preloaded = {c}
  HostControls = {"pause", "abort"}
INVARIANTS
  OneJobPerNode
  DecisionsStand
  NoStall
PROPERTIES
  ImplementsLifecycle
  RunTerminates
