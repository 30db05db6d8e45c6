SPECIFICATION FairSpec
CONSTANTS
  a = a
  b = b
  c = c
  d = d
  e = e
  f = f
  Node = {a, b, c, d, e, f}
  Connection <- Kite
  IfPort <- KiteIf
  Conditional = {c}
  Disabled = {f}
  MissingRequired = {e}
  MergeNode = {d}
  RunTo = {}
  NodeConcurrency = 2
  Frozen = {b}
  Preloaded = {}
  HostControls = {"pause", "abort"}
INVARIANTS
  ReadyNeverWaits
  OnlyErrorsHoldBack
PROPERTIES
  ImplementsLifecycle
  RunTerminates
