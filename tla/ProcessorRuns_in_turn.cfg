SPECIFICATION Spec
CONSTANTS
  first = first
  second = second
  third = third
  Call = {first, second, third}
  StartsFrom <- InTurn
  HostPreloads = TRUE
INVARIANTS
  RunIsGuarded
  FinishPerRun
  DebuggerSeesRun
