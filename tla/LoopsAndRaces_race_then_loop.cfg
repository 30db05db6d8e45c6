SPECIFICATION FairSpec
CONSTANTS
  a = a
  b = b
  c = c
  d = d
  race = race
  controller = controller
  x = x
  z = z
  out = out
  Node = {a, b, c, d, race, controller, x, z, out}
  Connection <- RaceThenLoop
  LoopController = {controller}
  BreakPort <- Break
  RaceInputs = {race}
  MayFail = {a, d, x}
  MayExclude = {x}
  MaxIterations = 3
  NodeConcurrency = 2
  HostAborts = TRUE
INVARIANTS
  LoopIsSound
  LoopGoesOn
  WonRaceIsNoFailure
PROPERTIES
  NoLoserStarts
  RunEnds
