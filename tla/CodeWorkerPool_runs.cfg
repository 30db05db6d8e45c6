SPECIFICATION FairPoolSpec
CONSTANTS
  r1 = r1
  r2 = r2
  Run = {r1, r2}
  poolSize = 2
  MaxFailures = 1
CHECK_DEADLOCK FALSE
INVARIANTS
  OneRunPerWorker
  NoDeadWorkerIsUsed
  WorkersHaveOwners
  ThreadsAreBounded
PROPERTIES
  EveryRunIsServed
