CONSTANTS
  Run <- CronRun
  Session <- Sessions
  SessionOf <- CronSession
  LaneArg <- CronLane
  NoLane = "none"
  GlobalName <- Names
  Manual <- CronManual
  TimeLimited <- CronManual
  MaxCap = 2
SPECIFICATION FairSpec
INVARIANTS
  OneRunPerSession
PROPERTIES
  UsesTheQueue
  EverySessionRunSettles
  EveryManualRunFinishes
CHECK_DEADLOCK FALSE
