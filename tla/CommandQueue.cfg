CONSTANTS
  NoCmd = NoCmd
  Cmd <- TwoLanesCmd
  Lane <- TwoLanes
  LaneOf <- TwoLanesOf
  Inner <- TwoLanesInner
  MaxCap = 2
  MaxResets = 1
SPECIFICATION FairSpec
INVARIANTS
  NoLostWakeup
  DrainedMeansFinished
PROPERTIES
  SettledForever
  ImplementsScheduler
  EveryCommandSettles
