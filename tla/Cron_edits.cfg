CONSTANTS
  None = None
  Job <- TwoJobs
  Kind <- EveryAndAt
  DeleteAfterRun <- KeepBoth
  Period = 2
  MaxAttempts = 1
  StuckAfter = 9
  MaxDelay = 1
  MaxInst = 2
  MaxConcurrent = 1
  MaxMissed = 1
  MaxTime = 2
  MaxManual = 1
  Ops <- EditOps
  Results = {"ok", "transient"}
  Faults = {"crash"}
  InitialJobs = {"daily"}
SPECIFICATION Spec
INVARIANTS
  NoDoubleRun
  TimerCoversSlots
PROPERTIES
  TickKeepsSlots
  
CHECK_DEADLOCK FALSE
