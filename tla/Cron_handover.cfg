CONSTANTS
  None = None
  Job <- OneJob
  Kind <- CronOnly
  DeleteAfterRun <- KeepDaily
  Period = 2
  MaxAttempts = 1
  StuckAfter = 9
  MaxDelay = 2
  MaxInst = 2
  MaxConcurrent = 1
  MaxMissed = 1
  MaxTime = 3
  MaxManual = 0
  Ops <- HandoverOps
  Results = {"ok", "skipped", "transient", "permanent"}
  Faults = {"reload", "crash"}
  InitialJobs <- OneJob
SPECIFICATION FairSpec

  
PROPERTIES
  EveryDueJobRuns
CHECK_DEADLOCK FALSE
