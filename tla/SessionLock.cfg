CONSTANTS
  None = None
  Proc <- Processes
  Call <- Calls
  ProcOf <- Owners
  FiniteTimeout <- Limited
  HasStarttime = TRUE
  Cleaner <- Gateway
  Faults = {"crash", "terminate", "write", "watchdog", "age"}
SPECIFICATION LockFairSpec
INVARIANT HolderHasFile
PROPERTY WaiterGetsLock
CHECK_DEADLOCK FALSE
