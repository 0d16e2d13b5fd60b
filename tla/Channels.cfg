CONSTANTS
  Users = {u1}
  Restarters = {"monitor", "reload"}
  MaxRestartAttempts = 2
  MaxPerHour = 1
  Instances = {i1, i2}
  Nobody = Nobody
SPECIFICATION FairSpec
INVARIANTS OneInstance LiveIsTracked CrashLoopIsCapped
PROPERTIES AutoRestartHonoursStop CallsReturn AccountComesBack
CONSTRAINT NotOverlapped
CHECK_DEADLOCK FALSE
