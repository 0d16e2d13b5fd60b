CONSTANTS
  None = None
  Messages <- ThreeMessages
  Origin <- TwoOrigins
  Unroutable = "unroutable"
  Settings <- DefaultSettings
  QueueObjects <- Objects
  MaxFailures = 0
  MaxRedeliveries = 0
  MaxClears = 0
  MaxTurns = 1
SPECIFICATION Spec
INVARIANTS
  NothingIsLost
