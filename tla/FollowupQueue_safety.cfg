CONSTANTS
  None = None
  Messages <- ThreeMessages
  Origin <- TwoOrigins
  Unroutable = "unroutable"
  Settings <- MixedSettings
  QueueObjects <- Objects
  MaxFailures = 1
  MaxRedeliveries = 1
  MaxClears = 1
  MaxTurns = 1
SPECIFICATION FairSpec
INVARIANTS
  RunsOnce
  RunsInOrder
  
PROPERTIES
  AttendedMessagesLeave
