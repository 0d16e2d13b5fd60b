CONSTANTS
  NoFile = NoFile
  Deliveries <- TwoDeliveries
  BestEffort <- OnlyB
  Observed <- OnlyB
  MaxRetries = 1
  MaxCrashes = 2
SPECIFICATION Spec
INVARIANTS
  NothingForgotten
  AttemptsAreBounded
PROPERTIES
  RetiredStaysRetired
CHECK_DEADLOCK FALSE
