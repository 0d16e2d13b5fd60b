CONSTANTS
  Everyone = Everyone
  session = session
  Targets = {Everyone, session}
  MaxRunners = 2
  MaxBatches = 2
  CallerReasons = {"wake"}
SPECIFICATION FairSpec
INVARIANTS KeepsBeating OneBatchAtATime
PROPERTIES WakesAreTaken NoDowngrade CooldownHolds
