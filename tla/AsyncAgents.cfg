CONSTANTS
  ann = ann
  Tasks = {t1, t2}
  Users = {ann}
  Owner <- AllOfAnn
  MaxTasksPerUser = 1
  MaxCoordinators = 2
  MaxCrashes = 1
SPECIFICATION FairSpec
INVARIANTS QuotaHolds NoZombies DbAgrees
PROPERTIES EndedStaysEnded 
CHECK_DEADLOCK FALSE
