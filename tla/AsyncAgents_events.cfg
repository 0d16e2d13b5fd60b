CONSTANTS
  ann = ann
  Tasks = {t1, t2}
  Users = {ann}
  Owner <- AllOfAnn
  MaxTasksPerUser = 2
  MaxCoordinators = 2
  MaxCrashes = 0
SPECIFICATION Spec
INVARIANTS OwnRunEnds
CHECK_DEADLOCK FALSE
