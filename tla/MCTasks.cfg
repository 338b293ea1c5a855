SPECIFICATION Spec
CONSTANTS
  Tasks = {t0, t1, t2, t3}
  INITPROC = t0
  NoTask = NoTask
INVARIANTS
  TasksInv
  ZombieCountIsOne
PROPERTIES
  OrphansReaped
