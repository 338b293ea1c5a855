SPECIFICATION Spec
CONSTANTS
  AUDIT_RING_CAPACITY = 2
  AUDIT_READ_MAX_RECORDS = 2
  U64_MAX = 6
  Errnos = {0, 1, 14, 22}
  Bodies <- MCBodies
  IpcOperations = {"PipeWrite"}
  IpcErrnos = {0}
  BATCH_SIZE = 2
  Cursors = {0, 2}
  MaxRuns = 2
INVARIANTS
  RingInv
  SnapshotExact
  NoSilentLoss
  NoFalseAlarm
  ShownOnce
PROPERTIES
  ImplementsLog
  
