SPECIFICATION Spec
CONSTANTS
  Procs = {1, 2, 3}
  FirstProc = 1
  FANOUT = 4
  TRAMPOLINE = 7
  ImageSizes = {1, 2}
  USER_STACK = 1
  KERNEL_STACK = 1
  MEMORY_END = 24
  MaxBuilt = 4
INVARIANTS
  FramesExact
  PrivateMemory
CHECK_DEADLOCK FALSE
