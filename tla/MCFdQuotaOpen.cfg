SPECIFICATION Spec
CONSTANTS
  Procs = {p0}
  Initproc = p0
  MAX_OPEN_FILES = 4
  MAX_OPEN_PIPE_FDS = 3
  U64_BITS = 4
  MaxPipeId = 3
PROPERTIES
  ExhaustionIsLocal
