SPECIFICATION Spec
CONSTANTS
  RING_BUFFER_SIZE = 2
  Procs = {p0, p1, p2}
  Initproc = p0
  MaxLen = 2
  Bytes = 3
INVARIANTS
  PipeInv
  EofIsFinal
PROPERTIES
  DataReachesReader
  ReadersSeeEof
  WritersProgress
