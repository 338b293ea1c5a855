SPECIFICATION ShellSpec
CONSTANTS
  Lines <- MCLines
  Program <- MCProgram
  Files = {"f"}
  MaxStages = 5
  RING_BUFFER_SIZE = 1
  MAX_OPEN_FILES = 10
  MAX_OPEN_PIPE_FDS = 6
  ERROR_LEN = 1
  PANIC_LEN = 2
INVARIANTS
  Wired
  PromptIsClean
PROPERTIES
  PromptReturns
CHECK_DEADLOCK FALSE
