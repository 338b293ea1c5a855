SPECIFICATION Spec
CONSTANTS
  PAGE_SIZE = 4
  VA_SIZE = 64
  BYTE = 16
  WORD = 2
  Tables <- MCTables
  Pointers <- MCPointers
  Lengths <- MCLengths
  Types <- MCTypes
  MAX_STR_LEN = 8
  MAX_ARGV = 2
  ArgLists <- MCArgLists
  Nuls = {3, 4, 7, 8, 24, 27, 31}
  Strays = {5, 23, 32}
  Bases = {6, 8}
  NewTable <- MCNewTable
  STACK_TOP = 28
  USER_STACK_SIZE = 12
INVARIANTS
  AccessExact
  CopyExact
  StringsExact
  
CHECK_DEADLOCK FALSE
