SPECIFICATION Spec
CONSTANTS
  Blocks = {1, 2, 3, 4}
  Contents = {0, 1}
  BLOCK_CACHE_SIZE = 3
  MaxHeld = 3
INVARIANTS
  CacheInv
  NeverRunsOut
PROPERTIES
  ImplementsStore
