SPECIFICATION Spec
CONSTANTS
  total_blocks = 19
  inode_bitmap_blocks = 1
  BLOCK_BITS = 16
  inodes_per_block = 4
  BLOCK_SZ = 2
  INODE_DIRECT_COUNT = 1
  Names = {a, b, c}
  Handles = {h1, h2}
  Buffers <- BuffersDef
  Modes <- ModesDef
  MaxSize = 12
  Zero = Zero
  Closed = Closed
INVARIANTS
  BlocksExact
  
PROPERTIES
  ImplementsFiles
SYMMETRY Perms
CHECK_DEADLOCK FALSE
