SPECIFICATION Spec
CONSTANTS
  NUM_INODES = 2
  NUM_BLOCKS = 4
  INODES_PER_BLOCK = 2
  BLOCK_CACHESIZE = 2
  INODE_CACHESIZE = 1
  a = a
  b = b
  Val = {a}
  FREE = FREE
  Faults <- NoFaults
  MultiLinked = {}
  DataSlot = {0}
INVARIANT SyncDurableHeaderBlock
