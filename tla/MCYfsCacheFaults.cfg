SPECIFICATION FairSpec
CONSTANTS
  NUM_INODES = 2
  NUM_BLOCKS = 4
  INODES_PER_BLOCK = 1
  BLOCK_CACHESIZE = 2
  INODE_CACHESIZE = 1
  a = a
  b = b
  Val = {a}
  FREE = FREE
  Faults <- DiskFaults
  MultiLinked = {1}
  DataSlot = {0}
INVARIANTS CachesLinked CleanIsBelow SyncDurable
PROPERTIES BootEnds SyncEnds OnlyWritesChange ImplementsStore
