SPECIFICATION Spec
CONSTANTS
  NUM_INODES = 4
  NUM_BLOCKS = 4
  INODES_PER_BLOCK = 2
  BLOCK_CACHESIZE = 1
  INODE_CACHESIZE = 2
  a = a
  b = b
  Val = {a}
  FREE = FREE
  Faults <- NoFaults
  MultiLinked = {}
  DataSlot = {0}
INVARIANTS TypeOK CachesLinked CleanIsBelow InodesAccounted SyncDurable CacheBounded
PROPERTIES HeldInodeSurvives
