SPECIFICATION Spec
CONSTANTS
  NUM_INODES = 3
  NUM_BLOCKS = 7
  INODES_PER_BLOCK = 4
  BLOCKSIZE = 2
  NUM_DIRECT = 1
  ROOTSIZE = 1
  Word = {3}
  MAXEND = 6
  MAXLEN = 3
INVARIANT NoSharedBlock
