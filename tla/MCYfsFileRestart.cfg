SPECIFICATION Spec
CONSTANTS
  NUM_INODES = 3
  NUM_BLOCKS = 5
  INODES_PER_BLOCK = 3
  BLOCKSIZE = 2
  NUM_DIRECT = 2
  ROOTSIZE = 1
  Word = {3}
  MAXEND = 4
  MAXLEN = 3
INVARIANTS NoSharedBlock OwnedMarked NoLeak
