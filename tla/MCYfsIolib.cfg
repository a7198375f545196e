SPECIFICATION FairSpec
CONSTANTS
  NUM_INODES = 4
  BLOCK_ENTRIES = 2
  MAXSYMLINKS = 1
  REUSES = 1
  Name = {"a"}
  Process = {"files", "names"}
  Uses <- TwoClients
  MAX_OPEN_FILES = 2
  Images <- FileDisk
  Paths <- OnePath
  Residue <- CleanResidue
  Lengths = {1}
  Offsets = {0}
  MAXPOS = 1
INVARIANTS TypeOK CountRight SlotForReply CwdIsDirectory FreeIsEmpty
PROPERTY CallsReturn
CHECK_DEADLOCK FALSE
