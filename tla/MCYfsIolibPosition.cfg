SPECIFICATION Spec
CONSTANTS
  NUM_INODES = 4
  BLOCK_ENTRIES = 2
  MAXSYMLINKS = 1
  REUSES = 1
  Name = {"a"}
  Process = {"files", "names"}
  Uses <- TwoClients
  MAX_OPEN_FILES = 1
  Images <- GrownDisk
  Paths <- OnePath
  Residue <- CleanResidue
  Lengths = {3}
  Offsets = {0}
  MAXPOS = 3
PROPERTY ErrorMovesNothing
CHECK_DEADLOCK FALSE
