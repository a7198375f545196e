SPECIFICATION Spec
CONSTANTS
  NUM_INODES = 4
  BLOCK_ENTRIES = 2
  MAXSYMLINKS = 1
  REUSES = 1
  Name = {"a", "b", "d", "l"}
  Images <- FreshDisk
  Paths <- FewPaths
  Residue <- CleanResidue
  MAXLINKS = 2
  Sizes = {5}
PROPERTY EntriesStay
CHECK_DEADLOCK FALSE
