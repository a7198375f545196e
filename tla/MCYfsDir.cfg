SPECIFICATION Spec
CONSTANTS
  NUM_INODES = 5
  BLOCK_ENTRIES = 2
  MAXSYMLINKS = 1
  REUSES = 1
  Name = {"a", "b", "d", "l"}
  Images <- BothDisks
  Paths <- PlainPaths
  Residue <- Residues
  MAXLINKS = 2
  Sizes = {3, 5}
INVARIANTS TypeOK LinksCovered NoDangling NamesUnique InodesMarked LinksTransparent
PROPERTIES OnlyLastIsLost ImplementsNames
CHECK_DEADLOCK FALSE
