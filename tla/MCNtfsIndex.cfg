SPECIFICATION Spec
CONSTANTS
  Drive <- OneDrive
  DirFrn = {6, 7}
  FileFrn = {8}
  Name = {1, 2}
  Overlap = FALSE
  MaxOps = 5
INVARIANTS TypeOK IndexMatchesDisk TreeWellFormed CountMatchesTree LookupNeverWrong
PROPERTIES OnlyTheNamedFileChanges
CHECK_DEADLOCK FALSE
