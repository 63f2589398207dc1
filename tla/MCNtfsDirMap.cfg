SPECIFICATION Spec
CONSTANTS
  Drive <- OneDrive
  DirFrn = {6}
  FileFrn = {8}
  Name = {1, 2}
  Overlap = FALSE
  MaxOps = 5
INVARIANTS FindDirFindsDirs
CHECK_DEADLOCK FALSE
