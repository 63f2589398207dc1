SPECIFICATION Spec
CONSTANTS
  Drive <- OneDrive
  DirFrn = {6}
  FileFrn = {8}
  Name = {1, 2}
  Overlap = TRUE
  MaxOps = 5
INVARIANTS DeletedFilesLeaveTheTree
CHECK_DEADLOCK FALSE
