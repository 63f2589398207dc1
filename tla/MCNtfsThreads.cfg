SPECIFICATION Spec
CONSTANTS
  Drive <- TwoDrives
  DirFrn = {6}
  FileFrn = {8}
  Name = {1, 2}
  Overlap = FALSE
  MaxOps = 5
INVARIANTS MovedFileIsTheRecords
CHECK_DEADLOCK FALSE
