SPECIFICATION Spec
CONSTANTS
  DIRVE_COUNT = 2
  DIRVE_COUNT_OFFLINE = 4
  Volume = {11, 12}
  Ntfs = {11}
  Size <- Sizes
  SerialRescan = TRUE
  FollowRaces = TRUE
  MaxEvents = 2
INVARIANT CountIsTotal
CHECK_DEADLOCK FALSE
