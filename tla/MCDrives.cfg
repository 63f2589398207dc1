SPECIFICATION Spec
CONSTANTS
  DIRVE_COUNT = 2
  DIRVE_COUNT_OFFLINE = 4
  Volume = {11, 12}
  Ntfs = {11}
  Size <- Sizes
  SerialRescan = TRUE
  FollowRaces = FALSE
  MaxEvents = 2
INVARIANTS DrivesTypeOK OnlineRootsLive NoSharedTree CountCoversTrees
PROPERTY ScanningEnds
CHECK_DEADLOCK FALSE
