SPECIFICATION MCSpec
CONSTANTS
    MaxClicks = 3
    Uploads = {"f1"}
    Fields = {"f"}
    Buttons = {"b1", "b2"}
    MaxDomChecks = 2
    Effects = {1, 2, 3}
    MayThrow = {2}
    Delays = {0, 1}
    Durations = {0, 1}
    MaxClock = 2
    FieldValues = {"x", "y"}
    MaxEdits = 4
    Drives = {"C"}
    Threads = {"t1", "t2"}
    MaxChecks = 2
    MaxRescans = 2
INVARIANTS
    ProgressTypeOK
    CompleteOnce
    NewIsVerified
PROPERTIES
    EndWaits
    UploadEnds
    EffectsFinish
    FieldIsTold
    FailedDownloadIsForgotten
    RescanIsShown
CHECK_DEADLOCK FALSE
