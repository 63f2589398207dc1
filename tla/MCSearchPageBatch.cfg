SPECIFICATION Spec
CONSTANTS
    Texts = {"*", "a"}
    Star = "*"
    Opts = {0, 1}
    Hits <- MCHits
    FirstRows = 1
    PageRow = 1
    MaxRows = 1
    MaxPageEnd = 2
    MaxTimers = 1
INVARIANT BatchHitsSelection
