SPECIFICATION MCSpec
CONSTANTS
    Name = {a}
    Empty = Empty
    MAX_HISTORY = 4
    VIEW_HISTORY = 2
    num_per_page = 2
    MaxFailures = 1
    Plain = {"p"}
    Polls = {"u1", "u2"}
    Answers = {"x", "y"}
    MaxDecay = 1
    Tokens = {"", "a", "ab", "abc"}
    Entries <- MCEntries
    MinChars <- MCMinChars
    MaxAsked = 2
    MaxKeys = 4
    Values = {"", "a"}
    Calls = {"c1", "c2"}
    Items = {"i1", "i2"}
    Lists = {"l1", "l2"}
    DragOptions <- MCDragOptions
    MaxEffects = 2
    MaxStarted = 2
    MaxClicks = 3
INVARIANTS
    PagesTypeOK
    RingSoundAfterAnyLoad
    FileIsMemory
    CountAccountsForRequests
    OnePollChain
    SettledMenuIsForText
    TextIsNeverLost
    SettledOrderIsReported
    StyleIsPutBack
CHECK_DEADLOCK FALSE
