SPECIFICATION HistSpec
CONSTANTS
    Unset = Unset
    Error = Error
    Caller = {0, 1, 2}
    MaxConn = 2
    MaxPages = 3
    MaxConcurrency = 2
    Span = 3
    PageSpan = 2
INVARIANTS
    LineIsSound
    HonestWalk
PROPERTIES
    KeepsItsPromise
    WalkEnds
CHECK_DEADLOCK FALSE
