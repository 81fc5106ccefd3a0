SPECIFICATION TurnSpec
CONSTANTS
    Caller = {c1, c2, c3}
    Tool = {c1, c2}
    NoTool = NoTool
    MaxPending = 2
    MaxEvents = 2
INVARIANTS
    SandboxInStep
    TurnIsClean
PROPERTIES
    KeepsItsPromise
    EndsUnlessFull
CHECK_DEADLOCK FALSE
