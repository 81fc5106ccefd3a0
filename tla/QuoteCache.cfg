\* Requests that may be cancelled wherever they are suspended.
CONSTANTS
    Caller = {c1, c2, c3, c4}
    Lock = {l1, l2, l3, l4}
    NoLock = NoLock
    OwnProvider = TRUE
SPECIFICATION FairSpec
INVARIANTS
    UndisturbedFlight
    LocksAreSound
PROPERTIES
    EveryRequestReturns
    ImplementsReadThrough
