\* Refused sends at any point, and one crash.
CONSTANTS
    Chat = {c1, c2}
    Release = 0
    Delay = 1
    RetryAfter = 1
    MaxAttempts = 3
    OfferEnd = 4
    MaxNow = 4
    MaxTaps = 2
    MaxCrashes = 1
SPECIFICATION FairSpec
INVARIANT
    NoWatchGoesAstray
PROPERTIES
    KeepsThePromise
    EveryWatchIsAnswered
CHECK_DEADLOCK FALSE
