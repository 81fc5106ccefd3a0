\* A process that still holds the token another one has replaced.
CONSTANTS
    Provider = {"signals", "newsd"}
    Thread = {"t1", "t2"}
    Job = {}
    Home <- TwoProcesses
    StoreAttempts = 2
    MaxDeaths = 1
    MaxFaults = 0
SPECIFICATION Spec
PROPERTY
    LoginsAreNeeded
