\* One process that calls Kite, the startup job and the daily one.
CONSTANTS
    Provider = {"signals"}
    Thread = {"t1"}
    Job = {"startup", "daily"}
    Home <- OneProcess
    StoreAttempts = 2
    MaxDeaths = 2
    MaxFaults = 2
SPECIFICATION FairSpec
PROPERTY
    SessionIsKept
