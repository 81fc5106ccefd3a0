SPECIFICATION Spec
CONSTANTS
    Agenda = Agenda
    Watchdog = Watchdog
    CronJob = {Agenda, Watchdog}
    DateJob <- WakeUp
    Day = 4
    At <- MCAt
    Grace <- MCGrace
    MaxTime = 25
    Release = {cpi}
    When = {10, 22}
    LeadOf <- MCLeadOf
    MinLead = 1
    LateAfter = 1
    RecordTtl = 16
    MaxFaults = 2
INVARIANTS
    AllClearIsTrue
    ReportsAreTrue
CHECK_DEADLOCK FALSE
