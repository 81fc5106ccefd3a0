SPECIFICATION Spec
CONSTANTS
    PlanCent = 2000
INVARIANTS
    StrategiesAreSound
    SignalsAreSound
    LevelsAreSound
    PlansAreSound
    NewsIsSound
    EventsAreSound
    HoursAgree
    AnswersAreHonest
    BriefIsSound
    DutiesAreDone
CHECK_DEADLOCK FALSE
