SPECIFICATION FairSpec
CONSTANTS
    Tool = {"get_portfolio", "read_chart", "compare_symbols", "generate_custom_indicator"}
    AccountTool = {"get_portfolio"}
    Gathers = {"read_chart"}
    Bounded = {"compare_symbols"}
    Writer = "generate_custom_indicator"
    Arg = {"tcs"}
    Malformed = {"null"}
    Call <- AllCalls
    SignedIn = TRUE
    MaxCalls = 2
    MaxRounds = 2
    MaxTokens = 1
    MaxBatch = 2
INVARIANTS
    
    FiguresChecked
PROPERTIES
    SnapshotsHold
    TurnEnds
CHECK_DEADLOCK FALSE
