\* Two trades, one of them followed past a window of two, a sweep that reaches
\* one of them, and a crash between any two commands.
CONSTANTS
    a = a
    b = b
    Trade <- TwoTrades
    MaxBars = 2
    MaxLen <- TwoLengths
    OpenLimit = 1
    MaxClosed = 2
    Bar <- TwoBars
    MaxCrashes = 1
SPECIFICATION FairSpec
INVARIANTS
    VerdictsAreSound
    TallyIsSound
PROPERTY
    MarketOrdersClose
CHECK_DEADLOCK FALSE
