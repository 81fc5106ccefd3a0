\* Any drop and any missing baseline, at any point.
CONSTANTS
    Pair = {p1, p2}
    Tag = {t1, t2, t3}
    NoId = NoId
    MaxOpened = 3
    MaxPipe = 2
SPECIFICATION FairSpec
INVARIANTS
    StreamsAreKnown
    KeptUnlessFaulted
PROPERTY
    ComesBack
