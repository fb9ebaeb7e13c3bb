SPECIFICATION FairSpec
CONSTANTS
    c1 = c1
    c2 = c2
    c3 = c3
    Clicks = {c1, c2, c3}
    Capacity = 2
    MaxCopies = 2
INVARIANT CountersTell
INVARIANT NoSilentLoss
PROPERTY EveryClickReported
PROPERTY ShutdownEnds
