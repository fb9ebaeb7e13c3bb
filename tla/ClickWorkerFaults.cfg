SPECIFICATION FairSpec
CONSTANTS
    p1 = p1
    Partitions = {p1}
    Kinds = {"click", "orphan", "poison"}
    BatchSize = 2
    MaxLog = 3
    MaxRestarts = 1
    InsertMayFail = TRUE
    FlushMayTimeOut = TRUE
    CommitMayFail = TRUE
INVARIANT Accounted
INVARIANT AtMostOncePerStart
PROPERTY CommittedOnlyForward
PROPERTY EveryMessageRead
