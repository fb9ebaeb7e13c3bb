SPECIFICATION FairSpec
CONSTANTS
    p1 = p1
    p2 = p2
    Partitions = {p1, p2}
    Kinds = {"click"}
    BatchSize = 2
    MaxLog = 3
    MaxRestarts = 1
    InsertMayFail = FALSE
    FlushMayTimeOut = FALSE
    CommitMayFail = TRUE
INVARIANT AtLeastOnce
INVARIANT OneInsertAtATime
PROPERTY ImplementsDelivery
PROPERTY EveryClickStored
