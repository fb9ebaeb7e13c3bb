SPECIFICATION Spec
CONSTANTS
    p1 = p1
    Partitions = {p1}
    Kinds = {"click"}
    BatchSize = 1
    MaxLog = 2
    MaxRestarts = 0
    InsertMayFail = TRUE
    FlushMayTimeOut = FALSE
    CommitMayFail = FALSE
INVARIANT AtLeastOnce
