SPECIFICATION Spec
CONSTANTS
    p1 = p1
    Partitions = {p1}
    Kinds = {"click"}
    BatchSize = 1
    MaxLog = 1
    MaxRestarts = 1
    InsertMayFail = FALSE
    FlushMayTimeOut = FALSE
    CommitMayFail = TRUE
INVARIANT PollThreadEndsOnRequest
