SPECIFICATION FairSpec
CONSTANTS
    w1 = w1
    w2 = w2
    p1 = p1
    p2 = p2
    Workers = {w1, w2}
    Partitions = {p1, p2}
    BatchSize = 2
    MaxLog = 1
    MaxGeneration = 3
INVARIANT AtMostOncePerGeneration
PROPERTY ImplementsDelivery
PROPERTY EveryClickStored
