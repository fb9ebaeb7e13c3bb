SPECIFICATION FairSpec
CONSTANTS
    c1 = c1
    c2 = c2
    t1 = t1
    t2 = t2
    t3 = t3
    None = None
    Codes = {c1, c2}
    Transactions = {t1, t2, t3}
    MayCall <- MCMayCall
    BatchSize = 2
    PoolSize = 2
    MaxAttempts = 2
    PerPage = 1
    MayFail = {t2}
INVARIANT OnlyBatchesDeadlock
INVARIANT TotalCoversPage
PROPERTY ImplementsLinkStore
PROPERTY PoolRecovers
PROPERTY EveryHandlerEnds
