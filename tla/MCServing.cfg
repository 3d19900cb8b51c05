SPECIFICATION FairSpec
CONSTANTS
    g1 = g1
    g2 = g2
    e1 = e1
    NoRequest = NoRequest
    Request = {g1, g2, e1}
    Loads <- SomeLoads
    PoolSize = 1
    Threads = 1
    Limit = 1
    LastWindow = 1
    CrashBudget = 1
INVARIANTS TypeOK PoolAccounted RateRespected RunRecorded
PROPERTIES EveryoneServed
CHECK_DEADLOCK FALSE
