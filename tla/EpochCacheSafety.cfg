SPECIFICATION FairSpec
CONSTANTS
    Callers = {c1, c2}
    Nobody = nobody
    SlotsInEpoch = 2
    MaxSlotsPerTick = 1
    StartSlot = 5
    LastTick = 7
    Windows = {0, 4}
    EndWindow = 2
    RetryDelay = 1
INVARIANTS
    TypeOK
    CacheIsHistory
    WindowCovered
    StaleNoLongerThanRefresh
    

    
    
