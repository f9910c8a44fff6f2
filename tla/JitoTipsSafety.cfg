SPECIFICATION FairSpec
CONSTANTS
    c1 = c1
    c2 = c2
    a1 = a1
    a2 = a2
    payer = payer
    jito = jito
    system = system
    JitoPrograms <- MCJitoPrograms
    Late <- MCLate
    BatchLen = 1
    Collections = {c1, c2}
    AccountsOf <- MCAccountsOf
    History <- MCHistory
    EndSlot <- MCEndSlot
    PageSize = 2
    MaxPages = 3
    ProcessedSize = 1
    Lookback = 1
    ChunkRuns = 2
    SlotsInEpoch = 2
INVARIANTS
    TypeOK
    NoTipTwice
    RowsAreTips
    CompleteExceptMarked
    NoTipLostQuietly
PROPERTIES
    EveryCollectionEnds
CHECK_DEADLOCK FALSE
