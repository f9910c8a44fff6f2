SPECIFICATION Spec
CONSTANTS
    c1 = c1
    c2 = c2
    a1 = a1
    a2 = a2
    payer = payer
    jito = jito
    system = system
    JitoPrograms <- MCJitoPrograms
    Late <- MCLate
    BatchLen = 1
    Collections = {c1, c2}
    AccountsOf <- OneAccount
    History <- MCHistory
    EndSlot <- MCEndSlot
    PageSize = 2
    MaxPages = 3
    ProcessedSize = 4
    Lookback = 1
    ChunkRuns = 2
    SlotsInEpoch = 2
INVARIANTS
    TipsStay
CHECK_DEADLOCK FALSE
