SPECIFICATION Spec
CONSTANTS
    Requests = {r1, r2}
    Wallets = {w1, w2}
    Capacity = 1
    EpochTicks = 3
    WeekTicks = 6
    LookbackWeeks = 1
    MaxServeTicks = 2
    StartTick = 11
    LastTick = 17
SYMMETRY Symmetry
INVARIANTS
    TypeOK
    CleanHitIsComplete
    NoPartialEntry
    AtMostOneEpochBehind
