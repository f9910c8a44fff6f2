SPECIFICATION Spec
CONSTANTS
    Requests = {r1}
    Wallets = {w1}
    Capacity = 1
    EpochTicks = 3
    WeekTicks = 6
    LookbackWeeks = 1
    MaxServeTicks = 2
    StartTick = 11
    LastTick = 17
INVARIANTS
    MissingDataRefetched
