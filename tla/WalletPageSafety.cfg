SPECIFICATION Spec
CONSTANTS
    r1 = r1
    r2 = r2
    v1 = v1
    v2 = v2
    Callers = {r1, r2}
    Validators = {v1, v2}
    StakeAccounts <- MCStakeAccounts
    Ledger <- MCLedger
    Points <- MCPoints
    PriceTTL = 1
    HourTicks = 2
    DayTicks = 3
    FallbackTicks = 3
    EpochTicks = 4
    WeekTicks = 6
    LookbackWeeks = 1
    MetricTicks = 6
    One = 100
    Scale = 10000
    MaxRate = 160
    Rounds = 7
    MaxTicks = 30
    MaxServeTicks = 1
    StartTick = 16
    LastTick = 25
SYMMETRY Symmetry
INVARIANTS
    TypeOK
    PriceFresh
    PriceServed
    FiatOfOwnPrice
    ChartCoversMetric
    XirrSolvesFlows
