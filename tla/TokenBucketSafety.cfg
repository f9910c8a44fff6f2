SPECIFICATION FairSpec
CONSTANTS
    Callers = {c1, c2}
    TicksPerToken = 3
    Burst = 2
    Window = 5
INVARIANTS
    TypeOK
    LockDiscipline
    RateBound
    NoOversleep
PROPERTIES
    IsRateLimiter
    CancelledCallReturns
    SomeCallReturns
