SPECIFICATION FairSpec
CONSTANTS
    Calls = {c1, c2}
    Capacity = 4
    Cost = 2
    Timeout = 2
    MaxDelay = 2
    Window = 5
INVARIANTS
    TypeOK
    EndpointRate
    RetryAfterHonoured
    BodiesClosed
PROPERTIES
    NothingSentAfterCancel
    CancelledCallEnds
