SPECIFICATION Spec
CONSTANTS
    Callers = {c1, c2}
    TicksPerToken = 2
    Burst = 1
    Window = 0
INVARIANTS
    NoFatalUnlock
