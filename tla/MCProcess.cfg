CONSTANTS
    N = 3
    S = 1
    F = 1
    Requests = {r1, r2}
    w1 = w1
    w2 = w2
    DeliverEarly = FALSE
    MaxStarts = 2
SPECIFICATION MCSpec
INVARIANTS
    ApplicationSound
    WorkerSound
PROPERTIES
    LifecyclesEnd
    EventuallyApplied
CHECK_DEADLOCK FALSE
