CONSTANTS
    MaxHandles = 2
    Principals = {p1}
    Requests = {r1, r2}
    IdleTTL = 2
    AbsoluteTTL = 3
    MaxTime = 1
SPECIFICATION Spec
INVARIANTS
    IndexComplete
CHECK_DEADLOCK FALSE
