CONSTANTS
    v1 = v1
    a = a
    b = b
    Logins = {l1, l2}
    AttemptLimit = 1
    TransactionTTL = 1
    MarkTTL = 1
    MaxClock = 1
    Versions = {v1, v2}
    Keys = {a, b}
    Needs <- NeedsBoth
    Module = {b}
    MaxInst = 4
    MaxHandles = 3
    Principals = {p1}
    Requests = {r1, r2}
    IdleTTL = 2
    AbsoluteTTL = 3
    MaxTime = 3
SPECIFICATION MCSpec
INVARIANTS
    StoreSound
    SessionsSound
    ContainerSound
PROPERTIES
    NoRevival
    IdleNeverShrinks
    ReturnedIsLive
CHECK_DEADLOCK FALSE
SYMMETRY RequestSymmetry
