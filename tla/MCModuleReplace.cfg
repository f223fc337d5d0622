CONSTANTS
    a = a
    b = b
    c = c
    Modules = {a, b, c}
    N = 3
    Order <- ChainOrder
    Deps <- ChainDeps
    MaxGen = 2
    Requests = {}
    MaxLeases = 2
    ReplaceUnderLock = TRUE
SPECIFICATION Spec


PROPERTIES
    EnableAllRollsBack
CHECK_DEADLOCK FALSE
