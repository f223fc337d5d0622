CONSTANTS
    a = a
    b = b
    c = c
    Modules = {a, b}
    N = 2
    Order <- ChainOrder
    Deps <- ChainDeps
    MaxGen = 2
    Requests = {r1, r2}
    MaxLeases = 2
    ReplaceUnderLock = FALSE
SPECIFICATION FairSpec
INVARIANTS
    RegistryConsistent
    WorkIsProtected
    NothingLeftBehind
PROPERTIES
    EnableAllRollsBack
    OperationsEnd
CHECK_DEADLOCK FALSE
