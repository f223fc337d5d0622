CONSTANTS
    c1 = c1
    c2 = c2
    r1 = r1
    r2 = r2
    d1 = d1
    d2 = d2
    Deployers = {d1, d2}
    Commands = {d2}
    Releases <- MCReleases
    Installed <- MCInstalled
    Core = "core"
    InventoryAt = "c1"
    GraphAt = "c2"
    MaxRuns = 2
    Clients = {c1, c2}
    Rotators = {r1, r2}
    Pools = {p1, p2, p3}
    FirstPool = p1
    NoPool = NoPool
    Keys = {k1}
    Profiles = {"governance", "metadata", "publication"}
    Crowds <- MCCrowds
    Drifting <- MCDrifting
    PoolSize = 1
    TicketLimit = 2
    MaxChanges = 1
SPECIFICATION MCSpec
INVARIANTS AuthoritySound OutcomeIsDurable
PROPERTIES CheckedIsCurrent DatabaseWorkEnds
CHECK_DEADLOCK FALSE
