CONSTANTS
    a = a  b = b  c = c  r1 = r1  r2 = r2  r3 = r3  r4 = r4  p = p  q = q  site = site
    Txs = {t1, t2}
    NoTx = NoTx
    Subjects = {a, b, c}
    Roles = {r1, r2, r3, r4}
    NoRole = NoRole
    Perms = {p, q}
    Wild = Wild
    Tenant = Tenant
    Sites = {site}
    Windows <- TwoWindows
    Horizon = 1
    MaxRows = 3
    MaxDepth = 3
    MaxWrites = 9
    Seeds <- MCSeeds
SPECIFICATION MCSpec
INVARIANTS TablesSound DecisionsStand
SYMMETRY Symmetry
