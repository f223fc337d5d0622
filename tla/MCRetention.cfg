CONSTANTS
    t1 = t1  t2 = t2  c1 = c1  c2 = c2
    NoTx = NoTx  NoCategory = NoCategory  NoRecord = NoRecord
    Tx = {t1, t2}
    Records = {r1}
    Categories = {c1, c2}
    Actions = {"purge", "archive"}
    HoldIds = {1}
    LegacyIds = {1}
    Ops <- AllOps
    OldPolicies <- OnePolicyEach
    MaxDays = 2
    MaxTime = 2
SPECIFICATION MCSpec
INVARIANTS
    RecordHoldsProtect
    PoliciesSound
PROPERTIES
    NoDestructionUnderHold
    OnlyStrengthened
SYMMETRY Symmetry
