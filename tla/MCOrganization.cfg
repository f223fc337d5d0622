CONSTANTS
    p1 = p1  p2 = p2  p3 = p3
    Txs = {t1}
    NoTx = NoTx
    Principals = {p1, p2, p3}
    Actions = {"act"}
    Seeds <- MCSeeds
    MaxNodes = 7
    MaxSelected = 3
    Choices <- MCChoices
    MaxAssigned = 2
    MaxGrants = 2
    MaxChain = 2
    Windows <- MCWindows
    Horizon = 1
SPECIFICATION MCSpec
INVARIANTS
    StructureSound
    DecisionStands
PROPERTIES
    SelectionsAreOneHierarchy
SYMMETRY Symmetry
CHECK_DEADLOCK FALSE
