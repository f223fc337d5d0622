CONSTANTS
    s1 = s1
    s2 = s2
    Sessions = {s1, s2}
    Types = {1, 2}
    MaxEntities = 4
    MaxPerType = 2
    MaxPerTenant = 3
    MaxTypeRevisions = 2
    MaxEntityVersion = 3
    PageSize = 1
    EntityBudgets <- MCEntityBudgets
    Owners = {1, 2}
    MaxTenantVersion = 7
    MaxConfigs = 2
    TenantBudgets <- MCTenantBudgets
    Events = {"decision"}
    MaxAuditTime = 2
    MaxAppends = 2
    MaxRows = 4
    AuditLimit = 1
    Creators = {1, 2}
    Numbers = {"n1", "n2", "n3"}
    MaxAttempts = 2
    Values = {"v1"}
    MaxChildren = 3
    MaxFull = 1
    MaxSetRevisions = 2
    MaxValuesVersion = 3
    PartyLimit = 1
    MatchRows = 2
    MatchLimit = 1
    PartyBudgets <- MCPartyBudgets
    Fields = {f1}
    Policies = {p1}
    MaxClassTime = 3
    MaxLevel = 2
    ClassBudgets <- MCClassBudgets
    t1 = t1
    g1 = g1
    g2 = g2
    Tasks = {t1}
    Generations = {g1, g2}
    Coordinators = {g1}
    MaxDepth = 2
    MaxDispatches = 2
    MaxGuards = 1
SPECIFICATION MCSpec
INVARIANTS DispatchSound EntitiesSound RecordsSound
PROPERTIES CommittedIsCurrent RecordWorkEnds
CHECK_DEADLOCK FALSE
