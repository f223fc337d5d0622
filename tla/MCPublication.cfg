CONSTANTS
    s1 = s1
    s2 = s2
    p1 = p1
    p2 = p2
    None = None
    Sessions = {s1, s2}
    Processes = {p1, p2}
    ProcessOf <- MCProcessOf
    Modules = {1, 2}
    Base = 1
    Artifacts = {"a", "b"}
    Absent = {2}
    Newcomers = {p2}
    MaxCommands <- MCMaxCommands
SPECIFICATION Spec
INVARIANTS FenceSound
PROPERTIES PublishedAsShown WorkEnds
CHECK_DEADLOCK FALSE
