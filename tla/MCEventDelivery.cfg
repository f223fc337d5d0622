SPECIFICATION MCSpec
CONSTANTS
    w1 = w1
    w2 = w2
    Workers = {w1, w2}
    Events = {1}
    Subscribers = {1, 2}
    Permitted = {1, 2}
    Declares <- DeclareRolling
    Malformed = {}
    BatchLimit = 1
    MaxStream = 2
    MaxGeneration = 2
    MaxFaults = 1
INVARIANTS
    DeliverySound
    CurrentAndOnce
PROPERTIES
    AckedWhenServed
    ImplementsEffects
CHECK_DEADLOCK FALSE
