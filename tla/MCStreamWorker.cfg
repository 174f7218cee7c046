SPECIFICATION Spec
CONSTANTS
    a = a
    w1 = w1
    Workers = {w1}
    LaneKeys = {a}
    N = 2
    LaneOf <- OneLane
    NKeys = 2
    HandlerResults = {"success", "retry"}
    MaxAttempts = 2
    MaxFaults = 1
INVARIANTS
    NoSilentLoss
    HandlerRunsBounded
PROPERTIES
    EveryMessageSettles
CHECK_DEADLOCK FALSE
