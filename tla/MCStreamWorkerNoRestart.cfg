SPECIFICATION Spec
CONSTANTS
    a = a
    w1 = w1
    Workers = {w1}
    LaneKeys = {a}
    N = 1
    LaneOf <- OneLane
    NKeys = 2
    HandlerResults = {"success", "retry"}
    MaxAttempts = 2
    MaxFaults = 1
PROPERTIES
    SettlesAnyway
CHECK_DEADLOCK FALSE
