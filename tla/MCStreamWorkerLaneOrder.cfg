SPECIFICATION Safety
CONSTANTS
    a = a
    w1 = w1
    Workers = {w1}
    LaneKeys = {a}
    N = 2
    LaneOf <- OneLane
    NKeys = 2
    HandlerResults = {"success", "retry"}
    MaxAttempts = 2
    MaxFaults = 0
INVARIANT LaneOrder
CHECK_DEADLOCK FALSE
