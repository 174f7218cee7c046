SPECIFICATION Safety
CONSTANTS
    w1 = w1  w2 = w2  v1 = v1  v2 = v2
    Workers <- TwoWorkers
    Watchers = {}
    HasRoute = FALSE
    MaxTxn = 2
    MaxRetries = 0
    MaxFaults = 1
    LeaseOverrun = FALSE
SYMMETRY Symmetry
INVARIANTS DeletedIsErased AccountOfTransaction
PROPERTIES NoAccountForgotten
CHECK_DEADLOCK FALSE
