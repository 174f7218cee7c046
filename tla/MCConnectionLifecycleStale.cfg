SPECIFICATION Safety
CONSTANTS
    w1 = w1  w2 = w2  v1 = v1  v2 = v2
    Workers = {w1}
    Watchers <- TwoWatchers
    HasRoute = TRUE
    MaxTxn = 1
    MaxRetries = 1
    MaxFaults = 0
    LeaseOverrun = FALSE
SYMMETRY Symmetry
INVARIANTS StoppedStaysStopped
CHECK_DEADLOCK FALSE
