SPECIFICATION Spec
CONSTANTS
    w1 = w1  w2 = w2  v1 = v1  v2 = v2
    Workers = {w1}
    Watchers = {}
    HasRoute = FALSE
    MaxTxn = 1
    MaxRetries = 1
    MaxFaults = 0
    LeaseOverrun = FALSE
PROPERTIES ProvisioningEnds
CHECK_DEADLOCK FALSE
