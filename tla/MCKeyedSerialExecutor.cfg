SPECIFICATION Spec
CONSTANTS
    k1 = k1
    k2 = k2
    k3 = k3
    t1 = t1
    t2 = t2
    Keys = {k1, k2, k3}
    Threads = {t1, t2}
    NJobs = 5
    KeyOf <- MCKeyOf
INVARIANTS
    OneDrainPerKey
    NoStrandedQueue
PROPERTIES
    ImplementsLanes
CHECK_DEADLOCK FALSE
