SPECIFICATION Safety
CONSTANTS
    o1 = o1
    o2 = o2
    c1 = c1
    t1 = t1
    t2 = t2
    Opens = {o1}
    Closes = {c1}
    Target <- CloseFirst
    Threads = {t1, t2}
    MaxOpen = 1
    Overlap = FALSE
    LeaseOverrun = TRUE
    MaxCrashes = 1
INVARIANTS
    AtMostOnce
    FailedBeforeAgeIsUnsent
PROPERTIES
    ImplementsContract
SYMMETRY ThreadSymmetry
CHECK_DEADLOCK FALSE
