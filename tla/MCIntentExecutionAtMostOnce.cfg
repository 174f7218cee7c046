SPECIFICATION Safety
CONSTANTS
    o1 = o1
    o2 = o2
    c1 = c1
    t1 = t1
    t2 = t2
    Opens = {o1}
    Closes = {}
    Target <- NoTarget
    Threads = {t1, t2}
    MaxOpen = 2
    Overlap = TRUE
    LeaseOverrun = FALSE
    MaxCrashes = 0
INVARIANT AtMostOnce
CHECK_DEADLOCK FALSE
