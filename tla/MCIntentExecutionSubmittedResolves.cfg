SPECIFICATION Spec
CONSTANTS
    o1 = o1
    o2 = o2
    c1 = c1
    t1 = t1
    t2 = t2
    Opens = {o1}
    Closes = {}
    Target <- NoTarget
    Threads = {t1}
    MaxOpen = 1
    Overlap = FALSE
    LeaseOverrun = FALSE
    MaxCrashes = 1
PROPERTY SubmittedResolves
CHECK_DEADLOCK FALSE
