SPECIFICATION SignalsSpec
SYMMETRY Symmetry
CONSTANTS
    None = None
    Routes = {r1}
    Strict = {}
    Unkeyed = {r1}
    Covered = {}
    Texts <- MCTexts
    MaxOpen = 2
    MaxMessages = 2
    MaxEvents = 2
    MaxCrashes = 1
    RouteIds = {q1}
    Sources = {s1}
    Threads = {t1, t2}
    Lots = {1, 2}
    PolicyPatches <- MCPolicyPatches
    RoutePatches <- MCRoutePatches
    NewRoutes <- MCNewRoutes
    NoRoute = NoRoute
    Sized <- MCSized
    Orders <- MCOrders
INVARIANTS EntersOnceAnyway
CHECK_DEADLOCK FALSE
