SPECIFICATION EditsSpec
SYMMETRY Symmetry
CONSTANTS
    None = None
    Routes = {r1}
    Strict = {}
    Unkeyed = {}
    Covered = {r1}
    Texts <- EditTexts
    MaxOpen = 2
    MaxMessages = 3
    MaxEvents = 4
    MaxCrashes = 0
    RouteIds = {q1}
    Sources = {s1}
    Threads = {t1, t2}
    Lots = {1, 2}
    PolicyPatches <- MCPolicyPatches
    RoutePatches <- MCRoutePatches
    NewRoutes <- MCNewRoutes
    NoRoute = NoRoute
    Sized <- MCSized
    Orders <- MCOrders
PROPERTIES EditedOpensOnce
CHECK_DEADLOCK FALSE
