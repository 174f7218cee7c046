SPECIFICATION SignalsSpec
SYMMETRY Symmetry
CONSTANTS
    None = None
    Routes = {r1, r2}
    Strict = {r2}
    Unkeyed = {r2}
    Covered = {r1}
    Texts <- MCTexts
    MaxOpen = 1
    MaxMessages = 2
    MaxEvents = 2
    MaxCrashes = 1
    RouteIds = {q1}
    Sources = {s1}
    Threads = {t1, t2}
    Lots = {1, 2}
    PolicyPatches <- MCPolicyPatches
    RoutePatches <- MCRoutePatches
    NewRoutes <- MCNewRoutes
    NoRoute = NoRoute
    Sized <- MCSized
    Orders <- MCOrders
INVARIANTS EntersOnce SuppressedHasOriginal SettingsAgreeUnlessOverlapped LegsAddUp OrderStaysWithinLimits
PROPERTIES EditsDoNotReopen DetailsCompleteOpening
CHECK_DEADLOCK FALSE
