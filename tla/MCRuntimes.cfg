SPECIFICATION RuntimesSpec
SYMMETRY Symmetry
CONSTANTS
    Accounts = {a1}
    Callers = {k1, k2}
    Opens = {x1, x2, x3}
    NoOne = NoOne
    Runtimes = {r1, r2}
    Sessions = {s1, s2}
    NoRuntime = NoRuntime
    Conns = {y1, y2}
    Users = {u1, u2}
    Identities = {i1, i2}
    Nobody = Nobody
    MaxAttempts = 2
    MaxCommands = 1
    Roles = {y1, y2}
    Instances = {x1, x2, x3}
    Links = {l1}
    Intents = {n1}
    StaleAfter = 1
    MaxIntentAge = 1
    NoBeat = NoBeat
    MaxFacts = 2
INVARIANTS
    HeadIsOneSchema
    ReadyMeansServed
    ConnectionsAccounted
    OneOpening
    SessionHeldOnce
    ReadyAttemptHasAccount
PROPERTIES
    SignInsDestroyNothing
CHECK_DEADLOCK FALSE
