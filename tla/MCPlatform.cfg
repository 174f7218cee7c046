SPECIFICATION PlatformSpec
SYMMETRY Symmetry
CONSTANTS
    TradingAccounts = {ac}
    Credentials = {good, garbled}
    Readable = {good}
    Workers = {x1, x2}
    NoTask = NoTask
    MaxDeals = 2
    MaxTasks = 2
    MaxRequests = 3
    BurstMax = 2
    Hooks = {h1, h2}
    Invoices = {1, 2, 3}
    Settings <- MCSettings
    Amounts = {7}
    NoAmount = NoAmount
    LastDay = 1
    Overrides = {33}
    NoRate = NoRate
    ProviderSubs = {x1, x2, x3}
    MaxAccounts = 1
    Tabs = {t1}
    PeriodLength = 1
    GraceLength = 1
    NoSnapshot = NoSnapshot
    MaxEvents = 3
    MaxNow = 2
    Clients = {x1, x2}
    MaxTokens = 3
    NoToken = NoToken
INVARIANTS AccessIsPaid CommissionsBounded RefreshedTokenIsLive
PROPERTIES JournalKeepsTrades GraceStands RunningKeepsRow
CHECK_DEADLOCK FALSE
