CONSTANTS
    Parts = {"storage", "gateway", "diff", "json", "auction", "conditional", "conversion", "capital", "settlement", "monitor",
             "sockets"}
    m0 = m0
    m1 = m1
    m2 = m2
    m3 = m3
    m4 = m4
    u1 = u1
    g1 = g1
    s1 = s1
    c1 = c1
    c2 = c2
    i1 = i1
    o1 = o1
    o2 = o2
    a1 = a1
    a2 = a2
    Notes <- MCNotes
    Users = {u1}
    Gateways = {g1}
    Sessions = {s1}
    Channels = {c1, c2}
    Instruments = {i1}
    NoInstrument = NoInstrument
    UserOf <- MCUserOf
    PriorityOf <- MCPriorityOf
    ChannelOf <- MCChannelOf
    InstrumentOf <- MCInstrumentOf
    SessionUser <- MCSessionUser
    SessionGateway <- MCSessionGateway
    QueueCapacity <- MCQueueCapacity
    Quota <- MCQuota
    CacheLimit = 2
    GatewayBatch = 2
    StorageBatch = 2
    Attempts = 2
    Changes = 5
    Pushers = {p1, p2}
    Peekers = {k1, k2}
    SnapshotStates = {1, 2}
    Conditionals = {o1, o2}
    Checkers = {t1, t2}
    LastPrices = {1, 2}
    TriggerPrice <- MCTriggerPrice
    Rising <- MCRising
    Expires = {o1}
    Ticks = 3
    SSTables = {1, 2}
    ConversionWorkers = {w1, w2}
    BatchMin = 1
    BatchMax = 2
    MaxRetries = 1
    Records = 2
    Crashes = 1
    CapitalAccounts = {a1, a2}
    Holders = {u1}
    HolderOf <- MCHolderOf
    Callers = {t1, t2}
    InitCash = 1
    Amounts = {1}
    PageSize = 2
    CapitalCalls = 4
    SettleAccounts = {1, 2}
    Settlers = {s1, s2}
    ForceQueue = 1
    Settlements = 1
    Deals = 1
    RiskAccounts = {1}
    Loops = {1, 2}
    RiskRatios = {0, 70, 97, 110}
    MaxAlerts = 2
    RiskMoves = 4
    WsSessions = {1}
    Quoted = {1, 2}
    ChannelCapacity = 3
    Backlog = 2
    PollBatch = 1
    SlowLimit = 1
    EventLimit = 4
    SubscribeLimit = 2
    RequestLimit = 2
SPECIFICATION Spec
INVARIANTS
    ServicesTypeOK
    OrderKept
    AlgorithmsAgree
    TriggersOnce
    SourceProtected
    RecordsExplainMoney
PROPERTIES
    AcceptedIsStored
    ImplementsPatchLog
    ServicesFinish
CHECK_DEADLOCK FALSE
