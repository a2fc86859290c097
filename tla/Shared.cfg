CONSTANTS
    Parts = {"log", "priority", "sessions"}
    n1 = n1
    n2 = n2
    n3 = n3
    o1 = o1
    o2 = o2
    o3 = o3
    o4 = o4
    Nodes <- MCNodes
    BatchSize = 1
    LogTerms = 2
    LogSequences = 2
    LogLength = 2
    LogRequests = 2
    LogResponses = 1
    PriorityOrders = {o1, o2, o3, o4}
    AmountClass <- MCAmountClass
    VipOrders = {o3}
    Servers = {d1, d2}
    LowLimit = 2
    TakeSize = 2
    Takes = 2
    i1 = i1
    i2 = i2
    i3 = i3
    i4 = i4
    Contracts = {i1, i2, i3, i4}
    ExchangeOf <- MCExchangeOf
    NoExchange = NoExchange
    Moments <- MCMoments
    Traders = {t1}
    LoopThreads = {1, 2}
    Overrides = 1
SPECIFICATION SharedSpec
INVARIANTS
    SharedTypeOK
    CommittedPrefix
    UrgentFirst
    SessionsRespected
SYMMETRY NodeSymmetry
CHECK_DEADLOCK FALSE
