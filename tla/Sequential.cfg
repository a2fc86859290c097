CONSTANTS
    Parts = {"router", "operators", "graph", "index", "queries", "ring"}
    Threads = {t1}
    a1 = a1
    a2 = a2
    Accounts = {a1, a2}
    InitMoney <- MTMoney
    Requests <- SeqRequests
    NoRequest = NoRequest
    MaxOrders = 4
    MaxFaults = 1
    Window = 3
    Period = 4
    InputsX = {0, 12, 36}
    InputsY = {0, 24}
    Inputs = 5
    FactorIds = {1, 2, 3, 4}
    Additions = 4
    Removals = 1
    Settings = 2
    IndexedTimes = {1, 2, 3}
    Indexed = {i1}
    NoIndexed = NoIndexed
    RecordTypes = {r1, r2}
    IndexEntries = 4
    BlockEntries = 2
    QueryTypes = {q1, q2}
    LastMoment = 3
    StoredRecords = 3
    StreamWindow = 1
    StreamLimit = 2
    n1 = n1
    n2 = n2
    n3 = n3
    k1 = k1
    k2 = k2
    RingNodes = {n1, n2, n3}
    Keys = {k1, k2}
    Routers = {g1, g2}
    VirtualHash <- MCVirtualHash
    KeyHash <- MCKeyHash
    Weights = {1, 2}
    Loads = {0, 1}
    LoadThreshold = 1
    ReplicaCount = 1
    RingChanges = 3
SPECIFICATION SequentialSpec
INVARIANTS
    Settled
    FokAllOrNothing
    NoSelfTrade
    OperatorsAgree
    FactorsFollowSources
    LookupsAgree
CHECK_DEADLOCK FALSE
