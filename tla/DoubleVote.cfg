CONSTANTS
    Parts = {"elections"}
    n1 = n1
    n2 = n2
    n3 = n3
    r1 = r1
    r2 = r2
    a1 = a1
    a2 = a2
    o1 = o1
    o2 = o2
    o3 = o3
    s1 = s1
    s2 = s2
    i1 = i1
    i2 = i2
    Nodes <- MCNodes
    Threads = {h1, h2}
    Nobody = Nobody
    MinVotes = 2
    LastSequence <- MCLastSequence
    CommitIndex <- MCCommitIndex
    MaxTerm = 1
    MaxMessages = 2
    Registrations = {r1, r2}
    Usernames = {m1}
    UserAccounts = {a1}
    RoleSets = {{}, {"Trader", "Admin"}}
    Seconds = 1
    RoleChanges = 2
    WalFaults = 1
    Restarts = 1
    Holdings = {a1, a2}
    Lots = {o1, o2, o3}
    LotRequest <- MCLotRequest
    WriteFaults = 1
    Saves = 2
    Starts = 1
    FlushWorkers = {w1, w2}
    BatchLimit = 2
    TickLimit = 3
    FlushFaults = 2
    Periods = {1, 2}
    Capacity = 1
    MaxHistory = 3
    GapLimit = 2
    Horizon = 4
    MarketTicks = 3
    AppendFaults = 1
    ActorRestarts = 1
    DiffSessions = {s1, s2}
    Streams = {x1, x2}
    LogStates = {1, 2}
    StreamCapacity = 1
    Quotes = 2
    Listed <- MCListed
    Subscribers = {x1, x2}
    SnapPrices = {1, 2}
    SnapLimit = 3
    StatMoves = 2
    FactorKeys = {f1, f2}
    ChannelSize = 2
    WalBatch = 2
    SnapshotSlots = 1
    UpdateLimit = 2
    SnapshotLimit = 1
    CommitFaults = 1
    Savers = {t1, t2}
    MaxCheckpoints = 2
    CheckpointLimit = 5
    StoreCrashes = 1
    Handlers = {x1, x2}
    Events = 2
    AppendFailures = 1
    GatewayCrashes = 1
    Journalists = {x1, x2}
    KnownAccounts = {a1, a2}
    LongIds = {a2}
    KnownUsers = {m1}
    BookKeys = {o1}
    JournalValues = {1}
    JournalLimit = 4
    JournalCrashes = 1
    k1 = k1
    k2 = k2
    Calls = {1, 2}
    LeaderLog <- MCLeaderLog
    LeaderCommit <- MCLeaderCommit
    CandidateLast <- MCCandidateLast
    NoVote = NoVote
    RpcLimit = 3
    ChunkFaults = 1
SPECIFICATION TasksSpec
INVARIANT OneVotePerTerm
CHECK_DEADLOCK FALSE
