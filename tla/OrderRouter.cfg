CONSTANTS
    Threads = {t1, t2}
    a1 = a1
    a2 = a2
    Accounts = {a1, a2}
    InitMoney <- MTMoney
    Requests <- MTRequests
    NoRequest = NoRequest
    MaxOrders = 3
    MaxFaults = 1
SPECIFICATION FairSpec
INVARIANTS
    TypeOK
    FinalNotResting
    RestingTracked
    RestingCovered
    FillsAppliedOnce
    MoneyConserved
    IocNeverRests
PROPERTY IocLeavesBook
CHECK_DEADLOCK FALSE
