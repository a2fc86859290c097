CONSTANTS
    Threads = {t1, t2}
    a1 = a1
    a2 = a2
    Accounts = {a1, a2}
    InitMoney <- MTMoney
    Requests <- MTRequests
    NoRequest = NoRequest
    MaxOrders = 3
    MaxFaults = 0
SPECIFICATION Spec
INVARIANT MakerFillsApplied
CHECK_DEADLOCK FALSE
