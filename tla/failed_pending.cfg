CONSTANTS
    Airdrops = {1, 3}
    Owner <- MCOwner
    Coin <- MCCoin
    u1 = u1
    u2 = u2
    Sessions = {s1}
    Threads = {t1}
    Budget = 2
    ListNum = 2
    MaxFaults = 0
    MaxCrashes = 0
    MaxCommands = 10
SPECIFICATION Spec
PROPERTY
    FailedCoversPending
CHECK_DEADLOCK FALSE
