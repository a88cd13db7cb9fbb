CONSTANTS
    Airdrops = {1, 3}
    Owner <- MCOwner
    Coin <- MCCoin
    u1 = u1
    u2 = u2
    Sessions = {s1}
    Threads = {t1}
    Budget = 2
    ListNum = 1
    MaxFaults = 1
    MaxCrashes = 1
    MaxCommands = 10
SPECIFICATION FairSpec
INVARIANTS
    ReturnedMeansStopped
PROPERTIES
    ImplementsLedger
    SessionReturns
CHECK_DEADLOCK FALSE
