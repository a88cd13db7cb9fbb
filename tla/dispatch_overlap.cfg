CONSTANTS
    Airdrops = {1}
    Owner <- MCOwner
    Coin <- MCCoin
    u1 = u1
    u2 = u2
    Sessions = {s1, s2}
    Threads = {t1}
    Budget = 1
    ListNum = 1
    MaxFaults = 0
    MaxCrashes = 1
    MaxCommands = 2
SPECIFICATION Spec
INVARIANTS
    CreditBacked
    SettledBacked
CONSTRAINT InsertedFirst
CONSTRAINT CommandBound
SYMMETRY Interchangeable
CHECK_DEADLOCK FALSE
