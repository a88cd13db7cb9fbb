CONSTANTS
    Airdrops = {1, 2, 3}
    Owner <- MCOwner
    Coin <- MCCoin
    u1 = u1
    u2 = u2
    Sessions = {s1}
    Threads = {t1}
    Budget = 2
    ListNum = 2
    MaxFaults = 0
    MaxCrashes = 0
    MaxCommands = 10
    FollowsMinFollow = 500
    Counts <- MCCounts
    Results <- MCResults
SPECIFICATION AmountsSpec
INVARIANTS
    TypeOK
    SettledWasSubmitted
    SuccessIsCredited
    CoinIsBounded
    BudgetUndershoot
PROPERTIES
    TxIDWriteOnce
    SuspicionNeverPays
CONSTRAINT InsertedInOrder
CONSTRAINT Apart
CHECK_DEADLOCK FALSE
