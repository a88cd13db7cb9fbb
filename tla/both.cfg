CONSTANTS
    Airdrops = {1}
    Owner <- MCOwner
    Coin <- MCCoin
    ChannelUsers = {2}
    ChannelUID <- MCChannelUID
    MaxAmount <- MCMaxAmount
    Plans = {p1}
    u1 = u1
    Sessions = {s1}
    ChSessions = {c1}
    Threads = {t1}
    Budget = 1
    ListNum = 1
    MaxFaults = 0
    MaxCrashes = 1
    MaxCommands = 2
SPECIFICATION BothFairSpec
INVARIANTS
    ChannelSettledByOwnPayment
    ChannelCreditExact
PROPERTIES
    ImplementsSharedLedger
    TwitterReturns
    ChannelReturns
CONSTRAINT RowsFirst
CONSTRAINT CommandBound
CHECK_DEADLOCK FALSE
