CONSTANTS
    ChannelUsers = {1, 3}
    ChannelUID <- MCChannelUID
    MaxAmount <- MCMaxAmount
    Plans = {p1}
    u1 = u1
    u2 = u2
    Sessions = {s1}
    Threads = {t1, t2}
    Budget = 2
    ListNum = 1
    MaxFaults = 1
    MaxCrashes = 1
    MaxCommands = 3
SPECIFICATION Spec
INVARIANTS
    SettledByOwnPayment
    TxIDOfOwnPayment
    PaidExact
PROPERTIES
    SettledIsFinal
CONSTRAINT ValidFirst
CONSTRAINT CommandBound
SYMMETRY Interchangeable
CHECK_DEADLOCK FALSE
