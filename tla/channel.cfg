CONSTANTS
    ChannelUsers = {1}
    ChannelUID <- MCChannelUID
    MaxAmount <- MCMaxAmount
    Plans = {p1, p2}
    u1 = u1
    u2 = u2
    Sessions = {s1}
    Threads = {t1}
    Budget = 2
    ListNum = 1
    MaxFaults = 1
    MaxCrashes = 1
    MaxCommands = 10
SPECIFICATION FairSpec
INVARIANTS
    TypeOK
    CreditExact
PROPERTIES
    SessionReturns
CONSTRAINT RewrittenOnce
CHECK_DEADLOCK FALSE
