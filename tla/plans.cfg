CONSTANTS
    Uids = {u1, u2}
    TwitterIds = {x1, x2}
    Workers = {w1}
    Logins = {l1}
    Plans = {"lookup", "check"}
    ListNum = 1
    MaxDocs = 2
    MaxFaults = 1
    MaxCrashes = 1
    MaxAirdrops = 3
SPECIFICATION FairSpec
INVARIANTS
    TypeOK
    AirdropIsBacked
    ChannelUserIsBacked
    OneAirdropEach
    OneDocumentEach
PROPERTIES
    LookedUpInTheEnd
    CheckedInTheEnd
CONSTRAINT
    AirdropBound
