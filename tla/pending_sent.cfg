CONSTANTS
    Uids = {u1}
    TwitterIds = {x1}
    Workers = {w1, w2}
    Logins = {l1}
    Plans = {"lookup", "check", "send"}
    ListNum = 1
    MaxDocs = 1
    MaxFaults = 0
    MaxCrashes = 0
    MaxAirdrops = 3
SPECIFICATION Spec
INVARIANT
    PendingIsUnsent
