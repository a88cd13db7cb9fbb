CONSTANTS
    u1 = u1
    u2 = u2
    Requests = {q1, q2}
    ChannelOwners = {u1, u2}
    Walkers = {w1}
    Viewed = u1
    PageSizes <- MCPageSizes
    MaxUsers = 6
    MaxFailures = 1
SPECIFICATION FairSpec
INVARIANTS
    TypeOK
    DuplicatesAreBounded
    AnswerIsOwn
    WalkIsComplete
    TotalsAgree
PROPERTY
    WalkEnds
CONSTRAINT
    Apart
CHECK_DEADLOCK FALSE
