CONSTANTS
    t1 = t1
    t2 = t2
    p1 = p1
    p2 = p2
    Thread = {t1, t2}
    Post = {p1, p2}
    Log <- MCLog
    CreatedAt <- MCCreatedAt
    BatchSize = 2
    Retention = 0
    MaxSkew = 1
    MaxTime = 1
    MaxRestarts = 1
SPECIFICATION FairSpec
INVARIANTS
    TypeOK
    NothingLost
    StampsFit
PROPERTIES
    Relayed
    ChannelSpec
CHECK_DEADLOCK FALSE
