CONSTANTS
    p1 = p1
    p2 = p2
    alice = alice
    Post = {p1}
    User = {alice}
    Thread = {t1, t2}
    Reader = {r1}
    DeleteKey = tombstones
    None = None
    AuthorOf <- MCAuthorOf
    CreatedAt <- MCCreatedAt
    Reply = {}
    Retweet <- MCRetweet
    Video <- MCVideo
    SourceOf <- MCSourceOf
    Retention = 1
    U64 = 100
    MaxSkew = 0
    MaxTime = 3
    LastBatch = 1
    MaxBatches = 2
    BatchSize = 2
SYMMETRY ThreadSymmetry
SPECIFICATION Spec
INVARIANTS
    TypeOK
    ServedFresh
    NoOrphan
    LiveReachable
PROPERTIES
    FeedSpec
CHECK_DEADLOCK FALSE
