CONSTANTS
    p1 = p1
    p2 = p2
    alice = alice
    Post = {p1, p2}
    User = {alice}
    Thread = {t1}
    Reader = {}
    DeleteKey = tombstones
    None = None
    AuthorOf <- MCAuthorOf
    CreatedAt <- MCCreatedAt
    Reply = {}
    Retweet <- MCRetweet
    Video <- MCVideo
    SourceOf <- MCSourceOf
    Retention = 1
    U64 = 100
    MaxSkew = 0
    MaxTime = 4
    LastBatch = 2
    MaxBatches = 2
    BatchSize = 2
SPECIFICATION Spec
PROPERTIES
    TrimsOnlyExpired
CHECK_DEADLOCK FALSE
