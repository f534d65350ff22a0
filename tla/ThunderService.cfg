CONSTANTS
    Request = {r1, r2}
    Post = {1, 2, 3, 4, 5}
    User = {1, 2, 3}
    None = None
    Light <- MCLight
    Arrived <- MCArrived
    Query <- MCQuery
    Lists <- MCLists
    MaxConcurrent = 1
    MaxInput = 2
    MaxPosts = 2
    MaxVideos = 1
    MaxScan = 2
    MaxOriginal = 1
    MaxReply = 2
    MaxVideo = 2
    HasTimeout = TRUE
    MaxChanges = 1
SPECIFICATION FairSpec
INVARIANTS
    TypeOK
    PermitsAccounted
    ReplySound
    LeftOutForAReason
PROPERTIES
    Ends
CHECK_DEADLOCK FALSE
