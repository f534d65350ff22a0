CONSTANTS
    Post = {1, 2, 3, 4, 5, 6, 7, 8, 9, 10, 11}
    User = {1, 2, 3, 4, 5, 6}
    Viewer = 1
    AuthorOf <- MCAuthorOf
    RetweetOf <- MCRetweetOf
    ReplyTo <- MCReplyTo
    RootOf <- MCRootOf
    Rootless = {11}
    SubscriptionOf <- MCSubscriptionOf
    Lost = {}
    Old = {8}
    MutedText = {10}
    Long = {4}
    Violating = {2}
    Prediction <- MCPrediction
    Followed = {2, 3}
    Blocked = {4}
    Muted = {6}
    Subscribed = {5}
    ThunderPosts = {2, 3, 4, 7, 11}
    PhoenixLists <- MCPhoenixLists
    Requests <- MCRequests
    Weigh <- MCWeigh
    Multiplier <- MCMultiplier
    OonFactor = 1
    InFactor = 2
    TopK = 4
    ResultSize = 2
    Failed = Failed
    InFailed = InFailed
    OutFailed = OutFailed
SPECIFICATION Spec
INVARIANTS
    TypeOK
    Conserved
    ServedEligible
    Ranked
    BestOfConversation
    AuthorOrder
    InNetworkOnly
CHECK_DEADLOCK FALSE
