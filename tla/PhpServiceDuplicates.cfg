CONSTANTS
    Post = {1, 2, 3, 4, 5, 6, 7, 8}
    User = {1, 2, 3, 4, 5, 6}
    AuthorOf <- MCAuthorOf
    RetweetOf <- MCRetweetOf
    ReplyTo <- MCReplyTo
    LeastAncestor <- MCLeastAncestor
    BornAt <- MCBornAt
    MutedText = {5}
    Scores = {0, 1}
    MockPosts <- MCMockPosts
    MockLimit = 1
    Lists <- MCLists
    Requests <- MCRequests
    Configs <- MCConfigs
    DefaultConfig <- MCDefaultConfig
    Boosted <- MCBoosted
    Decayed <- MCDecayed
    Horizon = 2
    MaxRequests = 3
SPECIFICATION Spec
PROPERTIES
    OnlyDuplicatesDropped
CHECK_DEADLOCK FALSE
