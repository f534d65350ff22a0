CONSTANTS
    NumThreads = 2
    NumPartitions = 3
    BatchSize = 2
    Permits = 1
    Initial <- MCInitial
    MaxArrivals = 2
SPECIFICATION FairSpec
PROPERTIES
    EventuallyReady
CHECK_DEADLOCK FALSE
