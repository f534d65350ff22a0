CONSTANTS
    Reader = {r1}
    Thread = {t1}
    Janitor = janitor
    Logger = logger
    Timelines <- MCTimelines
    Shards <- MCShards
    MaxEntries = 1
SPECIFICATION FairSpec
INVARIANTS
    TypeOK
    NoWaitCycle
PROPERTIES
    Granted
