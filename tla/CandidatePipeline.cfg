CONSTANTS
    Query <- MCQuery
    Candidate <- MCCandidate
    Sound <- MCSound
    QueryHydrators <- MCQueryHydrators
    Sources <- MCSources
    Hydrators <- MCHydrators
    Filters <- MCFilters
    Scorers <- MCScorers
    PostSelectionHydrators <- MCPostSelectionHydrators
    PostSelectionFilters <- MCPostSelectionFilters
    SideEffects <- MCSideEffects
    Selector = "sort"
    Error = {failed}
    Request <- MCRequest
    Enable <- MCEnable
    Outcome <- MCOutcome
    Update <- MCUpdate
    Id <- MCId
    Score <- MCScore
    SelectSize = 2
    ResultSize = 1
SPECIFICATION FairSpec
INVARIANTS
    TypeOK
    Conserved
    Aligned
PROPERTIES
    Answered
CHECK_DEADLOCK FALSE
