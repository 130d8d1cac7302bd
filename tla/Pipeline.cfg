SPECIFICATION FairSpec
CONSTANTS
    Worker = {w1, w2}
    Scopes <- TwoScopes
    ScopeOf <- AllInLast
    Run = {1, 2}
    BatchSize = 2
    ScopesPerPoll = 1
    Concurrency = 1
    MaxStops = 1
    MaxFaults = 1
INVARIANTS
    ClaimedOnce
    EventsTellState
PROPERTIES
    NoScopeStarves
    EveryRunEnds
CHECK_DEADLOCK FALSE
