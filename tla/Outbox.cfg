SPECIFICATION FairSpec
CONSTANTS
    run = run
    workspace = workspace
    Event = {1, 2, 3}
    Aggregate <- BothAggregates
    AggregateOf <- TwoAndRest
    Serialized = {run}
    Worker = {w1, w2}
    NoWorker = NoWorker
    BatchSize = 2
    MaxAttempts = 2
    MaxFaults = 2
INVARIANTS
    DuplicatesNeedFaults
PROPERTIES
    ImplementsOrderedFeed
    EventuallyPublishedOrDeadLettered
CHECK_DEADLOCK FALSE
