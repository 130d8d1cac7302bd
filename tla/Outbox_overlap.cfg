SPECIFICATION Spec
CONSTANTS
    run = run
    workspace = workspace
    Event = {1, 2}
    Aggregate <- BothAggregates
    AggregateOf <- AllOfWorkspace
    Serialized = {run}
    Worker = {w1, w2}
    NoWorker = NoWorker
    BatchSize = 2
    MaxAttempts = 2
    MaxFaults = 0
INVARIANT NeverOvertake
CHECK_DEADLOCK FALSE
