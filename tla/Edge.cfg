SPECIFICATION FairSpec
CONSTANTS
    Row = {r1, r2}
    BatchSize = 2
    MaxRows = 2
    MaxEdits = 3
    MaxFaults = 2
INVARIANTS
    CheckpointMatchesQueue
PROPERTIES
    ImplementsStoreAndForward
    EveryBatchSent
CHECK_DEADLOCK FALSE
