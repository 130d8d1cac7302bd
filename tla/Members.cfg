SPECIFICATION MCSpec
CONSTANTS
    User = {ann, bob, cyd}
    Founder = ann
    Client = {c1, c2}
    NoClient = none
    Correlation = {k1, k2, k3}
    ReuseCorrelation = FALSE
    Writeback = {r1}
    Person = {u1, u2, u3}
    Risk = {"low", "high"}
    Required <- DefaultRequired
    RouteHandler = {h1, h2}
    NoJob = NoJob
    MaxUnavailable = 1
    MaxFaults = 1
INVARIANTS
    AtLeastOneOwner
    EventsTellMembership
    TrailTellsState
PROPERTIES
    EveryRequestEnds
    ImplementsDualControl
CHECK_DEADLOCK FALSE
