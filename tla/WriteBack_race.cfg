SPECIFICATION WriteBackSpec
CONSTANTS
    Writeback = {r1}
    Person = {u1, u2, u3}
    Risk = {"high"}
    Required <- DefaultRequired
    RouteHandler = {h1, h2}
    NoJob = NoJob
    MaxUnavailable = 1
    MaxFaults = 0
INVARIANT NotLeftPending
CHECK_DEADLOCK FALSE
