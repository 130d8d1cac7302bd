SPECIFICATION Spec
CONSTANTS
    User = {ann, bob, cyd}
    Founder = ann
    Client = {c1, c2}
    NoClient = none
    Correlation = {k1, k2}
    ReuseCorrelation = TRUE
INVARIANTS
    EventsTellMembership
CONSTRAINT FewChanges
CHECK_DEADLOCK FALSE
