SPECIFICATION FairSpec
CONSTANTS
    Instance = {i1}
    Conn = {c1, c2}
    User = {ann}
    UserOf <- OneMember
    SeenLimit = 1
    MaxEvents = 2
    MaxFaults = 1
INVARIANTS
    NoPayloadAfterRevocation
    DeliveredAsDispatched
PROPERTIES
    RevocationCloses
    MembersCatchUp
CHECK_DEADLOCK FALSE
