SPECIFICATION Spec
CONSTANTS
    c1 = c1  c2 = c2  k1 = k1  k2 = k2  k3 = k3  x = x  y = y  p = p  q = q
    Client <- Clients
    Bundle <- Moves
    Key <- Keys
    Asset <- Assets
    Point <- Points
    Value = {1, 2}
    NoBundle = NoBundle  NoValue = NoValue  Absent = Absent  Root = Root
    MaxSends = 3
    MaxFaults = 0
INVARIANTS
    NoCycle
CHECK_DEADLOCK FALSE
