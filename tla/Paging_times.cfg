SPECIFICATION Spec
CONSTANTS
    Id = {1, 2}
    Key = {0, 1, 2}
    Null = Null
    Listing <- ModelQueries
    Limit = {1}
    MaxChanges = 0
    MaxListed = 3
INVARIANTS
    KeysetPagesAreStable
CHECK_DEADLOCK FALSE
