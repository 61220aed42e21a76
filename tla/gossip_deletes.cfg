SPECIFICATION Spec
CONSTANTS
    n1 = n1
    n2 = n2
    Node = {n1, n2}
    Key = {k}
    Value = {x, y}
    Empty = Empty
    Skew <- Ahead
    MaxTime = 0
    MaxSets = 2
    MaxCopies = 2
    MaxReads = 1
    MaxDeletes = 1
    MaxUpsets = 0
    MaxEvents = 2
VIEW StoredView
SYMMETRY Values
CHECK_DEADLOCK FALSE
INVARIANTS TypeOK ConfirmedIsShared
