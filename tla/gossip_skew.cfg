SPECIFICATION FairSpec
CONSTANTS
    n1 = n1
    n2 = n2
    Node = {n1, n2}
    Key = {k}
    Value = {x, y}
    Empty = Empty
    Skew <- Ahead
    MaxTime = 0
    MaxSets = 2
    MaxCopies = 1
    MaxReads = 0
    MaxDeletes = 0
    MaxUpsets = 0
    MaxEvents = 2
CHECK_DEADLOCK FALSE
PROPERTY SkewTolerated
