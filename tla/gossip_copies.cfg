SPECIFICATION Spec
CONSTANTS
    n1 = n1
    n2 = n2
    Node = {n1, n2}
    Key = {k}
    Value = {x, y}
    Empty = Empty
    Skew <- NoSkew
    MaxTime = 1
    MaxSets = 2
    MaxCopies = 1
    MaxReads = 0
    MaxDeletes = 0
    MaxUpsets = 1
    MaxEvents = 3
VIEW AckedView
SYMMETRY NodesAndValues
CHECK_DEADLOCK FALSE
INVARIANT AckedSurvives
