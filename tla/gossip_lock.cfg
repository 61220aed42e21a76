\* Two candidates that write over each other, late and lost copies, and a cancellation,
\* a crash or a node that takes the other for dead.
SPECIFICATION Spec
CONSTANTS
    a = a
    b = b
    Client = {a, b}
    NoOne = NoOne
    LeaseDuration = 4
    RenewDeadline = 2
    RetryPeriod = 1
    ReleaseOnCancel = FALSE
    RequestTimeout = 0
    MaxSent = 1
    MaxStops = 1
    MaxTime = 60
SYMMETRY Symmetry
VIEW RaceView
INVARIANTS
    TypeOK
    OneLeaderAfterRace
