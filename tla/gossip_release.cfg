\* A leader whose renewals are confirmed late or not at all releases its lease.
SPECIFICATION Spec
CONSTANTS
    a = a
    b = b
    Client = {a, b}
    NoOne = NoOne
    LeaseDuration = 4
    RenewDeadline = 2
    RetryPeriod = 1
    ReleaseOnCancel = TRUE
    RequestTimeout = 0
    MaxSent = 2
    MaxStops = 0
    MaxTime = 60
SYMMETRY Symmetry
VIEW StuckView
INVARIANTS
    GivesUpUnlessReleasing
    CandidateNotStuckUnlessWaiting
