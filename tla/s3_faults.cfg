\* Requests of two clients that interleave, and a request that fails or is late,
\* a deletion, a cancellation with its release, or a crash.
SPECIFICATION Spec
CONSTANTS
    a = a
    b = b
    Client = {a, b}
    NoOne = NoOne
    LeaseDuration = 4
    RenewDeadline = 2
    RetryPeriod = 1
    ReleaseOnCancel = TRUE
    RequestTimeout = 0
    MaxFaults = 1
    MaxStops = 1
    MaxTroubles = 1
    MaxTime = 60
SYMMETRY Symmetry
VIEW View
INVARIANTS
    TypeOK
    OneLeaderAfterRace
    CandidateNotStuckUnlessRaced
PROPERTIES
    TakeoverWaitsLease
