\* Stored durations too short for SafeTiming, releases, crashes, a Lease that is deleted.
SPECIFICATION Spec
CONSTANTS
    a = a
    b = b
    Client = {a, b}
    NoOne = NoOne
    LeaseDuration = 3
    RenewDeadline = 2
    RetryPeriod = 1
    ReleaseOnCancel = TRUE
    RequestTimeout = 0
    Second = 2
    MaxFaults = 0
    MaxDeletes = 1
    MaxStops = 1
    MaxTime = 60
SYMMETRY Symmetry
VIEW View
INVARIANTS
    CandidateNotStuck
    LeaderReported
    MetricOffUnlessCancelled
PROPERTIES
    TakeoverWaitsLease
    TransitionsCountHolders
