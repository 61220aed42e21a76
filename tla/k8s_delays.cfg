\* Slow requests and crashes: LeaseDuration is LeadTime + 1, the least that SafeTiming
\* allows.
SPECIFICATION Spec
CONSTANTS
    a = a
    b = b
    Client = {a, b}
    NoOne = NoOne
    LeaseDuration = 6
    RenewDeadline = 2
    RetryPeriod = 1
    ReleaseOnCancel = FALSE
    RequestTimeout = 1
    Second = 1
    MaxFaults = 1
    MaxDeletes = 0
    MaxStops = 1
    MaxTime = 60
SYMMETRY Symmetry
VIEW View
INVARIANTS
    TypeOK
    MutualExclusion
    LeaderHoldsLease
    HealthyWhileLeading
PROPERTIES
    ImplementsLease
