\* Pushes that race, fail or are late, leaders that release, stop or die.
SPECIFICATION Spec
CONSTANTS
    a = a
    b = b
    Client = {a, b}
    NoOne = NoOne
    LeaseDuration = 4
    RenewDeadline = 2
    RetryPeriod = 1
    ReleaseOnCancel = TRUE
    RequestTimeout = 0
    MaxFaults = 1
    InitialCommits <- EmptyOrNot
    MaxStops = 1
    MaxTime = 60
SYMMETRY Symmetry
VIEW View
INVARIANTS
    TypeOK
    CandidateNotStuckUnlessDetached
PROPERTIES
    ImplementsLease
