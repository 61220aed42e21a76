\* Does a release that passes the ETag check release its own lease?
SPECIFICATION Spec
CONSTANTS
    a = a
    b = b
    Client = {a, b}
    NoOne = NoOne
    LeaseDuration = 4
    RenewDeadline = 2
    RetryPeriod = 1
    ReleaseOnCancel = TRUE
    RequestTimeout = 0
    MaxFaults = 1
    MaxStops = 1
    MaxTroubles = 1
    MaxTime = 60
SYMMETRY Symmetry
VIEW View
PROPERTIES
    ReleaseOwnLease
