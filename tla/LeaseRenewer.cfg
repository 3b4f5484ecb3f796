SPECIFICATION Spec
CONSTANTS
    Lease = 20
    Early = 8
    MinSleep = 1
    MaxLatency = 1
INVARIANTS
    KnownIsKept
    LeaseKept
    GivesUpLapsed
PROPERTY
    RenewsOrEnds
