SPECIFICATION Spec
CONSTANTS
    Events = {e1}
    Requests = {r1, r2}
    MaxKid = 3
    MaxAttempts = 3
    MaxSkew = 1
    MaxTime = 2
    Statuses = {0, 200, 400, 503}
INVARIANTS
    TypeOK
    HandledOnce
    DeliveredWasHandled
    UnknownKeyWasRetired
PROPERTY
    EveryEventEnds
