SPECIFICATION Spec
CONSTANTS
    Handlers = {g1, g2}
    Stores = {"memory", "postgres"}
    Offloads = {TRUE, FALSE}
    Lease = 2
    MaxTime = 4
    MaxCursor = 0
PROPERTIES
    LeaseHonoured
    RevivedByLateOnly
