SPECIFICATION Spec
CONSTANTS
    Handlers = {g1, g2, g3}
    Stores = {"postgres"}
    Offloads = {FALSE}
    Lease = 2
    MaxTime = 4
    MaxCursor = 1
PROPERTY
    DeletedIsFinal
