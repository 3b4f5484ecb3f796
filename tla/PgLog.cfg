SPECIFICATION Spec
CONSTANTS
    Appenders = {a1, a2, a3}
    MaxLegacy = 2
    MaxEvents = 3
    MaxBegins = 4
INVARIANTS
    NeverCollides
    LatestIsConsistent
PROPERTIES
    ImplementsLog
    CursorNeverReused
