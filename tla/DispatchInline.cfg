SPECIFICATION Spec
CONSTANTS
    MaxEvents = 3
    OrderedAging = FALSE
    Subs = {s1}
    Hosts = {h1}
    Slots = {c1, c2}
    Workers = {}
    Ackers = {}
    PageSize = 2
    MaxAttempts = 2
    QueueEnabled = FALSE
    Verdicts = {"match", "miss", "raise"}
    Retention = TRUE
    Starts = {"latest", "earliest"}
    Calls = {"revoke"}
    LostAnswers = TRUE
    MaxRetries = 0
    MaxFailures = 1
SYMMETRY Symmetry
INVARIANTS
    NoLoss
    NoNeedlessDuplicate
PROPERTIES
    InOrder
    HighWaterMonotone
