SPECIFICATION Spec
CONSTANTS
    MaxEvents = 2
    OrderedAging = TRUE
    Subs = {s1}
    Hosts = {h1}
    Slots = {c1}
    Workers = {}
    Ackers = {a1}
    PageSize = 1
    MaxAttempts = 2
    QueueEnabled = FALSE
    Verdicts = {"match", "miss"}
    Retention = FALSE
    Starts = {"latest", "earliest", "cursor"}
    Calls = {"revoke"}
    LostAnswers = FALSE
    MaxRetries = 0
    MaxFailures = 1
INVARIANTS
    NoLoss
    CursorIsEarned
