SPECIFICATION Spec
CONSTANTS
    MaxEvents = 2
    OrderedAging = TRUE
    Subs = {s1}
    Hosts = {h1}
    Slots = {c1}
    Workers = {w1}
    Ackers = {}
    PageSize = 2
    MaxAttempts = 2
    QueueEnabled = TRUE
    Verdicts = {"match"}
    Retention = FALSE
    Starts = {"earliest"}
    Calls = {"lapse", "revoke"}
    LostAnswers = FALSE
    MaxRetries = 2
    MaxFailures = 0
INVARIANT
    NothingDropped
