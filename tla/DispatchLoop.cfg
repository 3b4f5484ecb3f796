SPECIFICATION ServiceSpec
CONSTANTS
    MaxEvents = 1
    OrderedAging = TRUE
    Subs = {s1, s2}
    Hosts = {h1}
    Slots = {c1, c2}
    Workers = {}
    Ackers = {}
    PageSize = 1
    MaxAttempts = 1
    QueueEnabled = FALSE
    Verdicts = {"match", "raise"}
    Retention = FALSE
    Starts = {"earliest"}
    Calls = {"delete"}
    LostAnswers = FALSE
    MaxRetries = 0
    MaxFailures = 0
INVARIANTS
    StopIsClean
PROPERTIES
    ServedWhileRunning
    StopEnds
