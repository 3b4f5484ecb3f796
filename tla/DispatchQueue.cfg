SPECIFICATION FairSpec
CONSTANTS
    MaxEvents = 1
    OrderedAging = TRUE
    Subs = {s1}
    Hosts = {h1}
    Slots = {c1}
    Workers = {w1}
    Ackers = {}
    PageSize = 2
    MaxAttempts = 3
    QueueEnabled = TRUE
    Verdicts = {"match", "miss"}
    Retention = TRUE
    Starts = {"earliest"}
    Calls = {"lapse", "delete"}
    LostAnswers = FALSE
    MaxRetries = 4
    MaxFailures = 1
INVARIANTS
    TypeOK
    AttemptsBounded
PROPERTIES
    DeletedStaysQuiet
    EventuallySettled
    RetriesEnd
