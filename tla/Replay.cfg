SPECIFICATION Spec
CONSTANTS
    MaxEvents = 5
    OrderedAging = TRUE
    Radix = 2
    Width = 3
    Limits = {1, 2, 3}
    SelectorSet <- MCSelectors
    Payloads <- MCPayloads
    Filterable <- MCFilterable
INVARIANTS
    BackendsAgree
    NoSilentGap
    NoLiveSkipped
    OrderOnlyDecidesErrors
    RecordAtFindsLive
PROPERTY
    FollowsTheLog
