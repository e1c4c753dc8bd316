SPECIFICATION FairSpec
CONSTANTS
    w1 = w1  w2 = w2  none = none
    Workers = {w1, w2}
    None = none
    N = 1
    HasFallback = TRUE
    Sources <- Notes
    Relevant <- RelevantNotes
    CandidateLimit = 1
    DetailCap = 2
    MinSamples = 1
    RecoveryBudget = 1
    MaxPages = 2
    PageSize = 1
    MaxFaults = 1
PROPERTIES CallsAreMadeOnce CollectionEnds
CHECK_DEADLOCK FALSE
