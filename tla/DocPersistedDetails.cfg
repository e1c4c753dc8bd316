SPECIFICATION Spec
CONSTANTS
    w1 = w1  w2 = w2  none = none
    Workers = {w1}
    None = none
    N = 1
    HasFallback = TRUE
    Sources <- Notes
    Relevant <- RelevantNotes
    CandidateLimit = 2
    DetailCap = 2
    MinSamples = 1
    RecoveryBudget = 0
    MaxPages = 1
    PageSize = 2
    MaxFaults = 0
INVARIANTS DoubtHasACause
CHECK_DEADLOCK FALSE
