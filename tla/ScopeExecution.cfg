SPECIFICATION FairScopeSpec
CONSTANTS
    l1 = l1
    l2 = l2
    Lanes <- TwoLanes
    U = 1
    MaxCalls = 1
    MaxFaults = 2
INVARIANTS LostCallsAreLast OneCallAtATime CompletionIsEarned
PROPERTIES SettledAttemptsStay ContinuationsEnd
CHECK_DEADLOCK FALSE
