SPECIFICATION ScopeSpec
CONSTANTS
    l1 = l1
    l2 = l2
    Lanes <- TwoLanes
    U = 1
    MaxCalls = 1
    MaxFaults = 2
INVARIANT RowsAreReadable
CHECK_DEADLOCK FALSE
