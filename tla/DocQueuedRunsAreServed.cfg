SPECIFICATION ResearchSpec
CONSTANTS
    l1 = l1
    l2 = l2
    analyst = analyst
    Lanes <- TwoLanes
    R = 1
    MaxFaults = 0
SYMMETRY LaneSymmetry
INVARIANT QueuedRunsAreServed
CHECK_DEADLOCK FALSE
