SPECIFICATION ResearchSpec
CONSTANTS
    l1 = l1
    l2 = l2
    analyst = analyst
    Lanes <- TwoLanes
    R = 2
    MaxFaults = 1
SYMMETRY LaneSymmetry
INVARIANTS ResearchTypeOK ReportIsEarned CancelledIsFinal DecisionsAreOpen RetriesHaveAnAttempt
PROPERTIES LifecycleSpec CallsAreNotRepeated AnalysisIsKept
CHECK_DEADLOCK FALSE
