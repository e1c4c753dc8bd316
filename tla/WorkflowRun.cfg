SPECIFICATION Spec
CONSTANTS
    pub1 = pub1
    other = other
    none = none
    final = final
    N = 2
    MaxAttempts = 1
    ResearchStep = 1
    Publications <- MCPublications
    OtherFailure = other
    NoFailure = none
    FinalResult = final
INVARIANTS TypeOK EndedRunsAreSettled
PROPERTY LifecycleSpec
