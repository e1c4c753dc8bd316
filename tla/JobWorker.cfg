SPECIFICATION WorkerSpec
CONSTANTS
    other = other
    none = none
    final = final
    N = 3
    MaxAttempts = 2
    ResearchStep = 0
    Publications <- NoPublications
    OtherFailure = other
    NoFailure = none
    FinalResult = final
    Commands <- AllCommands
    MaxCrashes = 2
    Errors <- AllErrors
INVARIANTS StepsInOrder PausedIsQuiet CancelledIsSettled
           WithinRetryBudget
CHECK_DEADLOCK FALSE
