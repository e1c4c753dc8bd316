SPECIFICATION FairWorkerSpec
CONSTANTS
    other = other
    none = none
    final = final
    N = 3
    MaxAttempts = 2
    ResearchStep = 0
    Publications <- NoPublications
    OtherFailure = other
    NoFailure = none
    FinalResult = final
    Commands <- ControlCommands
    MaxCrashes = 1
    Errors <- AllErrors
PROPERTIES EveryRunEnds CancelMeetsExecution PauseMeetsExecution
CHECK_DEADLOCK FALSE
