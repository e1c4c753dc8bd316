SPECIFICATION MCSpec
CONSTANTS
    broken = broken
    Notes = {1, 2, 3}
    Items = {1, 2, 3}
    Types = {1, 2}
    TypeOf <- MCTypeOf
    TopicOf <- MCTopicOf
    Unit = 4
    Floats <- MCFloats
    Brands = {"own", "other"}
    Brand = "own"
    Broken = broken
    Payloads <- MCPayloads
    Policies <- MCPolicies
    Slots = {1, 3}
    Scores = {0, 1}
    MaxRuns = 2
    MaxCuts = 1
    MaxProposals = 2
    MaxBatches = 1
    MaxPublications = 1
    MaxSnapshots = 1
    MaxEvaluations = 1
CHECK_DEADLOCK FALSE
INVARIANTS ReceiptsAreBacked QuotasAreKept RefusalHasACause
PROPERTY DecidedOnFreshScores
