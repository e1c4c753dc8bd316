SPECIFICATION FairSpec
CONSTANTS
    c1 = c1  c2 = c2  k1 = k1  k2 = k2
    diag = diag  domain = domain  trace = trace  other = other
    i1 = i1  i2 = i2  runA = runA  p1 = p1  p2 = p2
    Callers = {c1, c2}
    Closers = {k1, k2}
    Requests <- AllRequests
    Kinds <- MCKinds
    Ids = {i1, i2}
    Runs = {runA}
    Payloads = {p1, p2}
    NoRun = NoRun
    DiagnosticKind = diag
    DomainKinds = {domain}
    TraceKinds = {trace}
    QueueCapacity = 1
    NoItem = NoItem  Stop = Stop  Nobody = Nobody
INVARIANTS TypeOK WaitingIsHeld AppliedAtMostOnce AnswersAreDurable
           RefusedWithoutEffect
PROPERTIES LedgerSpec EveryCallReturns CloseReturns
