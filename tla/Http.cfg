SPECIFICATION FairSpec
CONSTANTS
    t1 = t1  t2 = t2  c1 = c1  c2 = c2
    None = None
    Threads <- TwoThreads
    Conns <- TwoConns
    Statuses <- SomeStatuses
    Registered <- NamedStatuses
    MaxRetries = 2
    Requests <- MixedRequests
    MaxRequests = 2
    KeyConfigured = FALSE
CHECK_DEADLOCK FALSE
INVARIANTS HttpTypeOK Chained HandlerPresent AcceptEndsWithThread AttemptsExact UpstreamStatusPassed
PROPERTIES KeptAlive ConnectionSpec ConnectionAnswers StopReturns
