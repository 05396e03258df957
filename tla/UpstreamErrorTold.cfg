SPECIFICATION Spec
CONSTANTS
    t1 = t1  t2 = t2  c1 = c1  c2 = c2
    None = None
    Threads <- OneThread
    Conns <- TwoConns
    Statuses <- SomeStatuses
    Registered <- NamedStatuses
    MaxRetries = 3
    Requests <- MixedRequests
    MaxRequests = 1
    KeyConfigured = FALSE
CHECK_DEADLOCK FALSE
INVARIANT UpstreamErrorTold
