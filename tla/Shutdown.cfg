SPECIFICATION Spec
CONSTANTS
    s1 = s1  s2 = s2
    None = None
    Sessions <- TwoSessions
    Senders <- OneSender
    Slow <- OneListener
    Unsafe = {"global", "room", "private", "left"}
    MaxAsks = 2
    NumThreads = 3
CHECK_DEADLOCK FALSE
INVARIANTS ShutdownTypeOK DeliveredIsLogged
PROPERTIES LateNeverLogs ProcessExits GlobalArrives
