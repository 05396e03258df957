SPECIFICATION FlowSpec
CONSTANTS
    s1 = s1  s2 = s2  s3 = s3
    None = None
    Sessions <- ThreeSessions
    Senders <- TwoSenders
    Slow <- Listeners
    Unsafe = {}
    MaxAsks = 3
SYMMETRY SenderSymmetry
CHECK_DEADLOCK FALSE
INVARIANTS GlobalOrder SenderOrder LeftIsLast LoggedWasSent
