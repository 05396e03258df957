SPECIFICATION Spec
CONSTANTS
    s1 = s1  s2 = s2  s3 = s3
    A = A  B = B  C = C  R1 = R1  R2 = R2
    None = None
    Sessions <- TwoSessions
    Nicks <- NoNames
    Reserved <- NoNames
    Rooms <- OneRoom
    MaxParticipants = 2
    MaxCmds = 3
    Patient = TRUE
    WriteFaults = FALSE
    ForeignLeave = FALSE
    StopAllowed = FALSE
CHECK_DEADLOCK FALSE
PROPERTY WalkUndisturbed
