SPECIFICATION Spec
CONSTANTS
    s1 = s1  s2 = s2  s3 = s3
    A = A  B = B  C = C  R1 = R1  R2 = R2
    None = None
    Sessions <- OneSession
    Nicks <- ThreeNicks
    Reserved <- NoNames
    Rooms <- NoNames
    MaxParticipants = 1
    MaxCmds = 3
    Patient = FALSE
    WriteFaults = FALSE
    ForeignLeave = FALSE
    StopAllowed = FALSE
CHECK_DEADLOCK FALSE
INVARIANT OldNickExists
