SPECIFICATION NamesSpec
CONSTANTS
    s1 = s1  s2 = s2  s3 = s3
    A = A  B = B  C = C  R1 = R1  R2 = R2
    None = None
    Sessions <- TwoSessions
    Nicks <- TwoNicks
    Reserved <- NoNames
    Rooms <- TwoRooms
    MaxParticipants = 1
    MaxCmds = 5
    Patient = TRUE
    WriteFaults = TRUE
    ForeignLeave = FALSE
    StopAllowed = FALSE
CHECK_DEADLOCK FALSE
SYMMETRY AllSymmetry
INVARIANTS NicksAgree NoGhostParticipant OldNickKnown
