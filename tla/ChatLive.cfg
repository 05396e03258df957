SPECIFICATION FairSpec
CONSTANTS
    s1 = s1  s2 = s2  s3 = s3
    A = A  B = B  C = C  R1 = R1  R2 = R2
    None = None
    Sessions <- TwoSessions
    Nicks <- NoNames
    Reserved <- NoNames
    Rooms <- TwoRooms
    MaxParticipants = 1
    MaxCmds = 3
    Patient = FALSE
    WriteFaults = FALSE
    ForeignLeave = TRUE
    StopAllowed = TRUE
CHECK_DEADLOCK FALSE
INVARIANTS ShutdownEmpties RoomsInUse CapacityRespected
PROPERTIES DepartureCompletes SessionFreed
