SPECIFICATION Spec
CONSTANTS
    w1 = w1  w2 = w2  r1 = r1  m1 = m1  m2 = m2
    None = None
    Writers <- TwoWriters
    Readers <- OneReader
    Msgs <- TwoMsgs
    MultiLine <- NoMsgs
    Chats <- OtherRooms
    Limits <- OneLimit
    MaxFaults = 0
CHECK_DEADLOCK FALSE
INVARIANT LoadsOwnChat
