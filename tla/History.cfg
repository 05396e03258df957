SPECIFICATION FairSpec
CONSTANTS
    w1 = w1  w2 = w2  r1 = r1  m1 = m1  m2 = m2
    None = None
    Writers <- TwoWriters
    Readers <- OneReader
    Msgs <- TwoMsgs
    MultiLine <- OneMsg
    Chats <- PairBothWays
    Limits <- SomeLimits
    MaxFaults = 2
CHECK_DEADLOCK FALSE
INVARIANTS HistoryInv AckedKept CleanWithoutFaults TailIsSuffix
PROPERTY CallsReturn
