SPECIFICATION FairSpec
CONSTANTS
    p1 = p1  p2 = p2  p3 = p3
    Producers <- ThreeProducers
    MaxQueue = 2
    MaxCalls = 2
CHECK_DEADLOCK FALSE
INVARIANTS QueueInv InOrder
PROPERTY ChannelFairSpec
