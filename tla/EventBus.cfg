CONSTANTS
    u = u
    c = c
    b = b
    EmptySegment = Empty
    Segment <- SegmentMC
    MaxSegments = 2
    Listener = {l1}
    Pattern <- PatternMC
    Event <- EventMC
    Task = {t1, t2}
    MaxEmission = 2
    MaxDriver = 3
SPECIFICATION FairSpec
INVARIANT LeaksAreCrossings
PROPERTIES TaskReturns DeliverySpec
