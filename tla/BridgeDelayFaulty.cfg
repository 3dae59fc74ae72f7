SPECIFICATION Spec
CONSTANTS
    Delay = 3
    Jump = 1
    RawCapacity = 3
    IngressCapacity = 2
    CoreCapacity = 1
    ResultCapacity = 2
    Lengths <- MCOneLength
    Offsets <- MCOffsets
    Faulty = TRUE
    MaxPackets = 6
    MaxStarts = 2
    Rate = 1
    MaxFrame = 20
    MaxGeneration = 20
    NoAnchor = NoAnchor
INVARIANT GapIsAnnounced
CHECK_DEADLOCK FALSE
