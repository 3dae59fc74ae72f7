SPECIFICATION FairSpec
CONSTANTS
    IngressCapacity = 3
    CoreDepth = 2
INVARIANTS
    RuntimeUsedByOneThread
    NoSubmitIntoStoppingCore
    JoinableIsNeverOverwritten
    IngressSlotIsNotShared
PROPERTIES
    StopReturnsUnlessMissed
    CapturedPacketIsHandled
