\* The worker under sequentially consistent stores.
SPECIFICATION FairSpec
CONSTANTS
    Capacity = 2
    MaxSubmits = 4
    MaxStarts = 3
    LateStores = FALSE
    None = None
INVARIANTS
    DrainedWhenStopped
    NoSlotRace
    StopExcludesPush
PROPERTIES
    RefinesChannel
    StopReturns
    EveryAcceptedFrameIsDelivered
