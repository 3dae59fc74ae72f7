\* The worker when the catch block's stores wait in its store buffer.
SPECIFICATION Spec
CONSTANTS
    Capacity = 2
    MaxSubmits = 2
    MaxStarts = 1
    LateStores = TRUE
    None = None
INVARIANT
    StopDrainsEveryAcceptedFrame
