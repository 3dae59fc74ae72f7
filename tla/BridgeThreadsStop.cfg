SPECIFICATION FairSpec
CONSTANTS
    IngressCapacity = 3
    CoreDepth = 2
PROPERTY StopReturns
