SPECIFICATION PipelineSpec
CONSTANTS
    Rate = 4
    MaxFrame = 3
    MaxGeneration = 2
    NoAnchor = NoAnchor
    Rates <- MCRates
    MaxBreaks = 3
    TicksPerFrame = 2
    BeepFrames = 1
    Configs <- MCConfigs
    Answers <- MCAnswers
INVARIANTS
    TypeOK
    StaleAnchorsPlaceNothing
    CurrentAnchorsPlace
    EpochIsContiguous
    GapIsAcknowledged
    BleepsWhatWasSaid
    ReportsAreBleeped
CHECK_DEADLOCK FALSE
