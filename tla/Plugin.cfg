SPECIFICATION PluginSpec
CONSTANTS
    Filters = {f1, f2}
    Models = {m1}
    MaxSequence = 2
    MaxFileBytes = 80
    MaxSamples = 7
    AssetKinds = {"duck", "custom"}
    WavFiles <- MCWavFiles
    Requests <- MCRequests
    Evidence <- MCEvidence
    Ladder <- MCLadder
    Malformed <- MCMalformed
    MaxNumber = 99
    Characters <- MCCharacters
    Strings <- MCStrings
    Said <- MCSaid
INVARIANTS
    LogsAreExclusive
    PromptsHoldTheirSource
    SoundsArePlayable
    RuntimeIsAsRequested
    OffersGoForward
    LinesAreUnderstood
PROPERTIES
    EverySourceIsFreed
CHECK_DEADLOCK FALSE
