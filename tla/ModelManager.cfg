CONSTANTS
    m1 = m1
    m2 = m2
    m3 = m3
    Models = {m1, m2, m3}
    NoModel = NoModel
    Local = {m1, m2}
    Found <- FoundFiles
    MaxCalls = 2
    MaxAsked = 1
    MaxRestarts = 1
SPECIFICATION Spec
INVARIANTS TypeOK RecordsAreUsable NothingHalfDone
PROPERTIES NobodyWaitsForEver StoreSpec
CHECK_DEADLOCK FALSE
