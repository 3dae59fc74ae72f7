SPECIFICATION Spec
CONSTANTS
    Runners = {r1, r2}
    Models = {m1, m2}
    NoModel = NoModel
    MaxCalls <- CallsTogether
    r1 = r1
    r2 = r2
INVARIANTS
    AnswerBelongsToRequest
    TranscriptFromWantedModel
    NothingLeftBehind
PROPERTIES
    CallsReturnUnlessInherited
CHECK_DEADLOCK FALSE
