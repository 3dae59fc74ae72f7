SPECIFICATION Spec
CONSTANTS
    Runners = {r1, r2}
    Models = {m1}
    NoModel = NoModel
    MaxCalls <- CallsPair
    r1 = r1
    r2 = r2
PROPERTY StopReturns
CHECK_DEADLOCK FALSE
