CONSTANTS
    Token <- MCToken
    NoToken = 0
    MaxRec = 3
    Name = {n1}
    Call = {c1, c2, c3}
    Policies <- OverlapAndQueue
    MayFail = FALSE
SPECIFICATION Spec
PROPERTIES LastExecutionTakesQueue
CHECK_DEADLOCK FALSE
