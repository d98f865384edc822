CONSTANTS
    Token <- MCToken
    NoToken = 0
    MaxRec = 3
    Name = {n1, n2}
    Call = {c1, c2}
    Policies <- OverlapAndQueue
    MayFail = TRUE
SPECIFICATION FairSpec
INVARIANTS HandleOwned RegisteredIsScheduled
PROPERTIES ImplementsOverlapGate TriggersResolve
CHECK_DEADLOCK FALSE
