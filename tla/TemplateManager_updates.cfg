CONSTANTS
    Proc = {p1, p2}
    Root = {d1, d2}
    NoRoot = NoRoot
    Func = {f1, f2}
    NoCache = NoCache
    Nobody = Nobody
    MaxEdits = 1
SPECIFICATION FairSpec
INVARIANTS SnapshotMatches
PROPERTIES MethodsReturn
CHECK_DEADLOCK FALSE
