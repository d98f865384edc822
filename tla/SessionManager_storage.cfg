CONSTANTS
    Request = {r1, r2}
    Family = {f1, f2}
    NoFamily = NoFamily
    NoToken = NoToken
    TTL = 2
    MaxTime = 5
    MaxToken = 3
    MemoryTTL = 1
    CleanupInterval = 1
    MaxMemoryTime = 3
    MaxId = 3
SYMMETRY Symmetric
SPECIFICATION ManagerSpec
INVARIANTS RotationSupersedes SessionSurvives NoOrphans
PROPERTIES RevokedNeverAccepted RenewedStays
CHECK_DEADLOCK FALSE
