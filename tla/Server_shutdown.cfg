CONSTANTS
    Caller = {run, c1}
    Runner = {run}
    Hook = {c1}
    Task = {t1}
    Request = {r1}
    Nobody = Nobody
SPECIFICATION TimeoutSpec
INVARIANTS StopAfterDrain
PROPERTIES CleanMeansDone ImplementsLifecycle ShutdownReturns
CHECK_DEADLOCK FALSE
