CONSTANTS
    Caller = {p1, p2, p3}
    Task = {k1}
SYMMETRY Symmetry
SPECIFICATION Spec
INVARIANTS PhasesExclusive
PROPERTIES ClosingOnceInOrder RequestIsFinal
