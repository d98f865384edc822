CONSTANT MaxProcess = 3
SPECIFICATION RestartSpec
INVARIANTS AlwaysServed
PROPERTIES OneSuccessor
CHECK_DEADLOCK FALSE
