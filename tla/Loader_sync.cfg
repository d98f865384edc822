CONSTANTS
    ID = {i1, i2, i3}
    Name = {n1, n2, n3}
    Version = {1, 2}
    Absent = Absent
    Caller = {p1, p2}
    NoCaller = NoCaller
    MaxRev = 2
SYMMETRY Symmetry
SPECIFICATION LoaderSpec
INVARIANTS LoadedIsScheduled NeverTwice
PROPERTIES NewestCommits
CHECK_DEADLOCK FALSE
