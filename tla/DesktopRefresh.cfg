CONSTANTS
    r1 = r1
    r2 = r2
    t1 = t1
    Refreshers = {r1, r2}
    Threads = {t1}
    Seconds = {0}
    MaxDirs = 2
SPECIFICATION Spec
SYMMETRY Symmetry
INVARIANT TypeOK
INVARIANT PulledThreadsShown
INVARIANT OriginalKept
PROPERTY UserNamesKept
