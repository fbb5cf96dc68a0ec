SPECIFICATION FairSpec
CONSTANTS
    c = c
    o = o
    f1 = f1
    f2 = f2
    Tasks = {c, o}
    Once = {o}
    Firings = {f1, f2}
    MaxChanges = 3
    MaxFaults = 1
    MaxRestarts = 1
    None = None
INVARIANTS OneRunPerTask OnceRunsArePaidFor
PROPERTY StopEnds
CHECK_DEADLOCK FALSE
