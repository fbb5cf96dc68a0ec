SPECIFICATION Spec
CONSTANTS
    a = a  b = b  c = c  d = d
    Tasks = {a, b, c, d}
    Deps <- Diamond
    MaxConcurrency = 2
    MaxErrors = 0
    MaxSilents = 1
    MaxFaults = 0
    MaxTimeouts = 0
    MaxCrashes = 1
    MaxResumes = 1
INVARIANT DepsAlwaysFirst
CHECK_DEADLOCK FALSE
