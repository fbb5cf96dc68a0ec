SPECIFICATION Spec
CONSTANTS
    a = a  b = b  c = c  d = d
    Tasks = {a, b, c}
    Deps <- Chain
    MaxConcurrency = 2
    MaxErrors = 0
    MaxSilents = 0
    MaxFaults = 0
    MaxTimeouts = 1
    MaxCrashes = 0
    MaxResumes = 0
INVARIANT DoneMeansAll
CHECK_DEADLOCK FALSE
