SPECIFICATION FairSpec
CONSTANTS
    None = None  w1 = w1  w2 = w2  s1 = s1  s2 = s2  j1 = j1
    Jobs = {j1}
    Workers = {w1, w2}
    Slots = {s1, s2}
    Home <- HomeOfTwo
    MaxClaimAttempts = 2
    MaxLate = 1
    MaxFaults = 1
    MaxStops = 1
    MaxCancels = 1
    MaxTroubles = 1
INVARIANT LeasesAreHeld
PROPERTIES JobSpec JobSettles CancelStopsCli
CHECK_DEADLOCK FALSE
