SPECIFICATION Spec
CONSTANTS
    None = None  w1 = w1  w2 = w2  s1 = s1  s2 = s2  j1 = j1
    Jobs = {j1}
    Workers = {w1, w2}
    Slots = {s1, s2}
    Home <- HomeOfTwo
    MaxClaimAttempts = 2
    MaxLate = 0
    MaxFaults = 0
    MaxStops = 0
    MaxCancels = 1
    MaxTroubles = 1
PROPERTY TerminalIsFinal
CHECK_DEADLOCK FALSE
