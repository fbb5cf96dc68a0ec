SPECIFICATION FairEmitSpec
CONSTANTS
    None = None  e1 = e1  e2 = e2  r1 = r1  g1 = g1  g2 = g2
    Events = {e1}
    Lore = {}
    Emitters = {g1}
    Batch <- OneEmitter
    Aborting = {g1}
    Limit = 1
    MaxBatches = 2
    ScanLimit = 1
    MaxFaults = 0
    MaxCrashes = 1
PROPERTY EventsReachOutbox
CHECK_DEADLOCK FALSE
