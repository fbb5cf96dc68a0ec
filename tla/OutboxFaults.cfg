SPECIFICATION FairSpec
CONSTANTS
    None = None  e1 = e1  e2 = e2  r1 = r1  g1 = g1  g2 = g2
    Events = {e1, e2}
    Lore = {r1}
    Emitters = {g1, g2}
    Batch <- TwoEmitters
    Aborting = {g1}
    Limit = 1
    MaxBatches = 2
    ScanLimit = 2
    MaxFaults = 1
    MaxCrashes = 1
INVARIANTS MarkedWereSent SentIsDurable CopiesArePaidFor
PROPERTIES BacklogDrains RowsReachHandler
CHECK_DEADLOCK FALSE
