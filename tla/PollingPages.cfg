SPECIFICATION Spec
CONSTANTS
    None = None
    MaxPolls = 2
    MaxOverlaps = 1
    MaxMail = 2
    MaxReads = 1
    MaxRestarts = 1
    PageLimit = 1
    UnseenOnly = FALSE
    MarksSeen = TRUE
INVARIANTS KnownWasHandedOver RepeatsArePaidFor
CHECK_DEADLOCK FALSE
