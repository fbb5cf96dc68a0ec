SPECIFICATION FairSpec
CONSTANTS
    None = None
    MaxPolls = 1
    MaxOverlaps = 0
    MaxMail = 3
    MaxReads = 0
    MaxRestarts = 0
    PageLimit = 1
    UnseenOnly = TRUE
    MarksSeen = FALSE
PROPERTY NewMailIsReported
CHECK_DEADLOCK FALSE
