SPECIFICATION Spec
CONSTANTS
    p1 = p1  p2 = p2  e1 = e1  l1 = l1  l2 = l2  w1 = w1  w2 = w2
    None = None
    Pipelines = {p1, p2}
    BusEvents = {e1}
    LocalIds = {}
    Workers = {w1, w2}
    Subscribed <- TwoSubscribers
    CronDefs = {}
    WebhookDefs = {}
    Resumable = {p1}
    NumSteps = 2
    MaxAttempts = 2
    MaxDeliveries = 2
    MaxCrashes = 1
    MaxReloads = 0
    StoreFaults = TRUE
    Timeouts = TRUE
INVARIANTS StepsOnceInOrder CheckpointCovers RowsTellTheTruth
PROPERTY ClaimSpec
CHECK_DEADLOCK FALSE
