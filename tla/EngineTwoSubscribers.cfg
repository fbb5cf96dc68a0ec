SPECIFICATION Spec
CONSTANTS
    p1 = p1  p2 = p2  e1 = e1  l1 = l1  l2 = l2  w1 = w1  w2 = w2
    None = None
    Pipelines = {p1, p2}
    BusEvents = {e1}
    LocalIds = {}
    Workers = {w1, w2}
    Subscribed <- TwoSubscribers
    CronDefs = {}
    WebhookDefs = {}
    Resumable = {p1}
    NumSteps = 1
    MaxAttempts = 1
    MaxDeliveries = 1
    MaxCrashes = 0
    MaxReloads = 0
    StoreFaults = FALSE
    Timeouts = FALSE
INVARIANT NoMatchLost
CHECK_DEADLOCK FALSE
