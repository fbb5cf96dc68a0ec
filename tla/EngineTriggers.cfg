SPECIFICATION FairSpec
CONSTANTS
    p1 = p1  p2 = p2  e1 = e1  l1 = l1  l2 = l2  w1 = w1  w2 = w2
    None = None
    Pipelines = {p1, p2}
    BusEvents = {e1}
    LocalIds = {l1, l2}
    Workers = {w1, w2}
    Subscribed <- OneSubscriber
    CronDefs = {p1}
    WebhookDefs = {p2}
    Resumable = {}
    NumSteps = 1
    MaxAttempts = 1
    MaxDeliveries = 1
    MaxCrashes = 0
    MaxReloads = 1
    StoreFaults = FALSE
    Timeouts = FALSE
INVARIANTS CronExclusive NoMatchLost
PROPERTY EveryRunSettles
CHECK_DEADLOCK FALSE
