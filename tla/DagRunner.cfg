SPECIFICATION FairSpec
CONSTANTS
    a = a  b = b  c = c  d = d
    Tasks = {a, b, c, d}
    Deps <- Diamond
    MaxConcurrency = 2
    MaxErrors = 1
    MaxSilents = 1
    MaxFaults = 1
    MaxTimeouts = 1
    MaxCrashes = 1
    MaxResumes = 1
INVARIANTS CheckpointIsHonest LoopIsNeverStuck
PROPERTIES RecordedOnce DagRunSpec FailureIsRecorded EveryRunEnds
CHECK_DEADLOCK FALSE
