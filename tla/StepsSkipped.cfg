SPECIFICATION StepsSpec
CONSTANTS
    NumSteps = 2
    Resumable = TRUE
    MaxErrors = 1
    MaxFaults = 0
    MaxCrashes = 0
    MaxResumes = 1
PROPERTY SkipsOnlyCompleted
CHECK_DEADLOCK FALSE
