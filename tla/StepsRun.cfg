SPECIFICATION FairStepsSpec
CONSTANTS
    NumSteps = 3
    Resumable = TRUE
    MaxErrors = 2
    MaxFaults = 2
    MaxCrashes = 1
    MaxResumes = 2
INVARIANTS RepeatsArePaidFor IndexIsHonest
PROPERTY RunGetsOutcome
CHECK_DEADLOCK FALSE
