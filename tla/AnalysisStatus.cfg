CONSTANTS
    StepNs = 8
    MsNs = 2
    Takes <- RerunTakes
    Passages <- RerunPassages
    Sessions <- EverySession
    Variants = {"covered"}
    MaxSteps = 2
    MaxRuns = 1
SPECIFICATION Spec
INVARIANT OnlyCompletedScored
\* MaxRuns bounds the calls.
CHECK_DEADLOCK FALSE
