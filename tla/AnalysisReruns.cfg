\* Three runs with failures, crashes and new inputs between them.
CONSTANTS
    StepNs = 8
    MsNs = 2
    Takes <- RerunTakes
    Passages <- RerunPassages
    Sessions = {"absent", "completed"}
    Variants <- EveryVariant
    MaxSteps = 2
    MaxRuns = 3
SPECIFICATION Spec
INVARIANT RowsAgreeWithResult
PROPERTY ResultStoredLast
\* MaxRuns bounds the calls.
CHECK_DEADLOCK FALSE
