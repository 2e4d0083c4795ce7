\* One run over every take of up to three events and six passages.
CONSTANTS
    StepNs = 8
    MsNs = 2
    Takes <- AllTakes
    Passages <- ScoredPassages
    Sessions = {"completed"}
    Variants = {"covered"}
    MaxSteps = 2
    MaxRuns = 1
SPECIFICATION Spec
INVARIANTS
    TypeOK
    ScanIsOptimal
    NotesBalance
    WeakStepsAreReal
\* MaxRuns bounds the calls.
CHECK_DEADLOCK FALSE
