\* Three events into a kernel queue of two; every combination of options.
CONSTANTS
    AlsaEvent <- SomeAlsaEvents
    KernelCapacity = 2
    MaxEvents = 3
    Option <- EveryOption
    Replays <- SomeReplays
SPECIFICATION FairSpec
INVARIANTS
    NoEventBehindWait
    QueuedIsPrinted
    NothingLeft
PROPERTY CaptureEnds
\* The tool ends.
CHECK_DEADLOCK FALSE
