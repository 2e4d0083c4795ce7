\* Two takes of two events, under one session id or two; two reviews.
CONSTANTS
    Session = {session_a, session_b}
    MaxNo = 2
    StepCount = 2
    Variant = {"HANON-01-C", "HANON-02-C"}
    Covered = {"HANON-01-C", "HANON-02-C"}
    StepsOf <- TwoPassages
    LongText = "too long"
    MaxTakes = 2
    MaxRuns = 2
SPECIFICATION Spec
INVARIANTS
    TypeOK
    NoOrphans
    LoadedEventsAreRows
    ScoredIsStoredPrefix
    AdviceNeedsAnalysis
    AnalysedVariantWasChosen
SYMMETRY AnySession
