\* One request for a session without an analysis.
CONSTANTS
    Session = {"session_a"}
    MaxNo = 2
    StepCount = 2
    Variant = {"HANON-01-C", "HANON-02-C", "HANON-60-C"}
    Covered = {"HANON-01-C", "HANON-02-C"}
    StepsOf <- TwoPassages
    LongText = "too long"
    MaxTakes = 1
    MaxRuns = 1
SPECIFICATION Spec
INVARIANT RequestZeroedOnFailure
