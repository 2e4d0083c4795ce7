CONSTANTS
    Capacity = 2
    MaxTakes = 1
    MaxEvents = 1
    MaxClock = 0
SPECIFICATION Spec
INVARIANT DisconnectReleasesInput
