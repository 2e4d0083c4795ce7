CONSTANTS
    Capacity = 2
    MaxTakes = 1
    MaxEvents = 3
    MaxClock = 0
SPECIFICATION Spec
INVARIANT OverflowSurfaces
