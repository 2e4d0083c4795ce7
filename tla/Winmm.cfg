\* Fair threads; a two-slot queue that overflows, three messages per
\* connection, two connections.
CONSTANTS
    Capacity = 2
    MaxTakes = 2
    MaxEvents = 3
    MaxClock = 2
SPECIFICATION FairSpec
INVARIANTS
    TypeOK
    SignalCoherent
    NoStaleEvent
    StreamInOrder
    FirstEventsKept
PROPERTIES
    ImplementsFifo
    WaitIsWoken
    CallsReturn
    QueuedLeaves
