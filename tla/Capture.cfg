\* Two takes of three messages through a two-slot backend.
CONSTANTS
    Capacity = 2
    Session = {"session_a", "session_b"}
    Streams <- AllStreams
    MaxTakes = 2
    MaxEvents = 3
SPECIFICATION Spec
INVARIANTS
    TypeOK
    ActiveIffConnected
    NumbersAreContiguous
    RecordsBelongToSession
    NothingDroppedByPoll
    RecordsAgree
