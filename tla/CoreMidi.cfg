\* Two takes of two read procedures through a two-slot ring, one listing.
CONSTANTS
    Capacity = 2
    PacketLists <- CoreMidiPackets
    SourceLists <- CoreMidiSources
    MaxTakes = 2
    MaxCalls = 2
    MaxListings = 1
SPECIFICATION Spec
INVARIANTS
    TypeOK
    NotesAreWhole
    FirstNotesKept
    NoStaleEvent
    ConnectsTheListed
PROPERTY ImplementsFifo
