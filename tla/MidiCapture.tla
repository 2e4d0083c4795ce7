---------------------------- MODULE MidiCapture -----------------------------
(***************************************************************************)
(* The capture boundary (midi_capture.c) over a callback backend that      *)
(* keeps the promise of EventFifo, which MidiHalWinmm implements.  Capture *)
(* runs on the client's thread; the backend's callback may queue an event  *)
(* between any two of its steps once the backend is connected.             *)
(*                                                                         *)
(* Calls a guard refuses, a poll that finds nothing, and a poll whose      *)
(* backend fails before it consumes an event change no field.              *)
(***************************************************************************)
EXTENDS MidiDecode, FiniteSets

CONSTANTS
    Capacity,    \* the backend's queue
    Session,     \* valid session ids
    Streams,     \* the sets of raw messages a driver may choose from
    MaxTakes,    \* bound: successful connects
    MaxEvents    \* bound: messages delivered in one take

ASSUME CaptureAssumption ==
    /\ Capacity \in Nat \ {0}
    /\ MaxTakes \in Nat /\ MaxEvents \in Nat
    /\ \A messages \in Streams : messages \subseteq Seq(0 .. 255) \ {<<>>}

NoSession == "none"

Message == UNION Streams

ASSUME SessionAssumption == NoSession \notin Session

\* A queued HAL event, with (ghosts) its take and its place in that take.
Event == [take : 1 .. MaxTakes, no : 1 .. MaxEvents, raw : Message]

VARIABLES
    open,              \* the handle exists
    active,            \* active
    session_id,        \* session_id
    next_sequence_no,  \* next_sequence_no
    client,            \* "starting" between the backend's connect and active
    starting,          \* the session id that start was given
    connected,         \* the backend is connected
    pending, received, ready,  \* the backend, as EventFifo has them
    playing,           \* the messages of this behaviour's driver
    take,              \* ghost: connects that succeeded
    made,              \* ghost: messages the driver delivered in this take
    owner,             \* ghost: the session id each take was started with
    emitted,           \* ghost: records polls returned, with their event
    failures           \* ghost: events whose poll returned an error status

Hal == INSTANCE EventFifo

capture == <<open, active, session_id, next_sequence_no>>
hal == <<connected, pending, received, ready>>
history == <<take, made, owner, emitted, failures>>
vars == <<capture, hal, client, starting, playing, history>>

Init ==
    /\ open = FALSE /\ active = FALSE
    /\ session_id = NoSession /\ next_sequence_no = 0
    /\ client = "idle" /\ starting = NoSession
    /\ connected = FALSE /\ Hal!Init /\ playing \in Streams
    /\ take = 0 /\ made = 0
    /\ owner = <<>> /\ emitted = <<>> /\ failures = {}

\* The driver's callback; it drops the message when the queue is full.
Deliver(raw) ==
    /\ connected /\ made < MaxEvents
    /\ made' = made + 1
    /\ \/ Hal!Accept([take |-> take, no |-> made + 1, raw |-> raw])
       \/ Len(pending) = Capacity /\ UNCHANGED <<pending, received, ready>>
    /\ UNCHANGED <<capture, connected, client, starting, playing, take, owner, emitted, failures>>

Open ==
    /\ client = "idle" /\ ~open
    /\ open' = TRUE
    /\ active' = FALSE /\ session_id' = NoSession /\ next_sequence_no' = 0
    /\ UNCHANGED <<hal, client, starting, playing, history>>

HalDisconnect == Hal!Discard /\ connected' = FALSE

\* ht_midi_capture_close disconnects an active stream, and ht_midi_hal_close
\* whatever is left; the handle's fields are gone with it.
Close ==
    /\ client = "idle" /\ open
    /\ HalDisconnect
    /\ open' = FALSE
    /\ active' = FALSE /\ session_id' = NoSession /\ next_sequence_no' = 0
    /\ UNCHANGED <<client, starting, playing, history>>

\* ht_midi_capture_start up to a successful ht_midi_hal_connect.
StartConnects(session) ==
    /\ client = "idle" /\ open /\ ~active /\ ~connected
    /\ take < MaxTakes
    /\ Hal!Discard
    /\ connected' = TRUE
    /\ client' = "starting" /\ starting' = session
    /\ take' = take + 1 /\ made' = 0
    /\ owner' = Append(owner, session)
    /\ UNCHANGED <<capture, playing, emitted, failures>>

\* Mutant: a start of an active capture reaches the backend, which refuses.
StartFails_WhenActive ==
    /\ client = "idle" /\ open
    /\ session_id' = NoSession /\ next_sequence_no' = 0 /\ active' = FALSE
    /\ UNCHANGED <<open, hal, client, starting, playing, history>>

\* Mutant: the session id is stored before the guards and the connect.
StartFails_StoresId ==
    /\ client = "idle" /\ open
    /\ session_id' \in Session
    /\ UNCHANGED <<open, active, next_sequence_no, hal, client, starting, playing, history>>

\* ht_midi_hal_connect fails.
StartFails ==
    /\ client = "idle" /\ open /\ ~active
    /\ session_id' = NoSession /\ next_sequence_no' = 0 /\ active' = FALSE
    /\ UNCHANGED <<open, hal, client, starting, playing, history>>

StartDone ==
    /\ client = "starting"
    /\ session_id' = starting
    /\ next_sequence_no' = 1
    /\ active' = TRUE
    /\ client' = "idle" /\ starting' = NoSession
    /\ UNCHANGED <<open, hal, playing, history>>

\* ht_midi_capture_poll_event of an event that decodes.
PollEmits ==
    /\ client = "idle" /\ open /\ active
    /\ Hal!Receive
    /\ LET event == Head(pending)
       IN  /\ IsDecodable(event.raw)
           /\ emitted' = Append(emitted,
                  [event |-> event,
                   record |-> PublicRecord(session_id, next_sequence_no, event.raw)])
    /\ next_sequence_no' = next_sequence_no + 1
    /\ UNCHANGED <<open, active, session_id, connected, client, starting, playing, take, made,
                   owner, failures>>

\* Mutant: the number is taken before the event is decoded.
PollRejects_TakesNumber ==
    /\ client = "idle" /\ open /\ active
    /\ Hal!Receive
    /\ ~IsDecodable(Head(pending).raw)
    /\ failures' = failures \cup {Head(pending)}
    /\ next_sequence_no' = next_sequence_no + 1
    /\ UNCHANGED <<open, active, session_id, connected, client, starting, playing, take, made,
                   owner, emitted>>

\* ... and of one that does not: it is consumed and the status returned.
PollRejects ==
    /\ client = "idle" /\ open /\ active
    /\ Hal!Receive
    /\ ~IsDecodable(Head(pending).raw)
    /\ failures' = failures \cup {Head(pending)}
    /\ UNCHANGED <<capture, connected, client, starting, playing, take, made, owner, emitted>>

\* ht_midi_capture_stop of an active capture, whatever disconnect returns.
Stop ==
    /\ client = "idle" /\ open /\ active
    /\ HalDisconnect
    /\ active' = FALSE /\ session_id' = NoSession /\ next_sequence_no' = 0
    /\ UNCHANGED <<open, client, starting, playing, history>>

Next ==
    \/ \E raw \in playing : Deliver(raw)
    \/ Open \/ Close
    \/ \E session \in Session : StartConnects(session)
    \/ StartFails \/ StartDone
    \/ PollEmits \/ PollRejects
    \/ Stop

Spec == Init /\ [][Next]_vars

-----------------------------------------------------------------------------

Emission == [event : Event,
             record : [session_id : Session, sequence_no : Nat,
                       status_byte : 0 .. 255, data_1 : 0 .. 255, data_2 : 0 .. 255,
                       channel : 0 .. 16,
                       event_kind : {"note_on", "note_off", "control_change", "other"}]]

\* The handle's fields and the backend's queue keep their ranges.
TypeOK ==
    /\ open \in BOOLEAN /\ active \in BOOLEAN /\ connected \in BOOLEAN /\ ready \in BOOLEAN
    /\ session_id \in Session \cup {NoSession} /\ starting \in Session \cup {NoSession}
    /\ next_sequence_no \in 0 .. MaxEvents + 1
    /\ client \in {"idle", "starting"}
    /\ pending \in Seq(Event) /\ Len(pending) <= Capacity
    /\ received \in Seq(Event)
    /\ playing \in Streams
    /\ take \in 0 .. MaxTakes /\ made \in 0 .. MaxEvents
    /\ owner \in Seq(Session)
    /\ emitted \in Seq(Emission)
    /\ failures \subseteq Event

\* Outside a start, capture is active exactly while its backend is connected
\* and then alone has a session id and a sequence number: no sequence of
\* starts, failed starts, stops and closes leaves a stream nobody can stop
\* (docs/REVIEW-HANON-MIDI-HAL-PLAN.md: a failed start "does not keep a
\* partially connected backend").
ActiveIffConnected ==
    client = "idle" =>
        /\ active <=> connected
        /\ active <=> session_id # NoSession
        /\ active <=> next_sequence_no > 0
        /\ ~active => pending = <<>>

\* The numbers of a take's records run 1, 2, 3, ... in the order the driver
\* delivered the events, whatever malformed events, overflows and earlier
\* takes lie between: performance analysis orders a take by these numbers.
NumbersAreContiguous ==
    \A i \in DOMAIN emitted :
        LET Earlier == {j \in 1 .. i - 1 : emitted[j].event.take = emitted[i].event.take}
        IN  /\ emitted[i].record.sequence_no = Cardinality(Earlier) + 1
            /\ \A j \in Earlier : emitted[j].event.no < emitted[i].event.no

\* A record carries the session id its take was started with: an event played
\* in one take is never stored under another's session, even if it arrived
\* while start had connected the backend and not yet stored the id.
RecordsBelongToSession ==
    \A i \in DOMAIN emitted : emitted[i].record.session_id = owner[emitted[i].event.take]

\* Every event the backend gave up was returned to the client as a record or
\* as an error status, and an error means the message was not a MIDI message:
\* a complete channel message of two or three bytes is always captured.
NothingDroppedByPoll ==
    /\ \A i \in DOMAIN received :
         received[i] \in failures \cup {emitted[j].event : j \in DOMAIN emitted}
    /\ \A event \in failures :
         LET raw == event.raw
         IN  ~ \/ raw[1] >= 240
               \/ Len(raw) = 2 /\ raw[1] \in 192 .. 223 /\ raw[2] < 128
               \/ Len(raw) = 3 /\ raw[1] \in (128 .. 191) \cup (224 .. 239)
                  /\ raw[2] < 128 /\ raw[3] < 128

\* The columns of a record agree with each other, as the store and analysis
\* take for granted when they read back event_kind, channel and data_1: a
\* note-on sounds, its pitch is a MIDI pitch, and the channel is the one in
\* the status byte.
RecordsAgree ==
    \A i \in DOMAIN emitted :
        LET r == emitted[i].record
        IN  /\ r.event_kind = "note_on" <=> r.status_byte \in 144 .. 159 /\ r.data_2 > 0
            /\ r.event_kind = "note_off" <=>
                  \/ r.status_byte \in 128 .. 143
                  \/ r.status_byte \in 144 .. 159 /\ r.data_2 = 0
            /\ r.event_kind = "control_change" <=> r.status_byte \in 176 .. 191
            /\ r.channel > 0 =>
                  /\ (r.status_byte % 16) = r.channel - 1
                  /\ r.data_1 < 128 /\ r.data_2 < 128
            /\ r.channel = 0 <=> r.status_byte >= 240
=============================================================================
