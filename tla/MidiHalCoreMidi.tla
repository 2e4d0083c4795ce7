-------------------------- MODULE MidiHalCoreMidi ---------------------------
(***************************************************************************)
(* The CoreMIDI backend of the MIDI HAL (midi_hal_coremidi.c).  CoreMIDI's *)
(* thread runs midi_read_proc, which cuts packets into messages and pushes *)
(* them into the ring one critical section at a time; the client's thread  *)
(* lists, connects, polls and disconnects.                                 *)
(*                                                                         *)
(* CoreMIDI is outside the repository.  What the code relies on: one read  *)
(* procedure runs at a time, it starts only while the source is connected  *)
(* to the port, and disposing of the port and the client returns only when *)
(* none runs, since ht_midi_hal_close frees the handle next.  A unique id  *)
(* stays with its endpoint.  Packets hold whole messages; one may be cut   *)
(* at a packet's end.                                                      *)
(*                                                                         *)
(* Refused calls, failing creations and wait_event change no field.        *)
(* event_ns and the truncation of a long SysEx are left out.               *)
(***************************************************************************)
EXTENDS Integers, SequencesExt, RawEventRing

CONSTANTS
    PacketLists,  \* what one call of midi_read_proc may be given
    SourceLists,  \* what MIDIGetSource may enumerate; endpoint 0 is no source
    MaxTakes,     \* bound: sources connected
    MaxCalls,     \* bound: calls of midi_read_proc in one take
    MaxListings   \* bound: calls of list_ports

\* By the MIDI standard: the statuses of channel messages, those of program
\* changes and channel pressures among them, and the data bytes they have.
Byte == 0 .. 255
ChannelStatus == 128 .. 239
ShortStatus == 192 .. 223
DataBytes(status) == IF status \in ShortStatus THEN 1 ELSE 2

\* No status byte is among the data of a channel message, nor of a SysEx
\* before its end.
HoldsMessages(packet) ==
    \A i, k \in DOMAIN packet : i < k /\ packet[k] >= 128 =>
        /\ packet[i] \in ChannelStatus => k > i + DataBytes(packet[i])
        /\ packet[i] = 240 => \E end \in i + 1 .. k : packet[end] = 247

ASSUME CoreMidiAssumption ==
    /\ PacketLists \subseteq Seq(Seq(Byte))
    /\ \A list \in PacketLists : \A p \in DOMAIN list : HoldsMessages(list[p])
    /\ SourceLists \subseteq Seq([endpoint : Nat, unique_id : Nat])
    /\ \A s, t \in SourceLists : \A i \in DOMAIN s, j \in DOMAIN t :
         s[i].unique_id # 0 /\ s[i].unique_id = t[j].unique_id =>
             s[i].endpoint = t[j].endpoint
    /\ MaxTakes \in Nat /\ MaxCalls \in Nat /\ MaxListings \in Nat

VARIABLES
    queue,       \* queue, head, count
    connected,   \* connected
    source,      \* source; 0 is none
    port,        \* input_port and client: "none", "created", or "attached" to the source
    client,      \* where the client's thread is
    packets,     \* what the running midi_read_proc was given, <<>> if none runs
    packet,      \* the packet it is at, and in it
    offset,      \* the first byte it has not passed
    sources,     \* the endpoints CoreMIDI enumerates
    listing,     \* the last list_ports: device ids with their endpoints
    replugged,   \* ghost: the sources changed since then
    listings,    \* ghost: calls of list_ports so far
    chosen,      \* ghost: the device id connect was given
    take,        \* ghost: sources connected so far
    calls,       \* ghost: the packet lists of this take
    made,        \* ghost: messages cut out of them so far
    received     \* ghost: every event poll_event returned

handle == <<queue, connected, source, port>>
reading == <<packets, packet, offset>>
world == <<sources, replugged>>
listed == <<listing, listings>>
history == <<chosen, take, calls, made, received>>
vars == <<handle, client, reading, world, listed, history>>

ZeroEvent == [take |-> 0, at |-> <<0, 0, 0>>, raw |-> <<>>]

Init ==
    /\ queue = ZeroRing(ZeroEvent) /\ connected = FALSE /\ source = 0 /\ port = "none"
    /\ client = "idle" /\ packets = <<>> /\ packet = 1 /\ offset = 1
    /\ sources \in SourceLists /\ replugged = FALSE
    /\ listing = {} /\ listings = 0 /\ chosen = <<"none">>
    /\ take = 0 /\ calls = <<>> /\ made = 0 /\ received = <<>>

-----------------------------------------------------------------------------
\* Mutant: program changes and channel pressures have two data bytes too.
MessageLength_AllThree(bytes, first) ==
    IF bytes[first] >= 240 THEN 1 ELSE 3

\* midi_message_length: a SysEx ends with its 0xF7 or with the packet.
MessageLength(bytes, first) ==
    LET Ends == {i \in first + 1 .. Len(bytes) : bytes[i] = 247}
    IN  IF bytes[first] = 240 THEN (IF Ends = {} THEN Len(bytes) ELSE Min(Ends)) + 1 - first
        ELSE IF bytes[first] > 240 THEN 1
        ELSE IF bytes[first] \in ShortStatus THEN 2 ELSE 3

\* queue_packet_bytes: the next message of the packet, if there is one.  Data
\* bytes before it are skipped, and one that is longer than the rest is dropped.
Bytes == packets[packet]
Statuses == {i \in offset .. Len(Bytes) : Bytes[i] >= 128}
FirstByte == Min(Statuses)
LastByte == FirstByte + MessageLength(Bytes, FirstByte) - 1
HasMessage == Statuses # {} /\ LastByte <= Len(Bytes)

\* midi_read_proc is called.
ReadProc(list) ==
    /\ port = "attached" /\ packets = <<>> /\ Len(calls) < MaxCalls
    /\ packets' = list
    /\ calls' = Append(calls, list)
    /\ UNCHANGED <<handle, client, packet, offset, world, listed, chosen, take, made, received>>

\* The ht_midi_raw_event of a message, with ghosts that say where it came from.
RawEvent(t, call, p, bytes, first, last) ==
    [take |-> t, at |-> <<call, p, first>>, raw |-> SubSeq(bytes, first, last)]

\* queue_raw_event
QueueEvent ==
    /\ packets # <<>> /\ HasMessage
    /\ queue' = Pushed(queue, RawEvent(take, Len(calls), packet, Bytes, FirstByte, LastByte))
    /\ offset' = LastByte + 1
    /\ made' = made + 1
    /\ UNCHANGED <<connected, source, port, client, packets, packet, world, listed, chosen,
                   take, calls, received>>

\* MIDIPacketNext, or the read procedure returns.
NextPacket ==
    /\ packets # <<>> /\ ~HasMessage
    /\ offset' = 1
    /\ IF packet < Len(packets) THEN packet' = packet + 1 /\ packets' = packets
       ELSE packet' = 1 /\ packets' = <<>>
    /\ UNCHANGED <<handle, client, world, listed, history>>

-----------------------------------------------------------------------------
\* Mutant: every device is named by its index.
EndpointDeviceId_IndexOnly(i) == <<"index", i>>

\* endpoint_device_id
EndpointDeviceId(i) ==
    IF sources[i].unique_id # 0 THEN <<"unique", sources[i].unique_id>> ELSE <<"index", i>>

Replug ==
    /\ sources' \in SourceLists \ {sources}
    /\ replugged' = TRUE
    /\ UNCHANGED <<handle, client, reading, listed, history>>

\* ht_midi_hal_list_ports with room for every source.
ListPorts ==
    /\ client = "idle" /\ listings < MaxListings
    /\ listing' = {[device_id |-> EndpointDeviceId(i), source |-> sources[i]] :
                      i \in {j \in DOMAIN sources : sources[j].endpoint # 0}}
    /\ listings' = listings + 1
    /\ replugged' = FALSE
    /\ UNCHANGED <<handle, client, reading, sources, history>>

\* ht_midi_hal_connect up to the cleared queue: it takes the first source of
\* that id, and creates client and port.
ConnectCreates(device_id) ==
    LET Found == {i \in DOMAIN sources :
                     sources[i].endpoint # 0 /\ EndpointDeviceId(i) = device_id}
    IN  /\ client = "idle" /\ ~connected /\ take < MaxTakes
        /\ Found # {}
        /\ source' = sources[Min(Found)].endpoint
        /\ port' = "created"
        /\ queue' = Cleared(queue)
        /\ client' = "connecting"
        /\ chosen' = device_id /\ take' = take + 1 /\ calls' = <<>> /\ made' = 0
        /\ UNCHANGED <<connected, reading, world, listed, received>>

\* MIDIPortConnectSource
ConnectSource ==
    /\ client = "connecting" /\ port = "created"
    /\ port' = "attached"
    /\ UNCHANGED <<queue, connected, source, client, reading, world, listed, history>>

ConnectSourceFails ==
    /\ client = "connecting" /\ port = "created"
    /\ port' = "none" /\ source' = 0
    /\ client' = "idle"
    /\ UNCHANGED <<queue, connected, reading, world, listed, history>>

\* Mutant: the queue is cleared when everything else has succeeded.
ConnectDone_Clears ==
    /\ client = "connecting" /\ port = "attached"
    /\ connected' = TRUE /\ client' = "idle" /\ queue' = Cleared(queue)
    /\ UNCHANGED <<source, port, reading, world, listed, history>>

ConnectDone ==
    /\ client = "connecting" /\ port = "attached"
    /\ connected' = TRUE /\ client' = "idle"
    /\ UNCHANGED <<queue, source, port, reading, world, listed, history>>

\* ht_midi_hal_disconnect, by itself or from ht_midi_hal_close.
DisconnectSource ==
    /\ client = "idle" /\ port = "attached"
    /\ port' = "created" /\ client' = "disconnecting"
    /\ UNCHANGED <<queue, connected, source, reading, world, listed, history>>

\* Mutant: the queue is left to the next connect.
DisconnectDispose_KeepsQueue ==
    /\ client = "disconnecting" /\ packets = <<>>
    /\ port' = "none" /\ source' = 0 /\ connected' = FALSE
    /\ client' = "idle"
    /\ UNCHANGED <<queue, reading, world, listed, history>>

\* It disposes of port and client and clears fields and queue; after a close
\* the next open has a zeroed handle.
DisconnectDispose ==
    /\ client = "disconnecting" /\ packets = <<>>
    /\ port' = "none" /\ source' = 0 /\ connected' = FALSE
    /\ queue' \in {Cleared(queue), ZeroRing(ZeroEvent)}
    /\ client' = "idle"
    /\ UNCHANGED <<reading, world, listed, history>>

PollEvent ==
    /\ client = "idle" /\ queue.count > 0
    /\ received' = Append(received, Oldest(queue))
    /\ queue' = Popped(queue)
    /\ UNCHANGED <<connected, source, port, client, reading, world, listed, chosen,
                   take, calls, made>>

Next ==
    \/ \E list \in PacketLists : ReadProc(list)
    \/ QueueEvent \/ NextPacket
    \/ Replug \/ ListPorts
    \/ \E device_id \in {entry.device_id : entry \in listing}
                             \cup {EndpointDeviceId(i) : i \in DOMAIN sources} :
           ConnectCreates(device_id)
    \/ ConnectSource \/ ConnectSourceFails \/ ConnectDone
    \/ DisconnectSource \/ DisconnectDispose
    \/ PollEvent

Spec == Init /\ [][Next]_vars

-----------------------------------------------------------------------------
\* What polls have returned and will return.
Stream == received \o Contents(queue)

\* The whole channel messages of a packet: a status byte and its data.
WholeNotes(bytes) ==
    {w \in (1 .. Len(bytes)) \X (1 .. Len(bytes)) :
        /\ bytes[w[1]] \in ChannelStatus
        /\ w[2] = w[1] + DataBytes(bytes[w[1]])
        /\ \A k \in w[1] + 1 .. w[2] : bytes[k] < 128}

CutFrom(bytes, p) ==
    {RawEvent(t, call, p, bytes, first, last) :
        t \in 1 .. MaxTakes, call \in 1 .. MaxCalls,
        first \in DOMAIN bytes, last \in DOMAIN bytes}

Event == UNION {UNION {CutFrom(list[p], p) : p \in DOMAIN list} : list \in PacketLists}

\* The fields keep their ranges: head and count never leave the array.
TypeOK ==
    /\ queue \in Rings(Event \cup {ZeroEvent})
    /\ connected \in BOOLEAN /\ port \in {"none", "created", "attached"}
    /\ source = 0 <=> port = "none"
    /\ client \in {"idle", "connecting", "disconnecting"}
    /\ packets \in PacketLists \cup {<<>>} /\ packet \in Nat \ {0} /\ offset \in Nat \ {0}
    /\ packets # <<>> => packet <= Len(packets) /\ offset <= Len(Bytes) + 1
    /\ received \in Seq(Event)
    /\ sources \in SourceLists /\ replugged \in BOOLEAN

\* Every channel message the backend hands out was played as it stands: packet
\* splitting never joins, cuts or shifts the bytes of two messages, whatever
\* SysEx, real-time bytes and cut messages lie beside it.
NotesAreWhole ==
    \A i \in DOMAIN Stream :
        LET e == Stream[i]  first == e.at[3]
        IN  e.take = take /\ e.raw[1] < 240 =>
                <<first, first + Len(e.raw) - 1>> \in WholeNotes(calls[e.at[1]][e.at[2]])

\* The read procedure has passed place i of packet p of the call.
Passed(call, p, i) ==
    packets = <<>> \/ call < Len(calls) \/ p < packet \/ (p = packet /\ i < offset)

\* As long as the ring cannot have overflowed, every whole channel message of
\* this take that the read procedure has passed is received or queued: it may
\* be called before connect has set `connected`, and those notes open the take.
FirstNotesKept ==
    port = "attached" /\ made <= Capacity =>
        \A call \in DOMAIN calls : \A p \in DOMAIN calls[call] :
            \A w \in WholeNotes(calls[call][p]) : Passed(call, p, w[1]) =>
                \E i \in DOMAIN Stream :
                    Stream[i].take = take /\ Stream[i].at = <<call, p, w[1]>>

\* A note of an earlier connection is never queued in a later one, nor left
\* for a poll after disconnect.
NoStaleEvent ==
    /\ \A i \in DOMAIN Contents(queue) : Contents(queue)[i].take = take
    /\ port = "none" => queue.count = 0 /\ packets = <<>>

\* Connecting a listed device id connects the endpoint that was listed under
\* it, in spite of endpoints that are none; only an endpoint without a unique
\* id can be mistaken for another once the sources have changed.
ConnectsTheListed ==
    \A entry \in listing :
        client = "connecting" /\ chosen = entry.device_id =>
            \/ source = entry.source.endpoint
            \/ replugged /\ entry.source.unique_id = 0

\* The backend is a bounded queue, with `ready` in the sense of a poll that
\* would return an event; its wait_event does not look at the queue.
Fifo == INSTANCE EventFifo WITH pending <- Contents(queue), ready <- queue.count > 0
ImplementsFifo == Fifo!Spec
=============================================================================
