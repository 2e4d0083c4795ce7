----------------------- MODULE MidiHalCoreMidi_proofs -----------------------
(***************************************************************************)
(* The CoreMIDI backend for every capacity of the ring, every stream of    *)
(* packets that hold messages, and every enumeration of sources.           *)
(***************************************************************************)
EXTENDS MidiHalCoreMidi, RawEventRingTheorems, SequenceTheorems, WellFoundedInduction

-----------------------------------------------------------------------------
(* The invariant.                                                          *)

\* The read procedure runs on a port, through the last list it was given.
ReadingFits ==
    /\ calls \in Seq(PacketLists) /\ Len(calls) <= MaxCalls
    /\ take \in 0 .. MaxTakes /\ made \in Nat
    /\ packets # <<>> => calls # <<>> /\ packets = calls[Len(calls)]
    /\ packets = <<>> => packet = 1 /\ offset = 1

\* Before the source is connected there is neither an event nor a call.
ClientFitsPort ==
    /\ client = "idle" => port \in {"none", "attached"} /\ (connected <=> port = "attached")
    /\ client = "connecting" => port \in {"created", "attached"} /\ ~connected
    /\ client = "disconnecting" => port = "created" /\ connected
    /\ port # "none" => take > 0
    /\ port = "none" => queue.count = 0 /\ packets = <<>>
    /\ client = "connecting" /\ port = "created" =>
         queue.count = 0 /\ packets = <<>> /\ calls = <<>>

\* The queue holds messages of this take that have been cut.
QueueFits ==
    /\ Contents(queue) \in Seq(Event)
    /\ \A i \in DOMAIN Contents(queue) : Contents(queue)[i].take = take
    /\ queue.count <= made

CoreInv == TypeOK /\ ReadingFits /\ ClientFitsPort /\ QueueFits

\* The events of the stream.
Held == ToSet(received) \cup ToSet(Contents(queue))

\* Every event was cut out of a packet, whole if it is a channel message.
CutWhole(e) ==
    /\ e.at[1] \in DOMAIN calls /\ e.at[2] \in DOMAIN calls[e.at[1]]
    /\ e.raw[1] < 240 =>
         <<e.at[3], e.at[3] + Len(e.raw) - 1>> \in WholeNotes(calls[e.at[1]][e.at[2]])

HeldFits ==
    \A e \in Held : e.take \in Nat /\ e.take <= take /\ (e.take = take => CutWhole(e))

\* FirstNotesKept of the events, in whichever order.
NotesHeld ==
    port = "attached" /\ made <= Capacity =>
        \A call \in DOMAIN calls : \A p \in DOMAIN calls[call] :
            \A w \in WholeNotes(calls[call][p]) : Passed(call, p, w[1]) =>
                \E e \in Held : e.take = take /\ e.at = <<call, p, w[1]>>

\* What was listed is what a source in s is named and is.
ListedFrom(entry, s) ==
    \E i \in DOMAIN s :
        /\ s[i].endpoint # 0 /\ entry.source = s[i]
        /\ entry.device_id = IF s[i].unique_id # 0 THEN <<"unique", s[i].unique_id>>
                             ELSE <<"index", i>>

ListingFits ==
    \A entry \in listing :
        /\ \E s \in SourceLists : ListedFrom(entry, s)
        /\ ~replugged => ListedFrom(entry, sources)

CoreMidiInv == CoreInv /\ HeldFits /\ NotesHeld /\ ListingFits /\ ConnectsTheListed

-----------------------------------------------------------------------------
(* queue_packet_bytes.                                                     *)

LEMMA ByteAt ==
    ASSUME NEW bytes \in Seq(Byte)
    PROVE  /\ Len(bytes) \in Nat /\ DOMAIN bytes = 1 .. Len(bytes)
           /\ \A i \in 1 .. Len(bytes) : bytes[i] \in Byte
BY LenProperties

LEMMA ByteRange ==
    ASSUME NEW b \in Byte
    PROVE  b \in Nat /\ 0 <= b /\ b <= 255
BY DEF Byte

LEMMA StatusKinds ==
    ASSUME NEW b \in Nat
    PROVE  /\ b \in ChannelStatus <=> 128 <= b /\ b < 240
           /\ b \in ShortStatus => b \in ChannelStatus
           /\ DataBytes(b) \in {1, 2}
           /\ DataBytes(b) = IF b \in ShortStatus THEN 1 ELSE 2
BY DEF ChannelStatus, ShortStatus, DataBytes


LEMMA SmallestIn ==
    ASSUME NEW T, T \subseteq Nat, T # {}
    PROVE  Min(T) \in T /\ \A n \in T : Min(T) <= n
<1>1. PICK m \in T : \A n \in T : ~ (<<n, m>> \in OpToRel(<, Nat))
  BY WFMin, NatLessThanWellFounded, Zenon
<1>2. ASSUME NEW n \in T PROVE m <= n
  <2>1. m \in Nat /\ n \in Nat
    OBVIOUS
  <2>2. ~ (n < m)
    BY <1>1, <2>1, Zenon DEF OpToRel
  <2> QED BY <2>1, <2>2
<1> QED BY <1>2 DEF Min

\* A message that begins at `first' ends with its data, or, as a SysEx, with
\* its end or the packet.
LEMMA MessageEnds ==
    ASSUME NEW bytes \in Seq(Byte), NEW first \in 1 .. Len(bytes), bytes[first] >= 128,
           NEW length, length = MessageLength(bytes, first)
    PROVE  /\ length \in Nat \ {0}
           /\ bytes[first] < 240 => length = 1 + DataBytes(bytes[first])
           /\ bytes[first] > 240 => length = 1
           /\ bytes[first] = 240 =>
                /\ first + length - 1 <= Len(bytes)
                /\ \A i \in first + 1 .. Len(bytes) :
                     bytes[i] = 247 => first + length - 1 <= i
<1> DEFINE Ends == {i \in first + 1 .. Len(bytes) : bytes[i] = 247}
<1>1. /\ bytes[first] \in Byte /\ bytes[first] \in Nat /\ bytes[first] <= 255
      /\ Len(bytes) \in Nat /\ first \in Nat /\ 1 <= first /\ first <= Len(bytes)
  BY ByteAt, ByteRange
<1>2. CASE bytes[first] = 240 /\ Ends = {}
  <2>1. length = Len(bytes) + 1 - first
    BY <1>2 DEF MessageLength
  <2> QED BY <1>1, <1>2, <2>1
<1>3. CASE bytes[first] = 240 /\ Ends # {}
  <2>1. length = Min(Ends) + 1 - first
    BY <1>3 DEF MessageLength
  <2>2. Min(Ends) \in Ends /\ \A n \in Ends : Min(Ends) <= n
    <3>1. Ends \subseteq Nat
      BY <1>1
    <3> HIDE DEF Ends
    <3> QED BY <1>3, <3>1, SmallestIn
  <2>3. PICK m \in Ends : m = Min(Ends) /\ \A n \in Ends : m <= n
    <3> HIDE DEF Ends
    <3> QED BY <2>2
  <2>4. /\ m \in Nat /\ first + 1 <= m /\ m <= Len(bytes)
        /\ length \in Nat \ {0} /\ first + length - 1 = m
    <3>1. m \in Nat /\ first + 1 <= m /\ m <= Len(bytes)
      BY <1>1, <2>3
    <3>2. length = m + 1 - first
      <4> HIDE DEF Ends
      <4> QED BY <2>1, <2>3
    <3> QED BY <1>1, <3>1, <3>2
  <2>5. \A i \in first + 1 .. Len(bytes) : bytes[i] = 247 => m <= i
    BY <2>3
  <2> HIDE DEF Ends
  <2> QED BY <1>3, <2>4, <2>5
<1>4. CASE bytes[first] # 240
  <2>1. length = IF bytes[first] > 240 THEN 1
                 ELSE IF bytes[first] \in ShortStatus THEN 2 ELSE 3
    BY <1>4 DEF MessageLength
  <2> QED BY <1>1, <1>4, <2>1, StatusKinds
<1> QED BY <1>2, <1>3, <1>4

\* The packet being cut.
LEMMA BytesFit ==
    ASSUME CoreInv, packets # <<>>
    PROVE  /\ packets \in PacketLists /\ packet \in DOMAIN packets
           /\ Bytes \in Seq(Byte) /\ HoldsMessages(Bytes)
           /\ offset \in 1 .. Len(Bytes) + 1
           /\ Len(calls) \in DOMAIN calls /\ calls[Len(calls)] = packets
           /\ Len(calls) \in 1 .. MaxCalls
<1>1. packets \in PacketLists /\ packet \in Nat \ {0} /\ packet <= Len(packets)
  BY DEF CoreInv, TypeOK
<1>2. packets \in Seq(Seq(Byte))
  BY <1>1, CoreMidiAssumption
<1>3. packet \in DOMAIN packets /\ Bytes \in Seq(Byte)
  BY <1>1, <1>2, LenProperties DEF Bytes
<1>4. HoldsMessages(Bytes)
  BY <1>1, <1>3, CoreMidiAssumption DEF Bytes
<1>5. offset \in 1 .. Len(Bytes) + 1
  BY <1>3 DEF CoreInv, TypeOK
<1>6. /\ calls \in Seq(PacketLists) /\ Len(calls) <= MaxCalls
      /\ calls # <<>> /\ packets = calls[Len(calls)]
  BY DEF CoreInv, ReadingFits
<1>7. Len(calls) \in DOMAIN calls /\ Len(calls) \in 1 .. MaxCalls
  BY <1>6, LenProperties, EmptySeq, CoreMidiAssumption
<1> QED BY <1>1, <1>3, <1>4, <1>5, <1>6, <1>7

\* The next message: nothing is skipped but data, and it is whole.
LEMMA NextMessage ==
    ASSUME NEW bytes, bytes = Bytes, bytes \in Seq(Byte), HoldsMessages(bytes),
           offset \in 1 .. Len(bytes) + 1, Statuses # {},
           NEW first, first = FirstByte, NEW last, last = LastByte
    PROVE  /\ first \in 1 .. Len(bytes) /\ offset <= first /\ bytes[first] >= 128
           /\ \A i \in offset .. first - 1 : bytes[i] < 128
           /\ last \in Int /\ first <= last
           /\ bytes[first] < 240 => last = first + DataBytes(bytes[first])
           /\ \A i \in first + 1 .. last :
                i <= Len(bytes) => ~(bytes[i] \in ChannelStatus)
           /\ bytes[first] < 240 /\ last <= Len(bytes) => <<first, last>> \in WholeNotes(bytes)
<1>1. Len(bytes) \in Nat /\ DOMAIN bytes = 1 .. Len(bytes) /\ offset \in Nat \ {0}
  BY LenProperties
<1>2. Statuses = {i \in offset .. Len(bytes) : bytes[i] >= 128}
  BY DEF Statuses
<1>3. first \in Statuses /\ \A i \in Statuses : first <= i
  <2>1. Statuses \subseteq Nat
    BY <1>1, <1>2
  <2> QED BY <2>1, SmallestIn DEF FirstByte
<1>4. /\ first \in 1 .. Len(bytes) /\ offset <= first /\ bytes[first] >= 128
      /\ bytes[first] \in Nat /\ bytes[first] <= 255
  BY <1>1, <1>2, <1>3, ByteAt, ByteRange
<1>5. ASSUME NEW i \in offset .. first - 1
      PROVE  bytes[i] < 128
  <2>1. i \in 1 .. Len(bytes) /\ i < first
    BY <1>1, <1>4
  <2>2. bytes[i] \in Nat
    BY <2>1, ByteAt, ByteRange
  <2>3. ~(bytes[i] >= 128)
    BY <1>2, <1>3, <2>1
  <2> QED BY <2>2, <2>3
<1>6. PICK length \in Nat \ {0} :
        /\ length = MessageLength(bytes, first) /\ last = first + length - 1
        /\ bytes[first] < 240 => length = 1 + DataBytes(bytes[first])
        /\ bytes[first] > 240 => length = 1
        /\ bytes[first] = 240 =>
             \A i \in first + 1 .. Len(bytes) : bytes[i] = 247 => last <= i
  <2>1. last = first + MessageLength(bytes, first) - 1
    BY DEF LastByte, FirstByte
  <2> QED BY <1>4, <2>1, MessageEnds
<1>7. DataBytes(bytes[first]) \in {1, 2}
  BY DEF DataBytes
<1>8. last \in Int /\ first <= last
      /\ (bytes[first] < 240 => last = first + DataBytes(bytes[first]))
  BY <1>4, <1>6, <1>7
<1>9. ASSUME NEW i \in first + 1 .. last, i <= Len(bytes)
      PROVE  /\ ~(bytes[i] \in ChannelStatus)
             /\ bytes[first] < 240 => bytes[i] < 128
  <2>1. /\ i \in DOMAIN bytes /\ first \in DOMAIN bytes /\ first < i /\ i <= last
        /\ bytes[i] \in Nat /\ i \in Nat /\ first \in Nat /\ last \in Int
    BY <1>1, <1>4, <1>8, <1>9, ByteAt, ByteRange
  <2>2. bytes[i] >= 128 =>
          /\ bytes[first] \in ChannelStatus => i > first + DataBytes(bytes[first])
          /\ bytes[first] = 240 => \E end \in first + 1 .. i : bytes[end] = 247
    BY <2>1 DEF HoldsMessages
  <2>3. CASE bytes[first] < 240
    <3>1. bytes[first] \in ChannelStatus
      BY <1>4, <2>3, StatusKinds
    <3>2. i <= first + DataBytes(bytes[first])
      BY <1>8, <2>1, <2>3
    <3>3. bytes[i] < 128
      BY <1>7, <2>1, <2>2, <3>1, <3>2
    <3> QED BY <2>1, <3>3, StatusKinds
  <2>4. CASE bytes[first] = 240 /\ bytes[i] \in ChannelStatus
    <3>1. PICK end \in first + 1 .. i : bytes[end] = 247
      BY <2>1, <2>2, <2>4, StatusKinds
    <3>2. end \in first + 1 .. Len(bytes) /\ end <= i
      BY <1>4, <1>9, <2>1, <3>1
    <3>3. last <= end
      BY <1>6, <2>4, <3>1, <3>2
    <3>4. end = i
      BY <1>4, <2>1, <3>2, <3>3, <1>8
    <3> QED BY <2>1, <2>4, <3>1, <3>4, StatusKinds
  <2>5. CASE bytes[first] > 240
    BY <1>4, <1>6, <2>1, <2>5
  <2> QED BY <1>4, <2>1, <2>3, <2>4, <2>5
<1>10. ASSUME bytes[first] < 240, last <= Len(bytes)
       PROVE  <<first, last>> \in WholeNotes(bytes)
  <2>1. last \in 1 .. Len(bytes) /\ bytes[first] \in ChannelStatus
    BY <1>1, <1>4, <1>8, <1>10, StatusKinds
  <2>2. \A k \in first + 1 .. last : bytes[k] < 128
    BY <1>4, <1>8, <1>9, <1>10
  <2> QED BY <1>4, <1>8, <1>10, <2>1, <2>2 DEF WholeNotes
<1> QED BY <1>4, <1>5, <1>8, <1>9, <1>10

-----------------------------------------------------------------------------
(* Types, fields and queue.                                                *)

\* What an action that does not touch it leaves as it was.
LEMMA SameReading ==
    ASSUME CoreInv, UNCHANGED <<reading, calls, take, made>>
    PROVE  /\ ReadingFits'
           /\ (packets \in PacketLists \cup {<<>>})' /\ (packet \in Nat \ {0})'
           /\ (offset \in Nat \ {0})'
           /\ (packets # <<>> => packet <= Len(packets) /\ offset <= Len(Bytes) + 1)'
BY DEF CoreInv, TypeOK, ReadingFits, reading, Bytes

LEMMA SameQueue ==
    ASSUME CoreInv, UNCHANGED <<queue, take, made>>
    PROVE  QueueFits' /\ (queue \in Rings(Event \cup {ZeroEvent}))'
BY DEF CoreInv, TypeOK, QueueFits, Contents

LEMMA EmptyQueue ==
    ASSUME NEW ring \in Rings(Event \cup {ZeroEvent}), ring.count = 0
    PROVE  Contents(ring) = <<>>
BY ContentsType, EmptySeq

LEMMA EmptyQueueFits ==
    ASSUME queue' \in Rings(Event \cup {ZeroEvent}), queue'.count = 0, made' \in Nat
    PROVE  QueueFits'
<1>1. Contents(queue') = <<>>
  BY EmptyQueue
<1>2. Contents(queue)' = <<>>
  BY <1>1
<1> QED BY <1>2 DEF QueueFits

LEMMA ZeroedRing == ZeroRing(ZeroEvent) \in Rings(Event \cup {ZeroEvent})
                    /\ ZeroRing(ZeroEvent).count = 0
BY CapacityAssumption DEF ZeroRing, Rings, Slots

LEMMA CoreInit == ASSUME Init PROVE CoreInv
<1>1. queue \in Rings(Event \cup {ZeroEvent}) /\ queue.count = 0
  BY ZeroedRing DEF Init
<1>2. Contents(queue) = <<>>
  BY <1>1, EmptyQueue
<1>3. QueueFits
  BY <1>1, <1>2 DEF Init, QueueFits
<1>4. ReadingFits
  BY CoreMidiAssumption DEF Init, ReadingFits
<1>5. ClientFitsPort
  BY <1>1 DEF Init, ClientFitsPort
<1>6. TypeOK
  <2>1. received \in Seq(Event)
    BY DEF Init
  <2>2. /\ connected \in BOOLEAN /\ replugged \in BOOLEAN
        /\ packets \in PacketLists \cup {<<>>} /\ sources \in SourceLists
        /\ (packets # <<>> => packet <= Len(packets) /\ offset <= Len(Bytes) + 1)
    BY DEF Init
  <2>3. /\ packet \in Nat \ {0} /\ offset \in Nat \ {0} /\ source = 0 /\ port = "none"
        /\ client = "idle"
    BY DEF Init
  <2> QED BY <1>1, <2>1, <2>2, <2>3 DEF TypeOK
<1> QED BY <1>3, <1>4, <1>5, <1>6 DEF CoreInv

LEMMA CoreReadProc ==
    ASSUME CoreInv, NEW list \in PacketLists, ReadProc(list)
    PROVE  CoreInv'
<1>1. QueueFits' /\ (queue \in Rings(Event \cup {ZeroEvent}))'
  BY SameQueue DEF ReadProc, handle
<1>2. packet = 1 /\ offset = 1 /\ calls \in Seq(PacketLists)
  BY DEF CoreInv, ReadingFits, ReadProc
<1>3. list \in Seq(Seq(Byte))
  BY CoreMidiAssumption
<1>4. list # <<>> => 1 <= Len(list) /\ list[1] \in Seq(Byte)
  BY <1>3, EmptySeq, LenProperties
<1>5. ReadingFits'
  <2>1. calls' \in Seq(PacketLists) /\ Len(calls') = Len(calls) + 1 /\ calls'[Len(calls')] = list
    BY <1>2 DEF ReadProc
  <2>2. calls' # <<>> /\ Len(calls') <= MaxCalls
    BY <1>2, <2>1, LenProperties, CoreMidiAssumption DEF ReadProc
  <2> QED BY <1>2, <2>1, <2>2 DEF CoreInv, ReadingFits, ReadProc
<1>6. ClientFitsPort'
  BY DEF CoreInv, ClientFitsPort, ReadProc, handle
<1>7. TypeOK'
  <2>1. packets' \in PacketLists \cup {<<>>} /\ packet' = 1 /\ offset' = 1
    BY <1>2 DEF ReadProc
  <2>2. packets' # <<>> => packet' <= Len(packets') /\ offset' <= Len(Bytes') + 1
    <3>1. packets' # <<>> => Bytes' = list[1]
      BY <2>1 DEF ReadProc, Bytes
    <3> QED BY <1>4, <2>1, <3>1, LenProperties DEF ReadProc
  <2> QED BY <1>1, <2>1, <2>2 DEF CoreInv, TypeOK, ReadProc, handle, world
<1> QED BY <1>1, <1>5, <1>6, <1>7 DEF CoreInv

\* The event a message makes.
NextEvent == RawEvent(take, Len(calls), packet, Bytes, FirstByte, LastByte)

\* The next message: nothing but data lies before it, no status inside it, and
\* it is whole if it is a channel message and fits the packet.
MessageFound(bytes, first, last) ==
    /\ first \in 1 .. Len(bytes) /\ offset <= first
    /\ \A i \in offset .. first - 1 : bytes[i] < 128
    /\ last \in Int /\ first <= last
    /\ bytes[first] < 240 => last = first + DataBytes(bytes[first])
    /\ \A i \in first + 1 .. last : i <= Len(bytes) => ~(bytes[i] \in ChannelStatus)
    /\ bytes[first] < 240 /\ last <= Len(bytes) => <<first, last>> \in WholeNotes(bytes)

LEMMA FirstFits ==
    ASSUME CoreInv, packets # <<>>
    PROVE  \E bytes, first, last :
             /\ bytes = Bytes /\ first = FirstByte /\ last = LastByte
             /\ bytes \in Seq(Byte) /\ Len(bytes) \in Nat
             /\ Statuses # {} => MessageFound(bytes, first, last)
<1>1. PICK bytes, first, last : bytes = Bytes /\ first = FirstByte /\ last = LastByte
  OBVIOUS
<1>2. /\ bytes \in Seq(Byte) /\ HoldsMessages(bytes) /\ offset \in 1 .. Len(bytes) + 1
      /\ Len(bytes) \in Nat
  BY <1>1, BytesFit, ByteAt
<1>3. ASSUME Statuses # {}
      PROVE  MessageFound(bytes, first, last)
  BY <1>1, <1>2, <1>3, NextMessage DEF MessageFound
<1> QED BY <1>1, <1>2, <1>3

LEMMA MessageFits ==
    ASSUME CoreInv, packets # <<>>, HasMessage
    PROVE  /\ FirstByte \in 1 .. Len(Bytes) /\ LastByte \in 1 .. Len(Bytes)
           /\ offset <= FirstByte /\ FirstByte <= LastByte
           /\ Len(Bytes) \in Nat /\ DOMAIN Bytes = 1 .. Len(Bytes)
           /\ Bytes[FirstByte] < 240 => <<FirstByte, LastByte>> \in WholeNotes(Bytes)
<1>1. PICK bytes, first, last :
        /\ bytes = Bytes /\ first = FirstByte /\ last = LastByte
        /\ bytes \in Seq(Byte) /\ Len(bytes) \in Nat
        /\ Statuses # {} => MessageFound(bytes, first, last)
  BY FirstFits
<1>2. Statuses # {} /\ last <= Len(bytes)
  BY <1>1 DEF HasMessage
<1>3. /\ first \in 1 .. Len(bytes) /\ offset <= first /\ last \in Int /\ first <= last
      /\ bytes[first] < 240 => <<first, last>> \in WholeNotes(bytes)
  BY <1>1, <1>2 DEF MessageFound
<1>4. last \in 1 .. Len(bytes)
  BY <1>1, <1>2, <1>3
<1> QED BY <1>1, <1>3, <1>4, ByteAt

LEMMA CutFromHas ==
    ASSUME NEW bytes, NEW p, NEW t \in 1 .. MaxTakes, NEW call \in 1 .. MaxCalls,
           NEW first \in DOMAIN bytes, NEW last \in DOMAIN bytes
    PROVE  RawEvent(t, call, p, bytes, first, last) \in CutFrom(bytes, p)
BY DEF CutFrom

LEMMA CutEvent ==
    ASSUME CoreInv, packets # <<>>, HasMessage
    PROVE  NextEvent \in Event
<1>1. /\ packets \in PacketLists /\ packet \in DOMAIN packets /\ Len(calls) \in 1 .. MaxCalls
  BY BytesFit
<1>2. FirstByte \in DOMAIN Bytes /\ LastByte \in DOMAIN Bytes
  BY MessageFits
<1>3. take \in 1 .. MaxTakes
  BY CoreMidiAssumption DEF CoreInv, ReadingFits, ClientFitsPort
<1>4. NextEvent \in CutFrom(Bytes, packet)
  BY <1>1, <1>2, <1>3, CutFromHas DEF NextEvent
<1>5. CutFrom(Bytes, packet) = CutFrom(packets[packet], packet)
  BY DEF Bytes
<1> QED BY <1>1, <1>4, <1>5 DEF Event

\* The message is queued or dropped.
LEMMA QueueEventEffect ==
    ASSUME CoreInv, QueueEvent
    PROVE  /\ NextEvent \in Event
           /\ queue' \in Rings(Event \cup {ZeroEvent})
           /\ queue.count < Capacity =>
                /\ queue'.count = queue.count + 1
                /\ Contents(queue)' = Append(Contents(queue), NextEvent)
           /\ queue.count >= Capacity => queue' = queue
<1>1. NextEvent \in Event
  BY CutEvent DEF QueueEvent
<1>2. queue' = Pushed(queue, NextEvent) /\ queue \in Rings(Event \cup {ZeroEvent})
  BY DEF QueueEvent, NextEvent, CoreInv, TypeOK
<1>3. queue.count \in Nat /\ Capacity \in Nat
  BY <1>2, CapacityAssumption DEF Rings
<1>4. CASE queue.count < Capacity
  <2>1. /\ queue' \in Rings(Event \cup {ZeroEvent}) /\ queue'.count = queue.count + 1
        /\ Contents(queue') = Append(Contents(queue), NextEvent)
    BY <1>1, <1>2, <1>4, PushedRing
  <2>2. Contents(queue)' = Contents(queue')
    OBVIOUS
  <2> QED BY <1>1, <1>3, <1>4, <2>1, <2>2
<1>5. CASE ~(queue.count < Capacity)
  <2>1. queue' = queue
    BY <1>2, <1>5 DEF Pushed
  <2> QED BY <1>1, <1>2, <1>3, <1>5, <2>1
<1> QED BY <1>4, <1>5

LEMMA CoreQueueEvent ==
    ASSUME CoreInv, QueueEvent
    PROVE  CoreInv'
<1>1. /\ NextEvent \in Event /\ queue' \in Rings(Event \cup {ZeroEvent})
      /\ queue.count < Capacity =>
           /\ queue'.count = queue.count + 1
           /\ Contents(queue)' = Append(Contents(queue), NextEvent)
      /\ queue.count >= Capacity => queue' = queue
  BY QueueEventEffect
<1>2. /\ queue \in Rings(Event \cup {ZeroEvent}) /\ queue.count \in Nat /\ Capacity \in Nat
      /\ Contents(queue) \in Seq(Event) /\ queue.count <= made /\ made \in Nat
      /\ take' = take /\ made' = made + 1
  BY CapacityAssumption DEF CoreInv, TypeOK, QueueFits, ReadingFits, Rings, QueueEvent
<1>3. QueueFits'
  <2>1. CASE queue.count < Capacity
    <3>1. Contents(queue)' \in Seq(Event)
      BY <1>1, <1>2, <2>1
    <3>2. ASSUME NEW i \in DOMAIN Contents(queue)'
          PROVE  Contents(queue)'[i].take = take
      <4>1. /\ Contents(queue)' = Append(Contents(queue), NextEvent)
            /\ i \in 1 .. Len(Contents(queue)) + 1
        BY <1>1, <1>2, <2>1, <3>2, <3>1, LenProperties, AppendProperties
      <4>2. CASE i \in 1 .. Len(Contents(queue))
        <5>1. Contents(queue)'[i] = Contents(queue)[i] /\ i \in DOMAIN Contents(queue)
          BY <1>1, <1>2, <4>1, <4>2, AppendProperties, LenProperties
        <5> QED BY <5>1 DEF CoreInv, QueueFits
      <4>3. CASE i = Len(Contents(queue)) + 1
        <5>1. Contents(queue)'[i] = NextEvent
          BY <1>1, <1>2, <4>1, <4>3, AppendProperties
        <5> QED BY <5>1 DEF NextEvent, RawEvent
      <4> QED BY <1>2, <4>1, <4>2, <4>3, LenProperties
    <3>3. queue'.count <= made'
      BY <1>1, <1>2, <2>1
    <3> QED BY <1>2, <3>1, <3>2, <3>3 DEF QueueFits
  <2>2. CASE queue.count >= Capacity
    <3>1. queue' = queue /\ queue'.count <= made'
      BY <1>1, <1>2, <2>2
    <3>2. Contents(queue)' = Contents(queue)
      BY <3>1 DEF Contents
    <3> QED BY <1>2, <3>1, <3>2 DEF CoreInv, QueueFits
  <2> QED BY <1>2, <2>1, <2>2
<1>4. ReadingFits'
  BY <1>2 DEF CoreInv, ReadingFits, QueueEvent
<1>5. ClientFitsPort'
  BY DEF CoreInv, ClientFitsPort, QueueEvent
<1>6. TypeOK'
  <2>2. LastByte \in 1 .. Len(Bytes) /\ Len(Bytes) \in Nat
    BY MessageFits DEF QueueEvent
  <2>3. offset' \in Nat \ {0} /\ offset' <= Len(Bytes) + 1
    BY <2>2 DEF QueueEvent
  <2>4. packets' = packets /\ packet' = packet /\ Bytes' = Bytes
    BY DEF QueueEvent, Bytes
  <2> QED BY <1>1, <2>3, <2>4 DEF CoreInv, TypeOK, QueueEvent, world
<1> QED BY <1>3, <1>4, <1>5, <1>6 DEF CoreInv

LEMMA CoreNextPacket ==
    ASSUME CoreInv, NextPacket
    PROVE  CoreInv'
<1>1. QueueFits' /\ (queue \in Rings(Event \cup {ZeroEvent}))'
  BY SameQueue DEF NextPacket, handle, history
<1>2. /\ packets \in PacketLists /\ packet \in DOMAIN packets /\ packets \in Seq(Seq(Byte))
      /\ packet \in Nat /\ Len(packets) \in Nat /\ DOMAIN packets = 1 .. Len(packets)
  <2>1. packets \in PacketLists /\ packet \in DOMAIN packets
    BY BytesFit DEF NextPacket
  <2> QED BY <2>1, CoreMidiAssumption, LenProperties
<1>3. ReadingFits'
  BY DEF CoreInv, ReadingFits, NextPacket, history
<1>4. ClientFitsPort'
  BY DEF CoreInv, ClientFitsPort, NextPacket, handle, history
<1>5. TypeOK'
  <2>1. offset' = 1
    BY DEF NextPacket
  <2>2. CASE packet < Len(packets)
    <3>1. packets' = packets /\ packet' = packet + 1
      BY <2>2 DEF NextPacket
    <3>2. packet' \in DOMAIN packets /\ packet' \in Nat \ {0} /\ packet' <= Len(packets)
      BY <1>2, <2>2, <3>1
    <3>3. Bytes' = packets[packet'] /\ packets[packet'] \in Seq(Byte)
      BY <1>2, <3>1, <3>2 DEF Bytes
    <3>4. offset' <= Len(Bytes') + 1
      BY <2>1, <3>3, LenProperties
    <3> QED BY <1>1, <1>2, <2>1, <3>1, <3>2, <3>4
        DEF CoreInv, TypeOK, NextPacket, handle, world, history
  <2>3. CASE ~(packet < Len(packets))
    <3>1. packets' = <<>> /\ packet' = 1
      BY <2>3 DEF NextPacket
    <3> QED BY <1>1, <2>1, <3>1 DEF CoreInv, TypeOK, NextPacket, handle, world, history
  <2> QED BY <2>2, <2>3
<1> QED BY <1>1, <1>3, <1>4, <1>5 DEF CoreInv

\* Replug, ListPorts, ConnectSource, ConnectDone, DisconnectSource and stuttering.
LEMMA CoreOthers ==
    ASSUME CoreInv, UNCHANGED <<queue, reading, calls, take, made, received>>,
           ClientFitsPort',
           sources' \in SourceLists, replugged' \in BOOLEAN, connected' \in BOOLEAN,
           port' \in {"none", "created", "attached"}, source' = 0 <=> port' = "none",
           client' \in {"idle", "connecting", "disconnecting"}
    PROVE  CoreInv'
<1>1. QueueFits' /\ (queue \in Rings(Event \cup {ZeroEvent}))'
  BY SameQueue
<1>2. /\ ReadingFits'
      /\ (packets \in PacketLists \cup {<<>>})' /\ (packet \in Nat \ {0})'
      /\ (offset \in Nat \ {0})'
      /\ (packets # <<>> => packet <= Len(packets) /\ offset <= Len(Bytes) + 1)'
  BY SameReading
<1>3. (received \in Seq(Event))'
  BY DEF CoreInv, TypeOK
<1>4. TypeOK'
  BY <1>1, <1>2, <1>3 DEF TypeOK
<1> QED BY <1>1, <1>2, <1>4 DEF CoreInv

LEMMA CoreReplug == ASSUME CoreInv, Replug PROVE CoreInv'
<1>1. ClientFitsPort'
  BY DEF CoreInv, ClientFitsPort, Replug, handle, reading, history
<1> QED BY <1>1, CoreOthers DEF CoreInv, TypeOK, Replug, handle, history

LEMMA CoreListPorts == ASSUME CoreInv, ListPorts PROVE CoreInv'
<1>1. ClientFitsPort'
  BY DEF CoreInv, ClientFitsPort, ListPorts, handle, reading, history
<1> QED BY <1>1, CoreOthers DEF CoreInv, TypeOK, ListPorts, handle, history

LEMMA CoreConnectSource == ASSUME CoreInv, ConnectSource PROVE CoreInv'
<1>1. ClientFitsPort'
  BY DEF CoreInv, ClientFitsPort, ConnectSource, reading, history
<1> QED BY <1>1, CoreOthers DEF CoreInv, TypeOK, ConnectSource, world, history

LEMMA CoreConnectSourceFails == ASSUME CoreInv, ConnectSourceFails PROVE CoreInv'
<1>1. ClientFitsPort'
  BY DEF CoreInv, ClientFitsPort, ConnectSourceFails, reading, history
<1> QED BY <1>1, CoreOthers DEF CoreInv, TypeOK, ConnectSourceFails, world, history

LEMMA CoreConnectDone == ASSUME CoreInv, ConnectDone PROVE CoreInv'
<1>1. ClientFitsPort'
  BY DEF CoreInv, ClientFitsPort, ConnectDone, reading, history
<1> QED BY <1>1, CoreOthers DEF CoreInv, TypeOK, ConnectDone, world, history

LEMMA CoreDisconnectSource == ASSUME CoreInv, DisconnectSource PROVE CoreInv'
<1>1. ClientFitsPort'
  BY DEF CoreInv, ClientFitsPort, DisconnectSource, reading, history
<1> QED BY <1>1, CoreOthers DEF CoreInv, TypeOK, DisconnectSource, world, history

LEMMA CoreStutter == ASSUME CoreInv, UNCHANGED vars PROVE CoreInv'
<1>1. UNCHANGED <<handle, client, reading, world, listed, history>>
  BY DEF vars
<1>2. ClientFitsPort'
  BY <1>1 DEF CoreInv, ClientFitsPort, handle, reading, history
<1> QED BY <1>1, <1>2, CoreOthers DEF CoreInv, TypeOK, handle, world, history

\* The source that connect takes is one that was enumerated.
LEMMA FoundSource ==
    ASSUME CoreInv, NEW device_id, NEW Found,
           Found = {i \in DOMAIN sources :
                      sources[i].endpoint # 0 /\ EndpointDeviceId(i) = device_id},
           Found # {}
    PROVE  /\ Min(Found) \in Found /\ \A n \in Found : Min(Found) <= n
           /\ Min(Found) \in DOMAIN sources
           /\ sources[Min(Found)] \in [endpoint : Nat, unique_id : Nat]
           /\ sources[Min(Found)].endpoint # 0
           /\ EndpointDeviceId(Min(Found)) = device_id
<1>1. sources \in Seq([endpoint : Nat, unique_id : Nat])
  BY CoreMidiAssumption DEF CoreInv, TypeOK
<1>2. Found \subseteq Nat
  BY <1>1, LenProperties
<1>3. Min(Found) \in Found /\ \A n \in Found : Min(Found) <= n
  BY <1>2, SmallestIn
<1>4. PICK k : k = Min(Found)
  OBVIOUS
<1>5. k \in DOMAIN sources /\ sources[k].endpoint # 0 /\ EndpointDeviceId(k) = device_id
  BY <1>3, <1>4
<1>6. sources[k] \in [endpoint : Nat, unique_id : Nat]
  BY <1>1, <1>5, LenProperties
<1> QED BY <1>3, <1>4, <1>5, <1>6

LEMMA CoreConnectCreates ==
    ASSUME CoreInv, NEW device_id, ConnectCreates(device_id)
    PROVE  CoreInv'
<1> DEFINE Found == {i \in DOMAIN sources :
                        sources[i].endpoint # 0 /\ EndpointDeviceId(i) = device_id}
<1>1. Found # {} /\ source' = sources[Min(Found)].endpoint
  BY DEF ConnectCreates
<1>2. source' # 0
  BY <1>1, FoundSource
<1>3. /\ client = "idle" /\ ~connected /\ take < MaxTakes /\ port' = "created"
      /\ queue' = Cleared(queue) /\ client' = "connecting"
      /\ take' = take + 1 /\ calls' = <<>> /\ made' = 0
      /\ UNCHANGED <<connected, reading, world, received>>
  BY DEF ConnectCreates
<1> HIDE DEF Found
<1>4. queue' \in Rings(Event \cup {ZeroEvent}) /\ queue'.count = 0
  BY <1>3, ClearedRing DEF CoreInv, TypeOK
<1>5. QueueFits'
  BY <1>3, <1>4, EmptyQueueFits
<1>6. packets = <<>> /\ packet = 1 /\ offset = 1
  BY <1>3 DEF CoreInv, ClientFitsPort, ReadingFits
<1>7. take' \in 1 .. MaxTakes /\ take' > 0
  BY <1>3, CoreMidiAssumption DEF CoreInv, ReadingFits
<1>8. ReadingFits'
  BY <1>3, <1>6, <1>7, CoreMidiAssumption, EmptySeq DEF ReadingFits, reading
<1>9. ClientFitsPort'
  BY <1>3, <1>4, <1>6, <1>7 DEF ClientFitsPort, reading
<1>10. TypeOK'
  BY <1>2, <1>3, <1>4, <1>6 DEF CoreInv, TypeOK, reading, world
<1> QED BY <1>5, <1>8, <1>9, <1>10 DEF CoreInv

LEMMA CoreDisconnectDispose == ASSUME CoreInv, DisconnectDispose PROVE CoreInv'
<1>1. /\ packets = <<>> /\ port' = "none" /\ source' = 0 /\ connected' = FALSE
      /\ queue' \in {Cleared(queue), ZeroRing(ZeroEvent)} /\ client' = "idle"
      /\ UNCHANGED <<reading, world, calls, take, made, received>>
  BY DEF DisconnectDispose, history
<1>2. queue' \in Rings(Event \cup {ZeroEvent}) /\ queue'.count = 0
  BY <1>1, ClearedRing, ZeroedRing DEF CoreInv, TypeOK
<1>3. QueueFits'
  BY <1>1, <1>2, EmptyQueueFits DEF CoreInv, ReadingFits
<1>4. /\ ReadingFits'
      /\ (packets \in PacketLists \cup {<<>>})' /\ (packet \in Nat \ {0})'
      /\ (offset \in Nat \ {0})'
      /\ (packets # <<>> => packet <= Len(packets) /\ offset <= Len(Bytes) + 1)'
  BY <1>1, SameReading
<1>5. ClientFitsPort'
  BY <1>1, <1>2 DEF ClientFitsPort, reading
<1>6. TypeOK'
  BY <1>1, <1>2, <1>4 DEF CoreInv, TypeOK, world
<1> QED BY <1>3, <1>4, <1>5, <1>6 DEF CoreInv

\* A poll takes the oldest event.
LEMMA PollEventEffect ==
    ASSUME CoreInv, PollEvent
    PROVE  /\ Contents(queue) \in Seq(Event) /\ Contents(queue) # <<>>
           /\ queue' \in Rings(Event \cup {ZeroEvent})
           /\ queue'.count = queue.count - 1 /\ queue.count \in Nat \ {0}
           /\ Len(Contents(queue)) = queue.count
           /\ Contents(queue)' = Tail(Contents(queue))
           /\ received' = Append(received, Head(Contents(queue)))
           /\ Head(Contents(queue)) \in Event
<1>1. queue \in Rings(Event \cup {ZeroEvent}) /\ queue.count \in Nat /\ queue.count > 0
      /\ Contents(queue) \in Seq(Event)
  BY DEF CoreInv, TypeOK, QueueFits, PollEvent, Rings
<1>2. /\ Popped(queue) \in Rings(Event \cup {ZeroEvent})
      /\ Popped(queue).count = queue.count - 1
      /\ Contents(Popped(queue)) = Tail(Contents(queue))
      /\ Oldest(queue) = Head(Contents(queue))
      /\ Len(Contents(queue)) = queue.count
  BY <1>1, PoppedRing, ContentsType
<1>3. queue' = Popped(queue) /\ received' = Append(received, Oldest(queue))
  BY DEF PollEvent
<1>4. Contents(queue)' = Contents(queue')
  OBVIOUS
<1>5. Contents(queue) # <<>>
  BY <1>1, <1>2, EmptySeq
<1> QED BY <1>1, <1>2, <1>3, <1>4, <1>5, HeadTailProperties

LEMMA CorePollEvent == ASSUME CoreInv, PollEvent PROVE CoreInv'
<1>1. /\ Contents(queue) \in Seq(Event) /\ Contents(queue) # <<>>
      /\ queue' \in Rings(Event \cup {ZeroEvent})
      /\ queue'.count = queue.count - 1 /\ queue.count \in Nat \ {0}
      /\ Contents(queue)' = Tail(Contents(queue))
      /\ received' = Append(received, Head(Contents(queue)))
      /\ Head(Contents(queue)) \in Event
  BY PollEventEffect
<1>2. /\ client = "idle"
      /\ UNCHANGED <<connected, source, port, client, reading, world, calls, take, made>>
  BY DEF PollEvent
<1>3. QueueFits'
  <2>1. Contents(queue)' \in Seq(Event)
    BY <1>1, HeadTailProperties
  <2>2. ASSUME NEW i \in DOMAIN Contents(queue)'
        PROVE  Contents(queue)'[i].take = take
    <3>1. PICK s : s = Contents(queue)
      OBVIOUS
    <3>2. PICK k : k = i + 1
      OBVIOUS
    <3>3. /\ s \in Seq(Event) /\ s # <<>> /\ Contents(queue)' = Tail(s) /\ i \in DOMAIN Tail(s)
          /\ \A j \in DOMAIN s : s[j].take = take
      BY <1>1, <2>2, <3>1 DEF CoreInv, QueueFits
    <3>4. k \in DOMAIN s /\ Tail(s)[i] = s[k]
      BY <3>2, <3>3, HeadTailProperties, LenProperties
    <3> QED BY <3>3, <3>4
  <2>3. queue'.count <= made'
    BY <1>1, <1>2 DEF CoreInv, QueueFits, ReadingFits
  <2> QED BY <1>2, <2>1, <2>2, <2>3 DEF QueueFits
<1>4. /\ ReadingFits'
      /\ (packets \in PacketLists \cup {<<>>})' /\ (packet \in Nat \ {0})'
      /\ (offset \in Nat \ {0})'
      /\ (packets # <<>> => packet <= Len(packets) /\ offset <= Len(Bytes) + 1)'
  BY <1>2, SameReading
<1>5. ClientFitsPort'
  <2>1. port = "attached"
    BY <1>1, <1>2 DEF CoreInv, ClientFitsPort
  <2> QED BY <1>2, <2>1 DEF CoreInv, ClientFitsPort, reading
<1>6. TypeOK'
  <2>1. received' \in Seq(Event)
    BY <1>1 DEF CoreInv, TypeOK
  <2> QED BY <1>1, <1>2, <1>4, <2>1 DEF CoreInv, TypeOK, world
<1> QED BY <1>3, <1>4, <1>5, <1>6 DEF CoreInv

LEMMA CoreStep == ASSUME CoreInv, [Next]_vars PROVE CoreInv'
BY CoreReadProc, CoreQueueEvent, CoreNextPacket, CoreReplug, CoreListPorts, CoreConnectCreates,
   CoreConnectSource, CoreConnectSourceFails, CoreConnectDone, CoreDisconnectSource,
   CoreDisconnectDispose, CorePollEvent, CoreStutter DEF Next

-----------------------------------------------------------------------------
(* The events of the stream.                                               *)

LEMMA AppendedSet ==
    ASSUME NEW S, NEW s \in Seq(S), NEW e \in S
    PROVE  ToSet(Append(s, e)) = ToSet(s) \cup {e}
<1>1. PICK t : t = Append(s, e)
  OBVIOUS
<1>2. /\ t \in Seq(S) /\ Len(t) = Len(s) + 1 /\ Len(s) \in Nat
      /\ \A i \in 1 .. Len(s) : t[i] = s[i]
      /\ t[Len(s) + 1] = e
      /\ DOMAIN s = 1 .. Len(s) /\ DOMAIN t = 1 .. Len(s) + 1
  BY <1>1, AppendProperties, LenProperties
<1>3. ASSUME NEW i \in DOMAIN t PROVE t[i] \in ToSet(s) \cup {e}
  BY <1>2, <1>3 DEF ToSet
<1>4. ASSUME NEW i \in DOMAIN s PROVE s[i] \in ToSet(t)
  BY <1>2, <1>4 DEF ToSet
<1>5. e \in ToSet(t)
  BY <1>2 DEF ToSet
<1>6. ToSet(t) = ToSet(s) \cup {e}
  BY <1>3, <1>4, <1>5 DEF ToSet
<1> QED BY <1>1, <1>6

LEMMA TailSet ==
    ASSUME NEW S, NEW s \in Seq(S), s # <<>>
    PROVE  ToSet(s) = {Head(s)} \cup ToSet(Tail(s))
<1>1. PICK t : t = Tail(s)
  OBVIOUS
<1>2. /\ t \in Seq(S) /\ Len(t) = Len(s) - 1 /\ Len(s) \in Nat /\ Len(s) > 0 /\ Head(s) = s[1]
      /\ \A i \in 1 .. Len(t) : t[i] = s[i + 1]
      /\ DOMAIN s = 1 .. Len(s) /\ DOMAIN t = 1 .. Len(t)
  BY <1>1, HeadTailProperties, LenProperties, EmptySeq
<1>3. ASSUME NEW i \in DOMAIN t PROVE t[i] \in ToSet(s)
  <2>1. PICK k : k = i + 1
    OBVIOUS
  <2>2. k \in DOMAIN s /\ t[i] = s[k]
    BY <1>2, <2>1
  <2> QED BY <2>2 DEF ToSet
<1>4. ASSUME NEW i \in DOMAIN s PROVE s[i] = s[1] \/ s[i] \in ToSet(t)
  <2>1. CASE i = 1
    BY <2>1
  <2>2. CASE i # 1
    <3>1. PICK k : k = i - 1
      OBVIOUS
    <3>2. k \in DOMAIN t /\ k + 1 = i
      BY <1>2, <2>2, <3>1
    <3>3. t[k] = s[i]
      BY <1>2, <3>2
    <3> QED BY <3>2, <3>3 DEF ToSet
  <2> QED BY <2>1, <2>2
<1>5. s[1] \in ToSet(s)
  BY <1>2 DEF ToSet
<1>6. ToSet(s) = {s[1]} \cup ToSet(t)
  BY <1>3, <1>4, <1>5 DEF ToSet
<1> QED BY <1>1, <1>2, <1>6

LEMMA StreamSet == ASSUME CoreInv PROVE ToSet(Stream) = Held
<1>1. PICK a, b, s : a = received /\ b = Contents(queue) /\ s = a \o b
  OBVIOUS
<1>2. a \in Seq(Event) /\ b \in Seq(Event)
  BY <1>1 DEF CoreInv, TypeOK, QueueFits
<1>3. /\ s \in Seq(Event) /\ Len(s) = Len(a) + Len(b) /\ Len(a) \in Nat /\ Len(b) \in Nat
      /\ DOMAIN s = 1 .. Len(a) + Len(b) /\ DOMAIN a = 1 .. Len(a) /\ DOMAIN b = 1 .. Len(b)
      /\ \A i \in 1 .. Len(s) : s[i] = IF i <= Len(a) THEN a[i] ELSE b[i - Len(a)]
  BY <1>1, <1>2, ConcatProperties, LenProperties
<1>4. ASSUME NEW i \in DOMAIN s PROVE s[i] \in ToSet(a) \cup ToSet(b)
  <2>1. CASE i <= Len(a)
    <3>1. i \in DOMAIN a /\ s[i] = a[i]
      BY <1>3, <2>1
    <3> QED BY <3>1 DEF ToSet
  <2>2. CASE ~(i <= Len(a))
    <3>1. PICK k : k = i - Len(a)
      OBVIOUS
    <3>2. k \in DOMAIN b /\ s[i] = b[k]
      BY <1>3, <2>2, <3>1
    <3> QED BY <3>2 DEF ToSet
  <2> QED BY <2>1, <2>2
<1>5. ASSUME NEW i \in DOMAIN a PROVE a[i] \in ToSet(s)
  <2>1. i \in DOMAIN s /\ s[i] = a[i]
    BY <1>3
  <2> QED BY <2>1 DEF ToSet
<1>6. ASSUME NEW i \in DOMAIN b PROVE b[i] \in ToSet(s)
  <2>1. PICK k : k = i + Len(a)
    OBVIOUS
  <2>2. k \in DOMAIN s /\ i = k - Len(a) /\ ~(k <= Len(a))
    BY <1>3, <2>1
  <2>3. s[k] = b[i]
    BY <1>3, <2>2
  <2> QED BY <2>2, <2>3 DEF ToSet
<1>7. ToSet(s) = ToSet(a) \cup ToSet(b)
  BY <1>4, <1>5, <1>6 DEF ToSet
<1> QED BY <1>1, <1>7 DEF Stream, Held

LEMMA HeldQueueEvent ==
    ASSUME CoreInv, QueueEvent
    PROVE  /\ queue.count < Capacity => Held' = Held \cup {NextEvent}
           /\ Held' = Held \/ Held' = Held \cup {NextEvent}
<1>1. /\ NextEvent \in Event /\ queue.count \in Nat /\ Capacity \in Nat
      /\ queue.count < Capacity => Contents(queue)' = Append(Contents(queue), NextEvent)
      /\ queue.count >= Capacity => queue' = queue
      /\ Contents(queue) \in Seq(Event) /\ received' = received
  BY QueueEventEffect, CapacityAssumption DEF CoreInv, TypeOK, QueueFits, Rings, QueueEvent
<1>2. CASE queue.count < Capacity
  <2>1. ToSet(Contents(queue)') = ToSet(Contents(queue)) \cup {NextEvent}
    <3>1. PICK c, e : c = Contents(queue) /\ e = NextEvent
      OBVIOUS
    <3>2. c \in Seq(Event) /\ e \in Event /\ Contents(queue)' = Append(c, e)
      BY <1>1, <1>2, <3>1
    <3>3. ToSet(Append(c, e)) = ToSet(c) \cup {e}
      BY <3>2, AppendedSet
    <3> QED BY <3>1, <3>2, <3>3
  <2>2. Held' = ToSet(received) \cup ToSet(Contents(queue)')
    BY <1>1 DEF Held
  <2> QED BY <2>1, <2>2 DEF Held
<1>3. CASE queue.count >= Capacity
  <2>1. Contents(queue)' = Contents(queue)
    BY <1>1, <1>3 DEF Contents
  <2>2. Held' = Held
    BY <1>1, <2>1 DEF Held
  <2> QED BY <1>1, <1>3, <2>2
<1> QED BY <1>1, <1>2, <1>3

LEMMA HeldPollEvent == ASSUME CoreInv, PollEvent PROVE Held' = Held
<1>1. /\ Contents(queue) \in Seq(Event) /\ Contents(queue) # <<>>
      /\ Contents(queue)' = Tail(Contents(queue))
      /\ received' = Append(received, Head(Contents(queue)))
      /\ Head(Contents(queue)) \in Event /\ received \in Seq(Event)
  BY PollEventEffect DEF CoreInv, TypeOK
<1>2. ToSet(Contents(queue)) = {Head(Contents(queue))} \cup ToSet(Tail(Contents(queue)))
  BY <1>1, TailSet
<1>3. ToSet(received') = ToSet(received) \cup {Head(Contents(queue))}
  BY <1>1, AppendedSet
<1>4. Held' = ToSet(received') \cup ToSet(Contents(queue)')
  BY DEF Held
<1> QED BY <1>1, <1>2, <1>3, <1>4 DEF Held

LEMMA HeldSame == ASSUME UNCHANGED <<queue, received>> PROVE Held' = Held
BY DEF Held, Contents

\* Connecting and disconnecting empty the queue.
LEMMA HeldEmptied ==
    ASSUME CoreInv', queue'.count = 0, received' = received
    PROVE  Held' \subseteq Held
<1>1. Contents(queue') = <<>>
  BY EmptyQueue DEF CoreInv, TypeOK
<1>2. Contents(queue)' = <<>>
  BY <1>1
<1>3. Held' = ToSet(received) \cup ToSet(<<>>)
  BY <1>2 DEF Held
<1>4. ToSet(<<>>) = {}
  BY DEF ToSet
<1> QED BY <1>3, <1>4 DEF Held

-----------------------------------------------------------------------------
(* Every event is whole.                                                   *)

LEMMA HeldFitsSame ==
    ASSUME HeldFits, Held' \subseteq Held, UNCHANGED <<take, calls>>
    PROVE  HeldFits'
BY DEF HeldFits, CutWhole

\* An earlier call's packets stay what they were.
LEMMA EarlierCalls ==
    ASSUME CoreInv, NEW list \in PacketLists, ReadProc(list)
    PROVE  /\ DOMAIN calls' = 1 .. Len(calls) + 1 /\ DOMAIN calls = 1 .. Len(calls)
           /\ Len(calls) \in Nat /\ Len(calls') = Len(calls) + 1
           /\ \A call \in DOMAIN calls : calls'[call] = calls[call]
           /\ calls'[Len(calls) + 1] = list
<1>1. calls \in Seq(PacketLists) /\ calls' = Append(calls, list)
  BY DEF CoreInv, ReadingFits, ReadProc
<1> QED BY <1>1, AppendProperties, LenProperties

LEMMA HeldFitsReadProc ==
    ASSUME CoreInv, HeldFits, NEW list \in PacketLists, ReadProc(list)
    PROVE  HeldFits'
<1>1. Held' = Held /\ take' = take
  BY HeldSame DEF ReadProc, handle
<1>2. \A call \in DOMAIN calls : call \in DOMAIN calls' /\ calls'[call] = calls[call]
  BY EarlierCalls
<1>3. ASSUME NEW e, CutWhole(e) PROVE CutWhole(e)'
  BY <1>2, <1>3 DEF CutWhole
<1> QED BY <1>1, <1>3 DEF HeldFits

LEMMA NextEventWhole ==
    ASSUME CoreInv, packets # <<>>, HasMessage
    PROVE  /\ CutWhole(NextEvent) /\ NextEvent.take = take
           /\ NextEvent.at = <<Len(calls), packet, FirstByte>>
<1>1. PICK bytes, first, last, n :
        bytes = Bytes /\ first = FirstByte /\ last = LastByte /\ n = Len(calls)
  OBVIOUS
<1>2. /\ packet \in DOMAIN packets /\ n \in DOMAIN calls /\ calls[n] = packets
      /\ bytes \in Seq(Byte) /\ bytes = packets[packet]
  BY <1>1, BytesFit DEF Bytes
<1>3. /\ first \in 1 .. Len(bytes) /\ last \in 1 .. Len(bytes) /\ first <= last
      /\ bytes[first] < 240 => <<first, last>> \in WholeNotes(bytes)
      /\ Len(bytes) \in Nat
  BY <1>1, MessageFits
<1>4. PICK e : e = NextEvent
  OBVIOUS
<1>5. /\ e.take = take /\ e.at = <<n, packet, first>>
      /\ e.raw = SubSeq(bytes, first, last)
  BY <1>1, <1>4 DEF NextEvent, RawEvent
<1>6. e.at[1] = n /\ e.at[2] = packet /\ e.at[3] = first
  BY <1>5
<1>7. Len(e.raw) = last - first + 1 /\ e.raw[1] = bytes[first]
  <2>1. /\ Len(SubSeq(bytes, first, last)) = last - first + 1
        /\ \A i \in 1 .. last - first + 1 : SubSeq(bytes, first, last)[i] = bytes[first + i - 1]
    BY <1>2, <1>3, SubSeqProperties
  <2>2. 1 \in 1 .. last - first + 1 /\ first + 1 - 1 = first
    BY <1>3
  <2>3. SubSeq(bytes, first, last)[1] = bytes[first]
    BY <2>1, <2>2
  <2> QED BY <1>5, <2>1, <2>3
<1>8. e.at[3] + Len(e.raw) - 1 = last
  BY <1>3, <1>6, <1>7
<1>9. CutWhole(e)
  BY <1>2, <1>3, <1>6, <1>7, <1>8 DEF CutWhole
<1> QED BY <1>1, <1>4, <1>5, <1>9

LEMMA HeldFitsQueueEvent ==
    ASSUME CoreInv, HeldFits, QueueEvent
    PROVE  HeldFits'
<1>1. CutWhole(NextEvent) /\ NextEvent.take = take /\ take \in Nat
  BY NextEventWhole, CoreMidiAssumption DEF QueueEvent, CoreInv, ReadingFits
<1>2. Held' \subseteq Held \cup {NextEvent} /\ take' = take /\ calls' = calls
  BY HeldQueueEvent DEF QueueEvent
<1>3. ASSUME NEW e, CutWhole(e) PROVE CutWhole(e)'
  BY <1>2, <1>3 DEF CutWhole
<1>4. ASSUME NEW e \in Held'
      PROVE  e.take \in Nat /\ e.take <= take' /\ (e.take = take' => CutWhole(e)')
  <2>1. CASE e \in Held
    BY <1>2, <1>3, <2>1 DEF HeldFits
  <2>2. CASE e = NextEvent
    BY <1>1, <1>2, <1>3, <2>2
  <2> QED BY <1>2, <2>1, <2>2
<1> QED BY <1>4 DEF HeldFits

LEMMA HeldFitsConnect ==
    ASSUME CoreInv, CoreInv', HeldFits, NEW device_id, ConnectCreates(device_id)
    PROVE  HeldFits'
<1>1. Held' \subseteq Held
  <2>1. queue'.count = 0 /\ received' = received
    BY DEF ConnectCreates, Cleared
  <2> QED BY <2>1, HeldEmptied
<1>2. take' = take + 1 /\ take \in Nat
  BY CoreMidiAssumption DEF ConnectCreates, CoreInv, ReadingFits
<1>3. ASSUME NEW e \in Held'
      PROVE  e.take \in Nat /\ e.take <= take' /\ e.take # take'
  BY <1>1, <1>2 DEF HeldFits
<1> QED BY <1>3 DEF HeldFits

LEMMA HeldStep ==
    ASSUME CoreInv, CoreInv', HeldFits, [Next]_vars
    PROVE  HeldFits'
<1>1. CASE Replug \/ ListPorts \/ NextPacket
  <2>1. UNCHANGED <<queue, received, take, calls>>
    BY <1>1 DEF Replug, ListPorts, NextPacket, handle, history
  <2> QED BY <2>1, HeldSame, HeldFitsSame
<1>2. CASE ConnectSource \/ ConnectSourceFails \/ ConnectDone \/ DisconnectSource
  <2>1. UNCHANGED <<queue, received, take, calls>>
    BY <1>2 DEF ConnectSource, ConnectSourceFails, ConnectDone, DisconnectSource, history
  <2> QED BY <2>1, HeldSame, HeldFitsSame
<1>3. CASE DisconnectDispose
  <2>1. queue'.count = 0 /\ UNCHANGED <<received, take, calls>>
    BY <1>3 DEF DisconnectDispose, Cleared, ZeroRing, history
  <2> QED BY <2>1, HeldEmptied, HeldFitsSame
<1>4. CASE PollEvent
  <2>1. UNCHANGED <<take, calls>>
    BY <1>4 DEF PollEvent
  <2> QED BY <1>4, <2>1, HeldPollEvent, HeldFitsSame
<1>5. CASE UNCHANGED vars
  <2>1. UNCHANGED <<queue, received, take, calls>>
    BY <1>5 DEF vars, handle, history
  <2> QED BY <2>1, HeldSame, HeldFitsSame
<1> QED BY <1>1, <1>2, <1>3, <1>4, <1>5, HeldFitsReadProc, HeldFitsQueueEvent, HeldFitsConnect
    DEF Next

-----------------------------------------------------------------------------
(* No note is passed over.                                                 *)

\* The next whole note of the packet is the next message.
LEMMA NextNote ==
    ASSUME CoreInv, packets # <<>>
    PROVE  \A w \in WholeNotes(Bytes) : offset <= w[1] =>
               HasMessage /\ (w[1] <= LastByte => w[1] = FirstByte)
<1>1. PICK bytes, first, last :
        /\ bytes = Bytes /\ first = FirstByte /\ last = LastByte
        /\ bytes \in Seq(Byte) /\ Len(bytes) \in Nat
        /\ Statuses # {} => MessageFound(bytes, first, last)
  BY FirstFits
<1>2. bytes \in Seq(Byte) /\ Len(bytes) \in Nat /\ offset \in Nat
  BY <1>1 DEF CoreInv, TypeOK
<1>3. \A i \in 1 .. Len(bytes) : bytes[i] \in ChannelStatus =>
        bytes[i] \in Nat /\ 128 <= bytes[i] /\ bytes[i] < 240
  BY <1>2, ByteAt, ByteRange, StatusKinds
<1>4. SUFFICES ASSUME NEW w \in WholeNotes(Bytes), offset <= w[1]
               PROVE  HasMessage /\ (w[1] <= LastByte => w[1] = FirstByte)
  OBVIOUS
<1>5. PICK begin, end :
        /\ begin \in 1 .. Len(bytes) /\ end \in 1 .. Len(bytes)
        /\ w[1] = begin /\ bytes[begin] \in ChannelStatus
        /\ end = begin + DataBytes(bytes[begin])
  BY <1>1, <1>4 DEF WholeNotes
<1>6. bytes[begin] \in Nat /\ 128 <= bytes[begin] /\ bytes[begin] < 240 /\ offset <= begin
  BY <1>3, <1>4, <1>5
<1>7. Statuses # {}
  BY <1>1, <1>2, <1>5, <1>6 DEF Statuses
<1>8. /\ first \in 1 .. Len(bytes) /\ offset <= first
      /\ \A i \in offset .. first - 1 : bytes[i] < 128
      /\ last \in Int /\ first <= last
      /\ bytes[first] < 240 => last = first + DataBytes(bytes[first])
      /\ \A i \in first + 1 .. last : i <= Len(bytes) => ~(bytes[i] \in ChannelStatus)
  BY <1>1, <1>7 DEF MessageFound
<1>9. first <= begin
  BY <1>2, <1>5, <1>6, <1>8
<1>10. begin <= last => begin = first
  BY <1>5, <1>8, <1>9
<1>11. last <= Len(bytes)
  <2>1. CASE begin = first
    BY <1>5, <1>6, <1>8, <2>1
  <2>2. CASE begin # first
    BY <1>2, <1>5, <1>8, <1>10, <2>2
  <2> QED BY <2>1, <2>2
<1> QED BY <1>1, <1>5, <1>7, <1>10, <1>11 DEF HasMessage

\* Where a whole note of a call stands.
LEMMA NotePlace ==
    ASSUME CoreInv, NEW call \in DOMAIN calls, NEW p \in DOMAIN calls[call],
           NEW w \in WholeNotes(calls[call][p])
    PROVE  /\ call \in 1 .. Len(calls) /\ Len(calls) \in Nat
           /\ p \in 1 .. Len(calls[call]) /\ Len(calls[call]) \in Nat
           /\ w[1] \in 1 .. Len(calls[call][p]) /\ Len(calls[call][p]) \in Nat
<1>1. call \in 1 .. Len(calls) /\ Len(calls) \in Nat /\ calls[call] \in PacketLists
  BY LenProperties DEF CoreInv, ReadingFits
<1>2. PICK list : list = calls[call] /\ list \in Seq(Seq(Byte))
  BY <1>1, CoreMidiAssumption
<1>3. p \in 1 .. Len(list) /\ Len(list) \in Nat /\ list[p] \in Seq(Byte)
  BY <1>2, LenProperties
<1>4. PICK bytes : bytes = list[p]
  OBVIOUS
<1>5. Len(bytes) \in Nat /\ w \in WholeNotes(bytes)
  BY <1>2, <1>3, <1>4, LenProperties
<1>6. w[1] \in 1 .. Len(bytes)
  BY <1>5 DEF WholeNotes
<1> QED BY <1>1, <1>2, <1>3, <1>4, <1>5, <1>6

LEMMA NotesHeldSame ==
    ASSUME NotesHeld, Held \subseteq Held', UNCHANGED <<port, made, calls, take, reading>>
    PROVE  NotesHeld'
BY DEF NotesHeld, Passed, reading

LEMMA NotesHeldReadProc ==
    ASSUME CoreInv, NotesHeld, NEW list \in PacketLists, ReadProc(list)
    PROVE  NotesHeld'
<1>1. Held' = Held /\ UNCHANGED <<port, made, take>>
  BY HeldSame DEF ReadProc, handle
<1>2. /\ packets = <<>> /\ packet = 1 /\ offset = 1
      /\ packets' = list /\ packet' = 1 /\ offset' = 1
  BY DEF ReadProc, CoreInv, ReadingFits
<1>3. SUFFICES ASSUME port' = "attached", made' <= Capacity,
                      NEW call \in DOMAIN calls', NEW p \in DOMAIN calls'[call],
                      NEW w \in WholeNotes(calls'[call][p]), Passed(call, p, w[1])'
               PROVE  \E e \in Held' : e.take = take' /\ e.at = <<call, p, w[1]>>
  BY DEF NotesHeld
<1>4. CASE call \in DOMAIN calls
  <2>1. calls'[call] = calls[call]
    BY <1>4, EarlierCalls
  <2>2. Passed(call, p, w[1])
    BY <1>2 DEF Passed
  <2> QED BY <1>1, <1>3, <1>4, <2>1, <2>2 DEF NotesHeld
<1>5. CASE ~(call \in DOMAIN calls)
  <2>1. call = Len(calls) + 1 /\ calls'[call] = list /\ Len(calls') = call
    BY <1>3, <1>5, EarlierCalls
  <2>2. list \in Seq(Seq(Byte)) /\ p \in DOMAIN list /\ w \in WholeNotes(list[p])
    BY <1>3, <2>1, CoreMidiAssumption
  <2>3. list # <<>> /\ p \in Nat /\ 1 <= p /\ list[p] \in Seq(Byte)
    BY <2>2, LenProperties, EmptySeq
  <2>4. w[1] \in Nat /\ 1 <= w[1]
    <3>1. PICK bytes : bytes = list[p]
      OBVIOUS
    <3>2. Len(bytes) \in Nat /\ w \in WholeNotes(bytes)
      BY <2>2, <2>3, <3>1, LenProperties
    <3> QED BY <3>2 DEF WholeNotes
  <2>5. Len(calls) \in Nat
    BY EarlierCalls
  <2>6. ~(call < Len(calls'))
    BY <2>1, <2>5
  <2>7. ~Passed(call, p, w[1])'
    BY <1>2, <2>3, <2>4, <2>6 DEF Passed
  <2> QED BY <1>3, <2>7
<1> QED BY <1>4, <1>5

\* What a passed note of the packet being cut has to do with the step.
LEMMA NotesHeldQueueEvent ==
    ASSUME CoreInv, NotesHeld, QueueEvent
    PROVE  NotesHeld'
<1>1. /\ UNCHANGED <<port, calls, take, packets, packet>> /\ made' = made + 1
      /\ offset' = LastByte + 1 /\ packets # <<>> /\ HasMessage
  BY DEF QueueEvent
<1>2. SUFFICES ASSUME port' = "attached", made' <= Capacity,
                      NEW call \in DOMAIN calls', NEW p \in DOMAIN calls'[call],
                      NEW w \in WholeNotes(calls'[call][p]), Passed(call, p, w[1])'
               PROVE  \E e \in Held' : e.take = take' /\ e.at = <<call, p, w[1]>>
  BY DEF NotesHeld
<1>3. made \in Nat /\ Capacity \in Nat /\ queue.count \in Nat /\ queue.count <= made
  BY CapacityAssumption DEF CoreInv, ReadingFits, QueueFits, TypeOK, Rings
<1>4. made <= Capacity /\ queue.count < Capacity
  BY <1>1, <1>2, <1>3
<1>5. Held' = Held \cup {NextEvent} /\ NextEvent.take = take
      /\ NextEvent.at = <<Len(calls), packet, FirstByte>>
  BY <1>1, <1>4, HeldQueueEvent, NextEventWhole
<1>6. CASE Passed(call, p, w[1])
  BY <1>1, <1>2, <1>4, <1>5, <1>6 DEF NotesHeld
<1>7. CASE ~Passed(call, p, w[1])
  <2>1. /\ call \in 1 .. Len(calls) /\ Len(calls) \in Nat /\ w[1] \in Nat
        /\ p \in Nat
    BY <1>1, <1>2, NotePlace
  <2>2. packet \in Nat /\ offset \in Nat /\ LastByte \in Nat
    <3>1. LastByte \in 1 .. Len(Bytes) /\ Len(Bytes) \in Nat
      BY <1>1, MessageFits
    <3> QED BY <3>1 DEF CoreInv, TypeOK
  <2>3. call = Len(calls) /\ p = packet /\ offset <= w[1] /\ w[1] <= LastByte
    BY <1>1, <1>2, <1>7, <2>1, <2>2 DEF Passed
  <2>4. w \in WholeNotes(Bytes)
    BY <1>1, <1>2, <2>3, BytesFit DEF Bytes
  <2>5. w[1] = FirstByte
    BY <1>1, <2>3, <2>4, NextNote
  <2> QED BY <1>1, <1>5, <2>3, <2>5
<1> QED BY <1>6, <1>7

LEMMA NotesHeldNextPacket ==
    ASSUME CoreInv, NotesHeld, NextPacket
    PROVE  NotesHeld'
<1>1. /\ UNCHANGED <<queue, received, port, calls, take, made>>
      /\ offset' = 1 /\ packets # <<>> /\ ~HasMessage
  BY DEF NextPacket, handle, history
<1>2. SUFFICES ASSUME port' = "attached", made' <= Capacity,
                      NEW call \in DOMAIN calls', NEW p \in DOMAIN calls'[call],
                      NEW w \in WholeNotes(calls'[call][p]), Passed(call, p, w[1])'
               PROVE  \E e \in Held' : e.take = take' /\ e.at = <<call, p, w[1]>>
  BY DEF NotesHeld
<1>3. Held' = Held
  BY <1>1, HeldSame
<1>4. CASE Passed(call, p, w[1])
  BY <1>1, <1>2, <1>3, <1>4 DEF NotesHeld
<1>5. CASE ~Passed(call, p, w[1])
  <2>1. /\ call \in 1 .. Len(calls) /\ Len(calls) \in Nat /\ w[1] \in Nat /\ 1 <= w[1]
        /\ p \in 1 .. Len(calls[call]) /\ Len(calls[call]) \in Nat
    BY <1>1, <1>2, NotePlace
  <2>2. /\ packet \in Nat /\ offset \in Nat /\ packets = calls[Len(calls)]
    BY <1>1, BytesFit DEF CoreInv, TypeOK
  <2>3. call = Len(calls) /\ packet <= p /\ (p = packet => offset <= w[1])
    BY <1>1, <1>5, <2>1, <2>2 DEF Passed
  <2>4. p = packet
    <3>1. CASE packet < Len(packets)
      <4>1. packets' = packets /\ packet' = packet + 1
        BY <3>1 DEF NextPacket
      <4> QED BY <1>1, <1>2, <2>1, <2>2, <2>3, <4>1 DEF Passed
    <3>2. CASE ~(packet < Len(packets))
      BY <2>1, <2>2, <2>3, <3>2
    <3> QED BY <3>1, <3>2
  <2>5. w \in WholeNotes(Bytes)
    BY <1>1, <1>2, <2>2, <2>3, <2>4 DEF Bytes
  <2> QED BY <1>1, <2>3, <2>4, <2>5, NextNote
<1> QED BY <1>4, <1>5

LEMMA NotesStep ==
    ASSUME CoreInv, CoreInv', NotesHeld, [Next]_vars
    PROVE  NotesHeld'
<1>1. CASE Replug \/ ListPorts
  <2>1. UNCHANGED <<queue, received, port, made, calls, take, reading>>
    BY <1>1 DEF Replug, ListPorts, handle, history
  <2> QED BY <2>1, HeldSame, NotesHeldSame
<1>2. CASE ConnectSource
  <2>1. calls' = <<>>
    BY <1>2 DEF ConnectSource, CoreInv, ClientFitsPort, history
  <2> QED BY <2>1 DEF NotesHeld
<1>3. CASE ConnectDone
  <2>1. UNCHANGED <<queue, received, port, made, calls, take, reading>>
    BY <1>3 DEF ConnectDone, history
  <2> QED BY <2>1, HeldSame, NotesHeldSame
<1>4. CASE ConnectSourceFails \/ DisconnectSource \/ DisconnectDispose
  <2>1. port' # "attached"
    BY <1>4 DEF ConnectSourceFails, DisconnectSource, DisconnectDispose
  <2> QED BY <2>1 DEF NotesHeld
<1>5. ASSUME NEW device_id, ConnectCreates(device_id)
      PROVE  NotesHeld'
  <2>1. port' # "attached"
    BY <1>5 DEF ConnectCreates
  <2> QED BY <2>1 DEF NotesHeld
<1>6. CASE PollEvent
  <2>1. UNCHANGED <<port, made, calls, take, reading>>
    BY <1>6 DEF PollEvent
  <2> QED BY <1>6, <2>1, HeldPollEvent, NotesHeldSame
<1>7. CASE UNCHANGED vars
  <2>1. UNCHANGED <<queue, received, port, made, calls, take, reading>>
    BY <1>7 DEF vars, handle, history
  <2> QED BY <2>1, HeldSame, NotesHeldSame
<1> QED BY <1>1, <1>2, <1>3, <1>4, <1>5, <1>6, <1>7, NotesHeldReadProc, NotesHeldQueueEvent,
           NotesHeldNextPacket DEF Next

-----------------------------------------------------------------------------
(* The listed sources.                                                     *)

\* The unique ids a source in s and one in t share name one endpoint.
LEMMA SameUniqueId ==
    ASSUME NEW s \in SourceLists, NEW t \in SourceLists, NEW i \in DOMAIN s, NEW j \in DOMAIN t,
           s[i].unique_id # 0, s[i].unique_id = t[j].unique_id
    PROVE  s[i].endpoint = t[j].endpoint
BY CoreMidiAssumption

LEMMA ListingSame ==
    ASSUME ListingFits, UNCHANGED <<listing, sources, replugged>>
    PROVE  ListingFits'
BY DEF ListingFits, ListedFrom

LEMMA ListingReplug ==
    ASSUME ListingFits, Replug
    PROVE  ListingFits'
BY DEF ListingFits, Replug, listed

LEMMA ListingListPorts ==
    ASSUME CoreInv, ListPorts
    PROVE  ListingFits'
<1>1. sources \in SourceLists /\ sources' = sources
  BY DEF CoreInv, TypeOK, ListPorts
<1>2. ASSUME NEW entry \in listing' PROVE ListedFrom(entry, sources)
  <2>1. PICK i \in DOMAIN sources :
          /\ sources[i].endpoint # 0
          /\ entry = [device_id |-> EndpointDeviceId(i), source |-> sources[i]]
    BY <1>2 DEF ListPorts
  <2>2. entry.source = sources[i] /\ entry.device_id = EndpointDeviceId(i)
    BY <2>1
  <2> QED BY <2>1, <2>2 DEF ListedFrom, EndpointDeviceId
<1> QED BY <1>1, <1>2 DEF ListingFits

LEMMA ListingStep ==
    ASSUME CoreInv, ListingFits, [Next]_vars
    PROVE  ListingFits'
<1>1. ASSUME NEW list, ReadProc(list) PROVE ListingFits'
  BY <1>1, ListingSame DEF ReadProc, world, listed
<1>2. ASSUME NEW device_id, ConnectCreates(device_id) PROVE ListingFits'
  BY <1>2, ListingSame DEF ConnectCreates, world, listed
<1>3. CASE QueueEvent \/ NextPacket \/ PollEvent
  BY <1>3, ListingSame DEF QueueEvent, NextPacket, PollEvent, world, listed
<1>4. CASE \/ ConnectSource \/ ConnectSourceFails \/ ConnectDone \/ DisconnectSource
           \/ DisconnectDispose
  BY <1>4, ListingSame
  DEF ConnectSource, ConnectSourceFails, ConnectDone, DisconnectSource, DisconnectDispose,
      world, listed
<1>5. CASE UNCHANGED vars
  BY <1>5, ListingSame DEF vars, world, listed
<1> QED BY <1>1, <1>2, <1>3, <1>4, <1>5, ListingReplug, ListingListPorts DEF Next

LEMMA ConnectsStays ==
    ASSUME ConnectsTheListed, client' = "connecting" => client = "connecting",
           UNCHANGED <<chosen, listing>>,
           client' = "connecting" => source' = source,
           replugged' = replugged \/ replugged' = TRUE
    PROVE  ConnectsTheListed'
BY DEF ConnectsTheListed

\* A found source of a listed device id is the listed one.
LEMMA ConnectsFound ==
    ASSUME CoreInv, ListingFits, NEW device_id, ConnectCreates(device_id)
    PROVE  ConnectsTheListed'
<1> DEFINE Found == {i \in DOMAIN sources :
                        sources[i].endpoint # 0 /\ EndpointDeviceId(i) = device_id}
<1>1. Found # {} /\ source' = sources[Min(Found)].endpoint
  BY DEF ConnectCreates
<1>2. PICK k : k \in DOMAIN sources /\ EndpointDeviceId(k) = device_id
               /\ source' = sources[k].endpoint
  BY <1>1, FoundSource
<1>3. sources \in SourceLists
  BY DEF CoreInv, TypeOK
<1>4. listing' = listing /\ replugged' = replugged /\ chosen' = device_id
  BY DEF ConnectCreates, listed, world
<1> HIDE DEF Found
<1>5. ASSUME NEW entry \in listing, entry.device_id = device_id
      PROVE  source' = entry.source.endpoint \/ (replugged /\ entry.source.unique_id = 0)
  <2>1. CASE entry.source.unique_id # 0
    <3>1. PICK s \in SourceLists : ListedFrom(entry, s)
      BY <1>5 DEF ListingFits
    <3>2. PICK i \in DOMAIN s :
            /\ entry.source = s[i]
            /\ s[i].unique_id # 0 => entry.device_id = <<"unique", s[i].unique_id>>
      BY <3>1 DEF ListedFrom
    <3>3. device_id = <<"unique", s[i].unique_id>> /\ s[i].unique_id # 0
      BY <1>5, <2>1, <3>2
    <3>4. sources[k].unique_id # 0 /\ sources[k].unique_id = s[i].unique_id
      BY <1>2, <3>3 DEF EndpointDeviceId
    <3>5. s[i].endpoint = sources[k].endpoint
      BY <1>2, <1>3, <3>3, <3>4, SameUniqueId
    <3> QED BY <1>2, <3>2, <3>5
  <2>2. CASE entry.source.unique_id = 0 /\ ~replugged
    <3>1. ListedFrom(entry, sources)
      BY <1>5, <2>2 DEF ListingFits
    <3>2. PICK i \in DOMAIN sources :
            /\ entry.source = sources[i]
            /\ sources[i].unique_id = 0 => entry.device_id = <<"index", i>>
      BY <3>1 DEF ListedFrom
    <3>3. device_id = <<"index", i>>
      BY <1>5, <2>2, <3>2
    <3>4. k = i
      BY <1>2, <3>3 DEF EndpointDeviceId
    <3> QED BY <1>2, <3>2, <3>4
  <2> QED BY <2>1, <2>2 DEF CoreInv, TypeOK
<1> QED BY <1>4, <1>5 DEF ConnectsTheListed

LEMMA ConnectsStep ==
    ASSUME CoreInv, ListingFits, ConnectsTheListed, [Next]_vars
    PROVE  ConnectsTheListed'
<1>1. ASSUME NEW list, ReadProc(list) PROVE ConnectsTheListed'
  BY <1>1, ConnectsStays DEF ReadProc, handle, world, listed
<1>2. CASE QueueEvent
  BY <1>2, ConnectsStays DEF QueueEvent, world, listed
<1>3. CASE NextPacket
  BY <1>3, ConnectsStays DEF NextPacket, handle, world, listed, history
<1>4. CASE Replug
  BY <1>4, ConnectsStays DEF Replug, handle, listed, history
<1>5. CASE ListPorts
  <2>1. client' # "connecting"
    BY <1>5 DEF ListPorts
  <2> QED BY <2>1 DEF ConnectsTheListed
<1>6. CASE ConnectSource
  BY <1>6, ConnectsStays DEF ConnectSource, world, listed, history
<1>7. CASE ConnectSourceFails \/ ConnectDone \/ DisconnectSource \/ DisconnectDispose
  <2>1. client' # "connecting"
    BY <1>7 DEF ConnectSourceFails, ConnectDone, DisconnectSource, DisconnectDispose
  <2> QED BY <2>1 DEF ConnectsTheListed
<1>8. CASE PollEvent
  BY <1>8, ConnectsStays DEF PollEvent, world, listed
<1>9. CASE UNCHANGED vars
  BY <1>9, ConnectsStays DEF vars, handle, world, listed, history
<1> QED BY <1>1, <1>2, <1>3, <1>4, <1>5, <1>6, <1>7, <1>8, <1>9, ConnectsFound DEF Next

-----------------------------------------------------------------------------
(* The theorems.                                                           *)

LEMMA InvInit == Init => CoreMidiInv
<1> SUFFICES ASSUME Init PROVE CoreMidiInv
  OBVIOUS
<1>1. CoreInv
  BY CoreInit
<1>2. Held = {}
  <2>1. queue \in Rings(Event \cup {ZeroEvent}) /\ queue.count = 0
    BY ZeroedRing DEF Init
  <2>2. Contents(queue) = <<>> /\ received = <<>>
    BY <2>1, EmptyQueue DEF Init
  <2> QED BY <2>2 DEF Held, ToSet
<1>3. NotesHeld
  BY DEF Init, NotesHeld
<1>4. ListingFits /\ ConnectsTheListed
  BY DEF Init, ListingFits, ConnectsTheListed
<1> QED BY <1>1, <1>2, <1>3, <1>4 DEF CoreMidiInv, HeldFits

LEMMA InvStep == CoreMidiInv /\ [Next]_vars => CoreMidiInv'
<1> SUFFICES ASSUME CoreMidiInv, [Next]_vars PROVE CoreMidiInv'
  OBVIOUS
<1>1. CoreInv'
  BY CoreStep DEF CoreMidiInv
<1> QED BY <1>1, HeldStep, NotesStep, ListingStep, ConnectsStep DEF CoreMidiInv

LEMMA Invariance == Spec => []CoreMidiInv
BY InvInit, InvStep, PTL DEF Spec

\* The fields keep their ranges, whatever the packets.
THEOREM TypeCorrect == Spec => []TypeOK
<1>1. CoreMidiInv => TypeOK
  BY DEF CoreMidiInv, CoreInv
<1> QED BY <1>1, Invariance, PTL

\* midi_message_length and the walk of queue_packet_bytes never join, cut or
\* shift the channel messages of packets that hold messages.
THEOREM NotesWholeCorrect == Spec => []NotesAreWhole
<1>1. ASSUME CoreMidiInv PROVE NotesAreWhole
  <2>1. ASSUME NEW i \in DOMAIN Stream, Stream[i].take = take, Stream[i].raw[1] < 240
        PROVE  <<Stream[i].at[3], Stream[i].at[3] + Len(Stream[i].raw) - 1>>
                   \in WholeNotes(calls[Stream[i].at[1]][Stream[i].at[2]])
    <3>1. PICK e : e = Stream[i]
      OBVIOUS
    <3>2. e \in Held
      <4>1. ToSet(Stream) = Held
        BY <1>1, StreamSet DEF CoreMidiInv
      <4> QED BY <2>1, <3>1, <4>1 DEF ToSet
    <3>3. CutWhole(e)
      BY <1>1, <2>1, <3>1, <3>2 DEF CoreMidiInv, HeldFits
    <3> QED BY <2>1, <3>1, <3>3 DEF CutWhole
  <2> QED BY <2>1 DEF NotesAreWhole
<1> QED BY <1>1, Invariance, PTL

\* Until the ring can have overflowed, queue_packet_bytes passes over no whole
\* channel message, not even before connect has returned.
THEOREM FirstNotesCorrect == Spec => []FirstNotesKept
<1>1. ASSUME CoreMidiInv PROVE FirstNotesKept
  <2>1. ToSet(Stream) = Held
    BY <1>1, StreamSet DEF CoreMidiInv
  <2>2. ASSUME NEW e \in Held PROVE \E i \in DOMAIN Stream : Stream[i] = e
    BY <2>1, <2>2 DEF ToSet
  <2>3. SUFFICES ASSUME port = "attached", made <= Capacity,
                        NEW call \in DOMAIN calls, NEW p \in DOMAIN calls[call],
                        NEW w \in WholeNotes(calls[call][p]), Passed(call, p, w[1])
                 PROVE  \E i \in DOMAIN Stream :
                            Stream[i].take = take /\ Stream[i].at = <<call, p, w[1]>>
    BY DEF FirstNotesKept
  <2>4. PICK e \in Held : e.take = take /\ e.at = <<call, p, w[1]>>
    BY <1>1, <2>3 DEF CoreMidiInv, NotesHeld
  <2> QED BY <2>2, <2>4
<1> QED BY <1>1, Invariance, PTL

\* ht_midi_hal_connect and ht_midi_hal_disconnect clear the queue while no
\* read procedure can push: no event survives its connection.
THEOREM NoStaleEventCorrect == Spec => []NoStaleEvent
<1>1. CoreMidiInv => NoStaleEvent
  BY DEF CoreMidiInv, CoreInv, QueueFits, ClientFitsPort, NoStaleEvent
<1> QED BY <1>1, Invariance, PTL

\* endpoint_device_id names what find_source_by_id finds.
THEOREM ConnectsTheListedCorrect == Spec => []ConnectsTheListed
<1>1. CoreMidiInv => ConnectsTheListed
  BY DEF CoreMidiInv
<1> QED BY <1>1, Invariance, PTL

-----------------------------------------------------------------------------
(* The abstract queue.                                                     *)

LEMMA FifoInit == Init => Fifo!Init
<1> SUFFICES ASSUME Init PROVE Fifo!Init
  OBVIOUS
<1>1. queue \in Rings(Event \cup {ZeroEvent}) /\ queue.count = 0
  BY ZeroedRing DEF Init
<1>2. Contents(queue) = <<>> /\ received = <<>>
  BY <1>1, EmptyQueue DEF Init
<1>3. (queue.count > 0) = FALSE
  BY <1>1
<1> QED BY <1>2, <1>3 DEF Fifo!Init

\* A queued message is accepted, a dropped one changes nothing.
LEMMA FifoQueueEvent ==
    ASSUME CoreInv, QueueEvent
    PROVE  [Fifo!Next]_(Fifo!vars)
<1>1. /\ NextEvent \in Event
      /\ queue.count < Capacity =>
           /\ queue'.count = queue.count + 1
           /\ Contents(queue)' = Append(Contents(queue), NextEvent)
      /\ queue.count >= Capacity => queue' = queue
      /\ received' = received
  BY QueueEventEffect DEF QueueEvent
<1>2. /\ queue \in Rings(Event \cup {ZeroEvent}) /\ queue.count \in Nat /\ Capacity \in Nat
      /\ Len(Contents(queue)) = queue.count
  <2>1. queue \in Rings(Event \cup {ZeroEvent})
    BY DEF CoreInv, TypeOK
  <2>2. queue.count \in Nat /\ Capacity \in Nat
    BY <2>1, CapacityAssumption DEF Rings
  <2> QED BY <2>1, <2>2, ContentsType
<1>3. CASE queue.count < Capacity
  <2>1. (queue'.count > 0) = TRUE
    BY <1>1, <1>2, <1>3
  <2>2. Fifo!Accept(NextEvent)
    BY <1>1, <1>2, <1>3, <2>1 DEF Fifo!Accept
  <2> QED BY <1>1, <2>2 DEF Fifo!Next
<1>4. CASE queue.count >= Capacity
  <2>1. queue' = queue
    BY <1>1, <1>4
  <2>2. Contents(queue)' = Contents(queue)
    BY <2>1 DEF Contents
  <2> QED BY <1>1, <2>1, <2>2 DEF Fifo!vars
<1> QED BY <1>2, <1>3, <1>4

LEMMA FifoPollEvent ==
    ASSUME CoreInv, PollEvent
    PROVE  [Fifo!Next]_(Fifo!vars)
<1>1. /\ Contents(queue) \in Seq(Event) /\ Contents(queue) # <<>>
      /\ queue'.count = queue.count - 1 /\ queue.count \in Nat \ {0}
      /\ Len(Contents(queue)) = queue.count
      /\ Contents(queue)' = Tail(Contents(queue))
      /\ received' = Append(received, Head(Contents(queue)))
  BY PollEventEffect
<1>2. (queue'.count > 0) = (Tail(Contents(queue)) # <<>>)
  <2>1. PICK s : s = Contents(queue)
    OBVIOUS
  <2>2. Tail(s) \in Seq(Event) /\ Len(Tail(s)) = queue.count - 1
    BY <1>1, <2>1, HeadTailProperties
  <2>3. Tail(s) # <<>> <=> queue.count - 1 > 0
    BY <1>1, <2>2, EmptySeq
  <2> QED BY <1>1, <2>1, <2>3
<1>3. Fifo!Receive
  BY <1>1, <1>2 DEF Fifo!Receive
<1> QED BY <1>3 DEF Fifo!Next

LEMMA FifoEmptied ==
    ASSUME CoreInv', queue'.count = 0, received' = received
    PROVE  [Fifo!Next]_(Fifo!vars)
<1>1. Contents(queue') = <<>>
  BY EmptyQueue DEF CoreInv, TypeOK
<1>2. Contents(queue)' = <<>>
  BY <1>1
<1>3. (queue'.count > 0) = FALSE
  OBVIOUS
<1> QED BY <1>2, <1>3 DEF Fifo!Next, Fifo!Discard

LEMMA FifoSame ==
    ASSUME UNCHANGED <<queue, received>>
    PROVE  [Fifo!Next]_(Fifo!vars)
<1>1. Contents(queue)' = Contents(queue) /\ (queue'.count > 0) = (queue.count > 0)
  BY DEF Contents
<1> QED BY <1>1 DEF Fifo!vars

LEMMA FifoStep == CoreMidiInv /\ [Next]_vars => [Fifo!Next]_(Fifo!vars)
<1> SUFFICES ASSUME CoreMidiInv, [Next]_vars PROVE [Fifo!Next]_(Fifo!vars)
  OBVIOUS
<1>1. CoreInv /\ CoreInv'
  BY CoreStep DEF CoreMidiInv
<1>2. ASSUME NEW list, ReadProc(list) PROVE [Fifo!Next]_(Fifo!vars)
  BY <1>2, FifoSame DEF ReadProc, handle
<1>3. ASSUME NEW device_id, ConnectCreates(device_id) PROVE [Fifo!Next]_(Fifo!vars)
  BY <1>1, <1>3, FifoEmptied DEF ConnectCreates, Cleared
<1>4. CASE QueueEvent
  BY <1>1, <1>4, FifoQueueEvent
<1>5. CASE PollEvent
  BY <1>1, <1>5, FifoPollEvent
<1>6. CASE Replug \/ ListPorts \/ NextPacket
  BY <1>6, FifoSame DEF Replug, ListPorts, NextPacket, handle, history
<1>7. CASE ConnectSource \/ ConnectSourceFails \/ ConnectDone \/ DisconnectSource
  BY <1>7, FifoSame
  DEF ConnectSource, ConnectSourceFails, ConnectDone, DisconnectSource, history
<1>8. CASE DisconnectDispose
  <2>1. queue'.count = 0 /\ received' = received
    BY <1>8 DEF DisconnectDispose, Cleared, ZeroRing, history
  <2> QED BY <1>1, <2>1, FifoEmptied
<1>9. CASE UNCHANGED vars
  BY <1>9, FifoSame DEF vars, handle, history
<1> QED BY <1>2, <1>3, <1>4, <1>5, <1>6, <1>7, <1>8, <1>9 DEF Next

\* The ring and the lock of the CoreMIDI backend implement the same bounded
\* first-in first-out queue as those of the WinMM backend.
THEOREM Refinement == Spec => ImplementsFifo
  BY FifoInit, FifoStep, Invariance, PTL DEF Spec, ImplementsFifo, Fifo!Spec
=============================================================================
