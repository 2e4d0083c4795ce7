------------------------- MODULE MidiCapture_proofs -------------------------
(***************************************************************************)
(* What capture records, for every capacity, number of takes, length of a  *)
(* take, set of session ids and messages a driver may deliver.             *)
(***************************************************************************)
EXTENDS MidiCapture, FiniteSetTheorems, SequenceTheorems, TLAPS

-----------------------------------------------------------------------------
(* Records and queued events.                                              *)

LEMMA RecordType ==
    ASSUME NEW s \in Session, NEW n \in Nat, NEW raw \in Message, IsDecodable(raw)
    PROVE  PublicRecord(s, n, raw) \in
             [session_id : Session, sequence_no : Nat,
              status_byte : 0 .. 255, data_1 : 0 .. 255, data_2 : 0 .. 255,
              channel : 0 .. 16,
              event_kind : {"note_on", "note_off", "control_change", "other"}]
<1>1. raw \in Seq(0 .. 255) /\ raw # <<>>
  BY CaptureAssumption DEF Message
<1>2. Len(raw) \in Nat \ {0} /\ \A i \in 1 .. Len(raw) : raw[i] \in 0 .. 255
  BY <1>1, ElementOfSeq, EmptySeq, LenProperties
<1>3. ASSUME NEW i \in 1 .. 3
      PROVE  RawByte(raw, i) \in 0 .. 255
  <2>1. CASE i <= Len(raw)
    <3>1. i \in 1 .. Len(raw)
      BY <1>2, <2>1
    <3> QED BY <1>2, <2>1, <3>1 DEF RawByte
  <2>2. CASE ~(i <= Len(raw))
    BY <2>2 DEF RawByte
  <2> QED BY <2>1, <2>2
<1>4. DecodedChannel(raw) \in 0 .. 16
  <2>1. 1 \in 1 .. Len(raw)
    BY <1>2
  <2>2. raw[1] \in 0 .. 255
    BY <1>2, <2>1
  <2> QED BY <2>2 DEF DecodedChannel
<1>5. PublicEventKind(DecodedKind(raw)) \in {"note_on", "note_off", "control_change", "other"}
  BY DEF PublicEventKind
<1> QED BY <1>3, <1>4, <1>5 DEF PublicRecord

\* What is left of a queue after its head has been taken.
LEMMA TailOfQueue ==
    ASSUME NEW S, NEW q \in Seq(S), q # <<>>
    PROVE  /\ Tail(q) \in Seq(S) /\ Len(Tail(q)) = Len(q) - 1
           /\ Len(q) \in Nat \ {0}
           /\ Head(q) \in S /\ Head(q) = q[1]
           /\ \A i \in DOMAIN Tail(q) : i + 1 \in DOMAIN q /\ Tail(q)[i] = q[i + 1]
OBVIOUS

\* The places of a sequence that was appended to.
LEMMA Appended ==
    ASSUME NEW S, NEW q \in Seq(S), NEW x
    PROVE  /\ Len(Append(q, x)) = Len(q) + 1 /\ Len(q) \in Nat
           /\ DOMAIN Append(q, x) = 1 .. Len(q) + 1 /\ DOMAIN q = 1 .. Len(q)
           /\ \A i \in DOMAIN Append(q, x) :
                Append(q, x)[i] = IF i \in DOMAIN q THEN q[i] ELSE x
<1>1. q \in Seq(S \cup {x})
  BY SeqMonotonic
<1>2. /\ Len(Append(q, x)) = Len(q) + 1 /\ Len(q) \in Nat
      /\ DOMAIN q = 1 .. Len(q) /\ Append(q, x) \in Seq(S \cup {x})
      /\ \A i \in 1 .. Len(q) : Append(q, x)[i] = q[i]
      /\ Append(q, x)[Len(q) + 1] = x
  BY <1>1, AppendProperties, LenProperties
<1>3. DOMAIN Append(q, x) = 1 .. Len(q) + 1
  BY <1>2, LenProperties
<1>4. ASSUME NEW i \in DOMAIN Append(q, x), i \notin DOMAIN q
      PROVE  i = Len(q) + 1
  BY <1>2, <1>3, <1>4
<1> QED BY <1>2, <1>3, <1>4

-----------------------------------------------------------------------------
(* Types, and capture's agreement with its backend.                        *)

\* Capture is active only in an open handle and outside a start, which has a
\* session id and a connected backend; only a connected one has a queue.
ClientFitsHandle ==
    /\ active => open /\ client = "idle"
    /\ client = "starting" => open /\ connected /\ ~active /\ starting \in Session
    /\ ~connected => pending = <<>>
    /\ connected => take > 0

\* The driver has delivered the events that were numbered and those queued.
Counted ==
    /\ active => next_sequence_no + Len(pending) <= made + 1
    /\ client = "starting" => Len(pending) <= made

HandleTypes ==
    /\ open \in BOOLEAN /\ active \in BOOLEAN /\ connected \in BOOLEAN /\ ready \in BOOLEAN
    /\ session_id \in Session \cup {NoSession} /\ starting \in Session \cup {NoSession}
    /\ client \in {"idle", "starting"} /\ playing \in Streams

DataTypes ==
    /\ next_sequence_no \in 0 .. MaxEvents + 1
    /\ pending \in Seq(Event) /\ Len(pending) <= Capacity /\ received \in Seq(Event)
    /\ take \in 0 .. MaxTakes /\ made \in 0 .. MaxEvents
    /\ owner \in Seq(Session) /\ emitted \in Seq(Emission) /\ failures \subseteq Event

CInv == TypeOK /\ ActiveIffConnected /\ ClientFitsHandle /\ Counted

LEMMA Types == TypeOK <=> HandleTypes /\ DataTypes
BY DEF TypeOK, HandleTypes, DataTypes

LEMMA NoQueue == <<>> \in Seq(Event) /\ Len(<<>>) = 0
OBVIOUS

LEMMA CaptureInit == Init => CInv
<1> SUFFICES ASSUME Init PROVE CInv
  OBVIOUS
<1> USE CaptureAssumption DEF Init, Hal!Init
<1>1. HandleTypes
  BY DEF HandleTypes
<1>2. DataTypes
  BY NoQueue DEF DataTypes
<1>3. ActiveIffConnected /\ ClientFitsHandle /\ Counted
  BY DEF ActiveIffConnected, ClientFitsHandle, Counted
<1> QED BY <1>1, <1>2, <1>3, Types DEF CInv

LEMMA HandleStep == CInv /\ [Next]_vars => HandleTypes'
<1> SUFFICES ASSUME CInv, [Next]_vars PROVE HandleTypes'
  OBVIOUS
<1>1. HandleTypes /\ (client = "starting" => starting \in Session)
  BY Types DEF CInv, ClientFitsHandle
<1>2. CASE \/ \E raw \in playing : Deliver(raw)
           \/ PollEmits \/ PollRejects \/ UNCHANGED vars
  <2>1. ready' \in BOOLEAN
    BY <1>1, <1>2 DEF HandleTypes, Deliver, PollEmits, PollRejects, Hal!Accept, Hal!Receive,
                      vars, hal
  <2>2. UNCHANGED <<open, active, connected, session_id, starting, client, playing>>
    BY <1>2 DEF Deliver, PollEmits, PollRejects, capture, vars, hal
  <2> QED BY <1>1, <2>1, <2>2 DEF HandleTypes
<1>3. CASE Open \/ Close \/ StartFails \/ Stop
  BY <1>1, <1>3 DEF HandleTypes, Open, Close, StartFails, Stop, HalDisconnect, Hal!Discard, hal
<1>4. CASE (\E session \in Session : StartConnects(session)) \/ StartDone
  BY <1>1, <1>4 DEF HandleTypes, StartConnects, StartDone, Hal!Discard, capture, hal
<1> QED BY <1>2, <1>3, <1>4 DEF Next

LEMMA DataStep == CInv /\ [Next]_vars => DataTypes'
<1> SUFFICES ASSUME CInv, [Next]_vars PROVE DataTypes'
  OBVIOUS
<1>1. HandleTypes /\ DataTypes
  BY Types DEF CInv
<1> USE CaptureAssumption DEF DataTypes
<1>2. ASSUME NEW raw \in playing, Deliver(raw) PROVE DataTypes'
  <2>1. [take |-> take, no |-> made + 1, raw |-> raw] \in Event
    BY <1>1, <1>2 DEF CInv, ClientFitsHandle, Deliver, HandleTypes, Event, Message
  <2>2. CASE UNCHANGED <<pending, received>>
    BY <1>1, <1>2, <2>2 DEF Deliver, capture
  <2>3. CASE Hal!Accept([take |-> take, no |-> made + 1, raw |-> raw])
    BY <1>1, <1>2, <2>1, <2>3 DEF Deliver, Hal!Accept, capture
  <2> QED BY <1>2, <2>2, <2>3 DEF Deliver
<1>3. CASE Open \/ Close \/ StartFails \/ Stop \/ StartDone \/ UNCHANGED vars
  <2>1. next_sequence_no' \in 0 .. MaxEvents + 1
    BY <1>1, <1>3 DEF Open, Close, StartFails, Stop, StartDone, vars, capture
  <2>2. UNCHANGED <<received, take, made, owner, emitted, failures>>
    BY <1>3 DEF Open, Close, StartFails, Stop, StartDone, HalDisconnect, Hal!Discard, hal,
                history, vars
  <2>3. pending' = pending \/ pending' = <<>>
    BY <1>3 DEF Open, Close, StartFails, Stop, StartDone, HalDisconnect, Hal!Discard, hal, vars
  <2>4. pending' \in Seq(Event) /\ Len(pending') <= Capacity
    <3>1. CASE pending' = <<>>
      BY <3>1, NoQueue
    <3> QED BY <1>1, <2>3, <3>1
  <2> QED BY <1>1, <2>1, <2>2, <2>4
<1>4. ASSUME NEW session \in Session, StartConnects(session) PROVE DataTypes'
  BY <1>1, <1>4, NoQueue DEF StartConnects, Hal!Discard, capture
<1>5. ASSUME pending # <<>>
      PROVE  /\ Head(pending) \in Event /\ Tail(pending) \in Seq(Event)
             /\ Len(Tail(pending)) < Len(pending) /\ Len(Tail(pending)) \in Nat
  BY <1>1, <1>5, TailOfQueue
<1>6. CASE PollEmits
  <2>1. Head(pending) \in Event /\ IsDecodable(Head(pending).raw)
    BY <1>5, <1>6 DEF PollEmits, Hal!Receive
  <2>2. Head(pending).raw \in Message
    BY <2>1 DEF Event
  <2>3. session_id \in Session /\ next_sequence_no \in Nat
    BY <1>1, <1>6 DEF PollEmits, CInv, ActiveIffConnected, HandleTypes
  <2>4. [event |-> Head(pending),
         record |-> PublicRecord(session_id, next_sequence_no, Head(pending).raw)] \in Emission
    BY <2>1, <2>2, <2>3, RecordType DEF Emission
  <2>5. emitted' \in Seq(Emission)
    BY <1>1, <1>6, <2>4 DEF PollEmits
  <2>6. next_sequence_no' \in 0 .. MaxEvents + 1
    <3>1. next_sequence_no + Len(pending) <= made + 1 /\ Len(pending) \in Nat \ {0}
      BY <1>1, <1>6, TailOfQueue DEF PollEmits, Hal!Receive, CInv, Counted
    <3> QED BY <1>1, <1>6, <3>1 DEF PollEmits
  <2>7. pending' \in Seq(Event) /\ Len(pending') <= Capacity /\ received' \in Seq(Event)
    BY <1>1, <1>5, <1>6 DEF PollEmits, Hal!Receive
  <2> QED BY <1>1, <1>6, <2>5, <2>6, <2>7 DEF PollEmits
<1>7. CASE PollRejects
  BY <1>1, <1>5, <1>7 DEF PollRejects, Hal!Receive, capture
<1> QED BY <1>2, <1>3, <1>4, <1>6, <1>7 DEF Next

LEMMA AgreeStep ==
    CInv /\ [Next]_vars => (ActiveIffConnected /\ ClientFitsHandle /\ Counted)'
<1> SUFFICES ASSUME CInv, [Next]_vars
             PROVE  (ActiveIffConnected /\ ClientFitsHandle /\ Counted)'
  OBVIOUS
<1>1. HandleTypes /\ DataTypes
  BY Types DEF CInv
<1> USE DEF CInv, ActiveIffConnected, ClientFitsHandle, Counted
<1>2. ASSUME NEW raw \in playing, Deliver(raw)
      PROVE  (ActiveIffConnected /\ ClientFitsHandle /\ Counted)'
  <2>1. connected /\ Len(pending') <= Len(pending) + 1 /\ Len(pending') \in Nat
    BY <1>1, <1>2 DEF Deliver, Hal!Accept, DataTypes
  <2> QED BY <1>1, <1>2, <2>1 DEF Deliver, DataTypes, capture
<1>3. CASE Open
  BY <1>1, <1>3 DEF Open, hal, history
<1>4. CASE Close
  BY <1>1, <1>4 DEF Close, HalDisconnect, Hal!Discard, hal, history
<1>5. ASSUME NEW session \in Session, StartConnects(session)
      PROVE  (ActiveIffConnected /\ ClientFitsHandle /\ Counted)'
  BY <1>1, <1>5, NoQueue DEF StartConnects, Hal!Discard, capture, DataTypes
<1>6. CASE StartFails \/ Stop
  BY <1>1, <1>6 DEF StartFails, Stop, HalDisconnect, Hal!Discard, hal, history
<1>7. CASE StartDone
  BY <1>1, <1>7, SessionAssumption DEF StartDone, hal, history, DataTypes
<1>8. CASE PollEmits \/ PollRejects
  <2>1. Len(pending') = Len(pending) - 1 /\ Len(pending) \in Nat \ {0}
    BY <1>1, <1>8, TailOfQueue DEF PollEmits, PollRejects, Hal!Receive, DataTypes
  <2> QED BY <1>1, <1>8, <2>1 DEF PollEmits, PollRejects, DataTypes, capture
<1>9. CASE UNCHANGED vars
  BY <1>9 DEF vars, capture, hal, history
<1> QED BY <1>2, <1>3, <1>4, <1>5, <1>6, <1>7, <1>8, <1>9 DEF Next

LEMMA CaptureInv == Spec => []CInv
<1>1. CInv /\ [Next]_vars => CInv'
  BY HandleStep, DataStep, AgreeStep DEF CInv, TypeOK, HandleTypes, DataTypes
<1> QED BY <1>1, CaptureInit, PTL DEF Spec

\* For every capacity, every set of messages and every number of takes, the
\* handle's fields and the backend's queue keep their ranges: a take never
\* numbers more records than the driver delivered.
THEOREM TypeCorrect == Spec => []TypeOK
<1>1. CInv => TypeOK
  BY DEF CInv
<1> QED BY <1>1, CaptureInv, PTL

\* No sequence of starts, failed starts, polls, stops and closes, however the
\* callback interleaves, leaves midi_capture.c active without a connected
\* backend, or a backend connected that no stop will disconnect.
THEOREM ActiveCorrect == Spec => []ActiveIffConnected
<1>1. CInv => ActiveIffConnected
  BY DEF CInv
<1> QED BY <1>1, CaptureInv, PTL

-----------------------------------------------------------------------------
(* Whose session a record carries.                                         *)

\* The queue holds events of the current take alone, and that take's session
\* id is the one being started or stored.
TakeFits ==
    /\ Len(owner) = take
    /\ client = "starting" => owner[take] = starting
    /\ active => owner[take] = session_id
    /\ \A i \in DOMAIN pending : pending[i].take = take
    /\ \A i \in DOMAIN emitted : emitted[i].event.take \in 1 .. take

OwnerInv == TakeFits /\ RecordsBelongToSession

LEMMA OwnerInit == Init => OwnerInv
BY DEF Init, Hal!Init, OwnerInv, TakeFits, RecordsBelongToSession

LEMMA OwnerStep == CInv /\ OwnerInv /\ [Next]_vars => OwnerInv'
<1> SUFFICES ASSUME CInv, OwnerInv, [Next]_vars PROVE OwnerInv'
  OBVIOUS
<1>1. HandleTypes /\ DataTypes
  BY Types DEF CInv
<1> USE DEF OwnerInv, TakeFits, RecordsBelongToSession
<1>2. ASSUME NEW raw \in playing, Deliver(raw) PROVE OwnerInv'
  <2>1. \A i \in DOMAIN pending' : pending'[i].take = take
    <3>1. pending \in Seq(Event)
      BY <1>1 DEF DataTypes
    <3>2. CASE pending' = Append(pending, [take |-> take, no |-> made + 1, raw |-> raw])
      BY <3>1, <3>2, Appended
    <3> QED BY <1>2, <3>2 DEF Deliver, Hal!Accept
  <2> QED BY <1>2, <2>1 DEF Deliver, capture
<1>3. CASE Open \/ Close \/ StartFails \/ Stop
  <2>1. UNCHANGED <<client, take, owner, emitted>> /\ client = "idle" /\ ~active'
    BY <1>3 DEF Open, Close, StartFails, Stop, history
  <2>2. pending' = pending \/ pending' = <<>>
    BY <1>3 DEF Open, Close, StartFails, Stop, HalDisconnect, Hal!Discard, hal
  <2> QED BY <2>1, <2>2
<1>4. ASSUME NEW session \in Session, StartConnects(session) PROVE OwnerInv'
  <2>1. /\ Len(owner') = take' /\ take' = take + 1 /\ owner'[take'] = session
        /\ \A n \in 1 .. take : owner'[n] = owner[n]
        /\ take \in Nat
    BY <1>1, <1>4 DEF StartConnects, DataTypes
  <2>2. pending' = <<>> /\ emitted' = emitted /\ starting' = session /\ ~active'
    BY <1>4 DEF StartConnects, Hal!Discard, capture
  <2>3. \A i \in DOMAIN emitted : emitted[i].event.take \in 1 .. take'
    BY <2>1
  <2> QED BY <2>1, <2>2, <2>3
<1>5. CASE StartDone
  BY <1>5 DEF StartDone, hal, history
<1>6. CASE PollEmits \/ PollRejects
  <2>1. /\ Head(pending).take = take
        /\ \A i \in DOMAIN Tail(pending) : Tail(pending)[i].take = take
    <3>1. pending \in Seq(Event) /\ pending # <<>>
      BY <1>1, <1>6 DEF PollEmits, PollRejects, Hal!Receive, DataTypes
    <3>2. 1 \in DOMAIN pending
      BY <3>1
    <3> QED BY <3>1, <3>2, TailOfQueue
  <2>2. /\ pending' = Tail(pending) /\ UNCHANGED <<active, session_id, client, starting>>
        /\ UNCHANGED <<take, owner>>
    BY <1>6 DEF PollEmits, PollRejects, Hal!Receive, capture
  <2>3. CASE PollRejects
    BY <2>1, <2>2, <2>3 DEF PollRejects
  <2>4. CASE PollEmits
    <3>1. /\ emitted \in Seq(Emission) /\ take \in 1 .. take
          /\ owner[take] = session_id
      BY <1>1, <2>4 DEF PollEmits, DataTypes, CInv, ActiveIffConnected, ClientFitsHandle
    <3> DEFINE e == [event |-> Head(pending),
                     record |-> PublicRecord(session_id, next_sequence_no, Head(pending).raw)]
    <3>2. e.event.take = take /\ e.record.session_id = session_id
      BY <2>1 DEF PublicRecord
    <3>3. emitted' = Append(emitted, e)
      BY <2>4 DEF PollEmits
    <3> HIDE DEF e
    <3>4. \A i \in DOMAIN emitted' :
            emitted'[i] = IF i \in DOMAIN emitted THEN emitted[i] ELSE e
      BY <3>1, <3>3, Appended
    <3> QED BY <2>1, <2>2, <3>1, <3>2, <3>4
  <2> QED BY <1>6, <2>3, <2>4
<1>7. CASE UNCHANGED vars
  BY <1>7 DEF vars, capture, hal, history
<1> QED BY <1>2, <1>3, <1>4, <1>5, <1>6, <1>7 DEF Next

\* Every record midi_capture.c emits carries the session id its take was
\* started with, although the callback may queue events before start has
\* stored that id, and whatever takes and failed starts came before.
THEOREM RecordsCorrect == Spec => []RecordsBelongToSession
<1>1. OwnerInv => RecordsBelongToSession
  BY DEF OwnerInv
<1> QED BY <1>1, OwnerInit, OwnerStep, CaptureInv, PTL DEF Spec

-----------------------------------------------------------------------------
(* The numbers of a take.                                                  *)

\* Which of the first n records are of take t.
Before(n, t) == {j \in 1 .. n : emitted[j].event.take = t}

\* The queue is in the driver's order, behind the records of its take, and the
\* next number counts those.
PlacesFit ==
    /\ \A i \in DOMAIN pending : pending[i].no <= made
    /\ \A i, j \in DOMAIN pending : i < j => pending[i].no < pending[j].no
    /\ client = "starting" => Before(Len(emitted), take) = {}
    /\ active =>
         /\ next_sequence_no = Cardinality(Before(Len(emitted), take)) + 1
         /\ \A i \in Before(Len(emitted), take) :
              /\ emitted[i].event.no <= made
              /\ \A j \in DOMAIN pending : emitted[i].event.no < pending[j].no

NumberInv == PlacesFit /\ NumbersAreContiguous

LEMMA NumberInit == Init => NumberInv
BY DEF Init, Hal!Init, NumberInv, PlacesFit, NumbersAreContiguous

\* A step that emits no record changes the places alone.
LEMMA SameRecords ==
    ASSUME NumbersAreContiguous, UNCHANGED emitted
    PROVE  NumbersAreContiguous'
BY DEF NumbersAreContiguous

LEMMA NumberStep == CInv /\ TakeFits /\ NumberInv /\ [Next]_vars => NumberInv'
<1> SUFFICES ASSUME CInv, TakeFits, NumberInv, [Next]_vars PROVE NumberInv'
  OBVIOUS
<1>1. HandleTypes /\ DataTypes /\ NumbersAreContiguous
  BY Types DEF CInv, NumberInv
<1> USE DEF NumberInv, PlacesFit
<1>2. ASSUME NEW raw \in playing, Deliver(raw) PROVE NumberInv'
  <2> DEFINE e == [take |-> take, no |-> made + 1, raw |-> raw]
  <2>1. /\ UNCHANGED <<active, client, emitted, take, next_sequence_no>> /\ made' = made + 1
        /\ pending' = pending \/ pending' = Append(pending, e)
        /\ made \in Nat /\ pending \in Seq(Event)
    BY <1>1, <1>2 DEF Deliver, Hal!Accept, capture, DataTypes
  <2>2. \A i \in DOMAIN pending : pending[i].no \in Nat
    <3>1. \A i \in DOMAIN pending : pending[i] \in Event
      BY <2>1, ElementOfSeq, LenProperties
    <3> QED BY <3>1, CaptureAssumption DEF Event
  <2>3. \A i \in Before(Len(emitted), take) : emitted[i].event.no \in Nat
    <3>1. \A i \in 1 .. Len(emitted) : emitted[i] \in Emission
      BY <1>1, ElementOfSeq DEF DataTypes
    <3> QED BY <3>1, CaptureAssumption DEF Before, Emission, Event
  <2>4. e.no = made + 1
    OBVIOUS
  <2> HIDE DEF e
  <2>5. CASE pending' = pending
    BY <1>1, <2>1, <2>2, <2>3, <2>5, SameRecords DEF Before
  <2>6. CASE pending' = Append(pending, e)
    <3>1. /\ DOMAIN pending' = 1 .. Len(pending) + 1 /\ DOMAIN pending = 1 .. Len(pending)
          /\ Len(pending) \in Nat
          /\ \A i \in DOMAIN pending' :
               pending'[i] = IF i \in DOMAIN pending THEN pending[i] ELSE e
      BY <2>1, <2>6, Appended
    <3>2. \A i \in DOMAIN pending' : pending'[i].no <= made'
      BY <2>1, <2>2, <2>4, <3>1
    <3>3. \A i, j \in DOMAIN pending' : i < j => pending'[i].no < pending'[j].no
      BY <2>1, <2>2, <2>4, <3>1
    <3>4. ASSUME active, NEW i \in Before(Len(emitted), take)
          PROVE  /\ emitted[i].event.no <= made'
                 /\ \A j \in DOMAIN pending' : emitted[i].event.no < pending'[j].no
      BY <2>1, <2>2, <2>3, <2>4, <3>1, <3>4
    <3> QED BY <1>1, <2>1, <3>2, <3>3, <3>4, SameRecords DEF Before
  <2> QED BY <2>1, <2>5, <2>6
<1>3. CASE Open \/ Close \/ StartFails \/ Stop
  <2>1. UNCHANGED <<client, take, made, emitted>> /\ client = "idle" /\ ~active'
    BY <1>3 DEF Open, Close, StartFails, Stop, history
  <2>2. pending' = pending \/ pending' = <<>>
    BY <1>3 DEF Open, Close, StartFails, Stop, HalDisconnect, Hal!Discard, hal
  <2> QED BY <1>1, <2>1, <2>2, SameRecords DEF Before
<1>4. ASSUME NEW session \in Session, StartConnects(session) PROVE NumberInv'
  <2>1. pending' = <<>> /\ emitted' = emitted /\ take' = take + 1 /\ ~active' /\ take \in Nat
    BY <1>1, <1>4 DEF StartConnects, Hal!Discard, capture, DataTypes
  <2>2. \A i \in 1 .. Len(emitted) : emitted[i].event.take # take + 1
    BY <1>1, <2>1, LenProperties DEF TakeFits, DataTypes
  <2> QED BY <1>1, <2>1, <2>2, SameRecords DEF Before
<1>5. CASE StartDone
  <2>1. /\ UNCHANGED <<pending, emitted, take, made>> /\ client = "starting"
        /\ next_sequence_no' = 1 /\ client' = "idle"
    BY <1>5 DEF StartDone, hal, history
  <2>2. Before(Len(emitted), take)' = {}
    BY <2>1 DEF Before
  <2> QED BY <1>1, <2>1, <2>2, FS_EmptySet, SameRecords
<1>6. CASE PollEmits \/ PollRejects
  <2>1. pending \in Seq(Event) /\ pending # <<>> /\ pending' = Tail(pending)
    BY <1>1, <1>6 DEF PollEmits, PollRejects, Hal!Receive, DataTypes
  <2>2. /\ Head(pending) = pending[1] /\ 1 \in DOMAIN pending
        /\ \A i \in DOMAIN pending' : /\ i + 1 \in DOMAIN pending /\ i \in Nat \ {0}
                                      /\ pending'[i] = pending[i + 1]
    BY <2>1, TailOfQueue, LenProperties
  <2>3. /\ \A i \in DOMAIN pending' : pending'[i].no <= made
        /\ \A i, j \in DOMAIN pending' : i < j => pending'[i].no < pending'[j].no
        /\ \A j \in DOMAIN pending' : pending[1].no < pending'[j].no
    BY <2>2
  <2>4. UNCHANGED <<take, made, client, active>>
    BY <1>6 DEF PollEmits, PollRejects, capture
  <2>5. CASE PollRejects
    <3>1. UNCHANGED <<emitted, next_sequence_no>>
      BY <2>5 DEF PollRejects, capture
    <3> QED BY <1>1, <2>2, <2>3, <2>4, <3>1, SameRecords DEF Before
  <2>6. CASE PollEmits
    <3> DEFINE e == [event |-> Head(pending),
                     record |-> PublicRecord(session_id, next_sequence_no, Head(pending).raw)]
    <3>1. /\ e.event = pending[1] /\ e.record.sequence_no = next_sequence_no
          /\ e.event.take = take
      BY <2>2 DEF PublicRecord, TakeFits
    <3>2. /\ emitted' = Append(emitted, e) /\ emitted \in Seq(Emission) /\ active
          /\ next_sequence_no' = next_sequence_no + 1 /\ client = "idle"
      BY <1>1, <2>6 DEF PollEmits, DataTypes
    <3> HIDE DEF e
    <3>3. PICK L \in Nat : L = Len(emitted)
      BY <3>2, LenProperties
    <3>4. /\ Len(emitted') = L + 1
          /\ DOMAIN emitted' = 1 .. L + 1 /\ DOMAIN emitted = 1 .. L
          /\ emitted'[L + 1] = e /\ \A i \in 1 .. L : emitted'[i] = emitted[i]
      <4>1. /\ Len(emitted') = L + 1 /\ DOMAIN emitted' = 1 .. L + 1 /\ DOMAIN emitted = 1 .. L
            /\ \A i \in DOMAIN emitted' :
                 emitted'[i] = IF i \in DOMAIN emitted THEN emitted[i] ELSE e
        BY <3>2, <3>3, Appended
      <4> QED BY <4>1
    <3>5. \A i \in 1 .. L + 1 : i = L + 1 \/ i \in 1 .. L
      OBVIOUS
    <3>6. Before(Len(emitted), take)' = Before(L, take) \cup {L + 1}
      <4>1. Before(Len(emitted), take)' = {j \in 1 .. L + 1 : emitted'[j].event.take = take}
        BY <2>4, <3>4 DEF Before
      <4>2. Before(L, take) = {j \in 1 .. L : emitted'[j].event.take = take}
        BY <3>4 DEF Before
      <4>3. emitted'[L + 1].event.take = take
        BY <3>1, <3>4
      <4> QED BY <3>5, <4>1, <4>2, <4>3
    <3>7. Cardinality(Before(L, take) \cup {L + 1}) = Cardinality(Before(L, take)) + 1
      <4>1. IsFiniteSet(1 .. L)
        BY FS_Interval
      <4>2. Before(L, take) \in SUBSET (1 .. L) /\ L + 1 \notin Before(L, take)
        BY DEF Before
      <4>3. IsFiniteSet(Before(L, take))
        BY <4>1, <4>2, FS_Subset
      <4> QED BY <4>2, <4>3, FS_AddElement
    <3>8. /\ next_sequence_no = Cardinality(Before(L, take)) + 1
          /\ \A i \in Before(L, take) :
               /\ emitted[i].event.no <= made
               /\ \A j \in DOMAIN pending : emitted[i].event.no < pending[j].no
      BY <2>2, <3>2, <3>3
    <3>9. PlacesFit'
      <4>1. next_sequence_no' = Cardinality(Before(Len(emitted), take)') + 1
        BY <1>1, <3>2, <3>6, <3>7, <3>8 DEF DataTypes
      <4>2. ASSUME NEW i \in Before(Len(emitted), take)'
            PROVE  /\ emitted'[i].event.no <= made
                   /\ \A j \in DOMAIN pending' : emitted'[i].event.no < pending'[j].no
        <5>1. CASE i = L + 1
          BY <2>2, <2>3, <3>1, <3>4, <5>1
        <5>2. CASE i \in Before(L, take)
          <6>1. emitted'[i] = emitted[i]
            BY <3>4, <5>2 DEF Before
          <6> QED BY <2>2, <3>8, <5>2, <6>1
        <5> QED BY <3>6, <4>2, <5>1, <5>2
      <4> QED BY <2>3, <2>4, <3>2, <4>1, <4>2
    <3>10. ASSUME NEW i \in DOMAIN emitted'
           PROVE  LET Earlier == {j \in 1 .. i - 1 : emitted'[j].event.take = emitted'[i].event.take}
                  IN  /\ emitted'[i].record.sequence_no = Cardinality(Earlier) + 1
                      /\ \A j \in Earlier : emitted'[j].event.no < emitted'[i].event.no
      <4>1. CASE i = L + 1
        <5>1. {j \in 1 .. i - 1 : emitted'[j].event.take = emitted'[i].event.take} = Before(L, take)
          BY <3>1, <3>4, <4>1 DEF Before
        <5>2. \A j \in Before(L, take) : emitted'[j] = emitted[j]
          BY <3>4 DEF Before
        <5> QED BY <2>2, <3>1, <3>4, <3>8, <4>1, <5>1, <5>2
      <4>2. CASE i \in 1 .. L
        <5>1. \A j \in 1 .. i : emitted'[j] = emitted[j]
          BY <3>4, <4>2
        <5>2. {j \in 1 .. i - 1 : emitted'[j].event.take = emitted'[i].event.take}
                = {j \in 1 .. i - 1 : emitted[j].event.take = emitted[i].event.take}
          BY <4>2, <5>1
        <5>3. LET Earlier == {j \in 1 .. i - 1 : emitted[j].event.take = emitted[i].event.take}
              IN  /\ emitted[i].record.sequence_no = Cardinality(Earlier) + 1
                  /\ \A j \in Earlier : emitted[j].event.no < emitted[i].event.no
          BY <1>1, <3>4, <4>2 DEF NumbersAreContiguous
        <5>4. emitted'[i] = emitted[i] /\ \A j \in 1 .. i - 1 : emitted'[j] = emitted[j]
          BY <4>2, <5>1
        <5> QED BY <5>2, <5>3, <5>4
      <4> QED BY <3>4, <3>5, <3>10, <4>1, <4>2
    <3> QED BY <3>9, <3>10 DEF NumbersAreContiguous
  <2> QED BY <1>6, <2>5, <2>6
<1>7. CASE UNCHANGED vars
  BY <1>1, <1>7, SameRecords DEF vars, capture, hal, history, Before
<1> QED BY <1>2, <1>3, <1>4, <1>5, <1>6, <1>7 DEF Next

\* The records of every take are numbered 1, 2, 3, ... in the order the driver
\* delivered their events, for every queue capacity and every pattern of
\* overflows, malformed messages, stops and failed starts: midi_capture.c
\* takes a number only for an event that decodes.
THEOREM NumbersCorrect == Spec => []NumbersAreContiguous
<1>1. Init => CInv /\ OwnerInv /\ NumberInv
  BY CaptureInit, OwnerInit, NumberInit
<1>2. OwnerInv => TakeFits
  BY DEF OwnerInv
<1>3. NumberInv => NumbersAreContiguous
  BY DEF NumberInv
<1> QED BY <1>1, <1>2, <1>3, OwnerStep, NumberStep, CaptureInv, PTL DEF Spec

-----------------------------------------------------------------------------
(* What a record says, and which events become records.                    *)

\* RecordsAgree, of one record.
Agrees(r) ==
    /\ r.event_kind = "note_on" <=> r.status_byte \in 144 .. 159 /\ r.data_2 > 0
    /\ r.event_kind = "note_off" <=>
          \/ r.status_byte \in 128 .. 143
          \/ r.status_byte \in 144 .. 159 /\ r.data_2 = 0
    /\ r.event_kind = "control_change" <=> r.status_byte \in 176 .. 191
    /\ r.channel > 0 =>
          /\ (r.status_byte % 16) = r.channel - 1
          /\ r.data_1 < 128 /\ r.data_2 < 128
    /\ r.channel = 0 <=> r.status_byte >= 240

\* A complete channel message of two or three bytes, or a system message.
Complete(raw) ==
    \/ raw[1] >= 240
    \/ Len(raw) = 2 /\ raw[1] \in 192 .. 223 /\ raw[2] < 128
    \/ Len(raw) = 3 /\ raw[1] \in (128 .. 191) \cup (224 .. 239)
       /\ raw[2] < 128 /\ raw[3] < 128

\* The class of a status byte, without the remainder.
LEMMA ClassOfStatus ==
    ASSUME NEW b \in 0 .. 255
    PROVE  /\ StatusClass(b) = 128 <=> b \in 128 .. 143
           /\ StatusClass(b) = 144 <=> b \in 144 .. 159
           /\ StatusClass(b) = 160 <=> b \in 160 .. 175
           /\ StatusClass(b) = 176 <=> b \in 176 .. 191
           /\ StatusClass(b) = 192 <=> b \in 192 .. 207
           /\ StatusClass(b) = 208 <=> b \in 208 .. 223
           /\ StatusClass(b) = 224 <=> b \in 224 .. 239
BY SMT DEF StatusClass

\* The bytes of a message.
LEMMA Bytes ==
    ASSUME NEW raw \in Message
    PROVE  /\ Len(raw) \in Nat \ {0}
           /\ \A i \in 1 .. Len(raw) : raw[i] \in 0 .. 255
           /\ raw[1] \in 0 .. 255
<1>1. raw \in Seq(0 .. 255) /\ raw # <<>>
  BY CaptureAssumption DEF Message
<1>2. Len(raw) \in Nat \ {0} /\ \A i \in 1 .. Len(raw) : raw[i] \in 0 .. 255
  BY <1>1, ElementOfSeq, EmptySeq, LenProperties
<1> QED BY <1>2

\* A channel message that decodes has as many data bytes as its status asks for.
LEMMA ShapeOfDecodable ==
    ASSUME NEW raw \in Message, NEW b \in 0 .. 239, raw[1] = b, IsDecodable(raw)
    PROVE  /\ b >= 128
           /\ Len(raw) = IF b \in 192 .. 223 THEN 2 ELSE 3
           /\ raw[2] \in 0 .. 127
           /\ b \notin 192 .. 223 => raw[3] \in 0 .. 127
<1>1. b >= 128 /\ HasMessageShape(raw)
  BY DEF IsDecodable
<1>2. Len(raw) = IF b \in 192 .. 223 THEN 2 ELSE 3
  <2>1. Len(raw) = ExpectedCount(StatusClass(b))
    BY <1>1 DEF HasMessageShape
  <2>2. StatusClass(b) \in {192, 208} <=> b \in 192 .. 223
    BY ClassOfStatus
  <2> QED BY <2>1, <2>2 DEF ExpectedCount
<1>3. \A i \in 2 .. Len(raw) : raw[i] <= 127
  BY <1>1 DEF HasMessageShape, AllDataBytes
<1>4. ASSUME NEW i \in 2 .. Len(raw)
      PROVE  raw[i] \in 0 .. 127
  <2>1. i \in 1 .. Len(raw)
    BY <1>2
  <2>2. PICK c \in 0 .. 255 : raw[i] = c
    BY <2>1, Bytes
  <2> QED BY <1>3, <2>2
<1>5. 2 \in 2 .. Len(raw) /\ (b \notin 192 .. 223 => 3 \in 2 .. Len(raw))
  BY <1>2
<1> QED BY <1>1, <1>2, <1>4, <1>5

\* Every message that decodes makes a record whose columns agree.
LEMMA RecordOfMessage ==
    ASSUME NEW s, NEW n, NEW raw \in Message, IsDecodable(raw)
    PROVE  Agrees(PublicRecord(s, n, raw))
<1> DEFINE r == PublicRecord(s, n, raw)
<1>1. /\ r.status_byte = RawByte(raw, 1) /\ r.data_1 = RawByte(raw, 2)
      /\ r.data_2 = RawByte(raw, 3) /\ r.channel = DecodedChannel(raw)
      /\ r.event_kind = PublicEventKind(DecodedKind(raw))
  BY DEF PublicRecord
<1> HIDE DEF r
<1>2. PICK b \in 0 .. 255 : raw[1] = b
  BY Bytes
<1>3. RawByte(raw, 1) = b
  BY <1>2, Bytes DEF RawByte
<1>4. CASE b \in 240 .. 255
  <2>1. DecodedChannel(raw) = 0
    BY <1>2, <1>4 DEF DecodedChannel
  <2>2. StatusClass(b) \notin {128, 144, 160, 176, 192, 208, 224}
    BY <1>4, ClassOfStatus
  <2>3. DecodedKind(raw) \in {"sysex", "other"}
    BY <1>2, <2>2 DEF DecodedKind
  <2>4. r.event_kind = "other"
    BY <1>1, <2>3 DEF PublicEventKind
  <2>5. Agrees(r)
    BY <1>1, <1>3, <1>4, <2>1, <2>4 DEF Agrees
  <2> QED BY <2>5 DEF r
<1>5. CASE b \in 0 .. 239
  <2>1. /\ b \in 128 .. 239
        /\ Len(raw) = IF b \in 192 .. 223 THEN 2 ELSE 3
        /\ raw[2] \in 0 .. 127
        /\ b \notin 192 .. 223 => raw[3] \in 0 .. 127
    BY <1>2, <1>5, ShapeOfDecodable
  <2>2. PICK d1 \in 0 .. 127 : raw[2] = d1
    BY <2>1
  <2>3. PICK d2 \in 0 .. 127 : RawByte(raw, 3) = d2 /\ (b \notin 192 .. 223 => raw[3] = d2)
                               /\ (b \in 192 .. 223 => d2 = 0)
    BY <2>1 DEF RawByte
  <2>4. RawByte(raw, 2) = d1
    BY <2>1, <2>2 DEF RawByte
  <2>5. DecodedChannel(raw) = (b % 16) + 1 /\ b % 16 \in 0 .. 15
    <3>1. b % 16 \in 0 .. 15
      OBVIOUS
    <3> QED BY <1>2, <1>5, <3>1 DEF DecodedChannel
  <2>6. PublicEventKind(DecodedKind(raw)) =
          IF b \in 128 .. 143 THEN "note_off"
          ELSE IF b \in 144 .. 159 THEN IF d2 = 0 THEN "note_off" ELSE "note_on"
          ELSE IF b \in 176 .. 191 THEN "control_change" ELSE "other"
    <3>1. CASE b \in 128 .. 143
      BY <1>2, <3>1, ClassOfStatus DEF DecodedKind, PublicEventKind
    <3>2. CASE b \in 144 .. 159
      BY <1>2, <2>3, <3>2, ClassOfStatus DEF DecodedKind, PublicEventKind
    <3>3. CASE b \in 160 .. 175
      BY <1>2, <3>3, ClassOfStatus DEF DecodedKind, PublicEventKind
    <3>4. CASE b \in 176 .. 191
      BY <1>2, <3>4, ClassOfStatus DEF DecodedKind, PublicEventKind
    <3>5. CASE b \in 192 .. 207
      BY <1>2, <3>5, ClassOfStatus DEF DecodedKind, PublicEventKind
    <3>6. CASE b \in 208 .. 223
      BY <1>2, <3>6, ClassOfStatus DEF DecodedKind, PublicEventKind
    <3>7. CASE b \in 224 .. 239
      BY <1>2, <3>7, ClassOfStatus DEF DecodedKind, PublicEventKind
    <3> QED BY <2>1, <3>1, <3>2, <3>3, <3>4, <3>5, <3>6, <3>7
  <2>7. /\ r.status_byte = b /\ r.data_1 = d1 /\ r.data_2 = d2
        /\ r.channel = (b % 16) + 1
        /\ r.event_kind = IF b \in 128 .. 143 THEN "note_off"
                          ELSE IF b \in 144 .. 159 THEN IF d2 = 0 THEN "note_off" ELSE "note_on"
                          ELSE IF b \in 176 .. 191 THEN "control_change" ELSE "other"
    BY <1>1, <1>3, <2>3, <2>4, <2>5, <2>6
  <2>8. Agrees(r)
    BY <2>1, <2>3, <2>5, <2>7 DEF Agrees
  <2> QED BY <2>8 DEF r
<1> QED BY <1>4, <1>5

\* Only a message that is not complete fails to decode.
LEMMA CompleteDecodes ==
    ASSUME NEW raw \in Message, Complete(raw)
    PROVE  IsDecodable(raw)
<1>1. PICK b \in 0 .. 255 : raw[1] = b
  BY Bytes
<1>2. CASE b \in 240 .. 255
  BY <1>1, <1>2 DEF IsDecodable
<1>3. CASE b \in 0 .. 239
  <2>1. \/ Len(raw) = 2 /\ b \in 192 .. 223 /\ raw[2] < 128
        \/ Len(raw) = 3 /\ b \in (128 .. 191) \cup (224 .. 239) /\ raw[2] < 128 /\ raw[3] < 128
    BY <1>1, <1>3 DEF Complete
  <2>2. StatusClass(b) \in {192, 208} <=> b \in 192 .. 223
    BY ClassOfStatus
  <2>3. Len(raw) = ExpectedCount(StatusClass(b))
    BY <2>1, <2>2 DEF ExpectedCount
  <2>4. ASSUME NEW i \in 2 .. Len(raw) PROVE raw[i] <= 127
    <3>1. PICK n \in {2, 3} : n = Len(raw)
      BY <2>1
    <3>2. i \in 2 .. n
      BY <3>1
    <3>3. i \in 1 .. n /\ (i = 2 \/ (i = 3 /\ n = 3))
      BY <3>2
    <3>4. PICK c \in 0 .. 255 : raw[i] = c
      BY <3>1, <3>3, Bytes
    <3>5. c < 128
      BY <2>1, <3>1, <3>3, <3>4
    <3> QED BY <3>4, <3>5
  <2>5. HasMessageShape(raw)
    BY <1>1, <2>3, <2>4 DEF HasMessageShape, AllDataBytes
  <2> QED BY <1>1, <2>1, <2>5 DEF IsDecodable
<1> QED BY <1>2, <1>3

\* What polls make of the events the backend gives up.
PollInv == RecordsAgree /\ NothingDroppedByPoll

\* A step that is not a poll adds neither records nor failures.
LEMMA NoPoll ==
    ASSUME PollInv, UNCHANGED <<received, emitted, failures>>
    PROVE  PollInv'
BY DEF PollInv, RecordsAgree, NothingDroppedByPoll

LEMMA PollInit == Init => PollInv
BY DEF Init, Hal!Init, PollInv, RecordsAgree, NothingDroppedByPoll

LEMMA PollStep == CInv /\ PollInv /\ [Next]_vars => PollInv'
<1> SUFFICES ASSUME CInv, PollInv, [Next]_vars PROVE PollInv'
  OBVIOUS
<1>1. DataTypes
  BY Types DEF CInv
<1>2. CASE ~PollEmits /\ ~PollRejects
  <2>1. UNCHANGED <<received, emitted, failures>>
    BY <1>2
    DEF Next, vars, hal, history, capture, Deliver, Open, Close, StartConnects, StartFails,
        StartDone, Stop, HalDisconnect, Hal!Accept, Hal!Discard
  <2> QED BY <2>1, NoPoll
\* The event a poll takes is the last one received.
<1>3. ASSUME Hal!Receive
      PROVE  /\ Head(pending) \in Event /\ Head(pending).raw \in Message
             /\ \A i \in DOMAIN received' :
                  received'[i] = IF i \in DOMAIN received THEN received[i] ELSE Head(pending)
  <2>1. pending \in Seq(Event) /\ pending # <<>> /\ received \in Seq(Event)
    BY <1>1, <1>3 DEF DataTypes, Hal!Receive
  <2>2. Head(pending) \in Event
    BY <2>1, TailOfQueue
  <2>3. Head(pending).raw \in Message
    BY <2>2 DEF Event
  <2> QED BY <1>3, <2>1, <2>2, <2>3, Appended DEF Hal!Receive
<1>4. CASE PollEmits
  <2>1. /\ Head(pending).raw \in Message /\ IsDecodable(Head(pending).raw)
        /\ \A i \in DOMAIN received' :
             received'[i] = IF i \in DOMAIN received THEN received[i] ELSE Head(pending)
        /\ failures' = failures
    BY <1>3, <1>4 DEF PollEmits
  <2> DEFINE e == [event |-> Head(pending),
                   record |-> PublicRecord(session_id, next_sequence_no, Head(pending).raw)]
  <2>2. e.event = Head(pending) /\ Agrees(e.record)
    BY <2>1, RecordOfMessage
  <2>3. emitted' = Append(emitted, e) /\ emitted \in Seq(Emission)
    BY <1>1, <1>4 DEF PollEmits, DataTypes
  <2> HIDE DEF e
  <2>4. /\ DOMAIN emitted' = 1 .. Len(emitted) + 1 /\ DOMAIN emitted = 1 .. Len(emitted)
        /\ Len(emitted) \in Nat
        /\ \A i \in DOMAIN emitted' :
             emitted'[i] = IF i \in DOMAIN emitted THEN emitted[i] ELSE e
    BY <2>3, Appended
  <2>5. RecordsAgree'
    <3>1. \A i \in DOMAIN emitted : Agrees(emitted[i].record)
      BY DEF PollInv, RecordsAgree, Agrees
    <3>2. \A i \in DOMAIN emitted' : Agrees(emitted'[i].record)
      BY <2>2, <2>4, <3>1
    <3> QED BY <3>2 DEF RecordsAgree, Agrees
  <2>6. ASSUME NEW i \in DOMAIN received'
        PROVE  received'[i] \in failures' \cup {emitted'[j].event : j \in DOMAIN emitted'}
    <3>1. CASE i \in DOMAIN received
      <4>1. received[i] \in failures \cup {emitted[j].event : j \in DOMAIN emitted}
        BY <3>1 DEF PollInv, NothingDroppedByPoll
      <4>2. \A j \in DOMAIN emitted : j \in DOMAIN emitted' /\ emitted'[j] = emitted[j]
        BY <2>4
      <4> QED BY <2>1, <3>1, <4>1, <4>2
    <3>2. CASE i \notin DOMAIN received
      <4>1. /\ Len(emitted) + 1 \in DOMAIN emitted'
            /\ emitted'[Len(emitted) + 1] = e
        BY <2>4
      <4> QED BY <2>1, <2>2, <3>2, <4>1
    <3> QED BY <3>1, <3>2
  <2> QED BY <2>1, <2>5, <2>6 DEF PollInv, NothingDroppedByPoll
<1>5. CASE PollRejects
  <2>1. /\ Head(pending).raw \in Message /\ ~IsDecodable(Head(pending).raw)
        /\ \A i \in DOMAIN received' :
             received'[i] = IF i \in DOMAIN received THEN received[i] ELSE Head(pending)
        /\ failures' = failures \cup {Head(pending)} /\ emitted' = emitted
    BY <1>3, <1>5 DEF PollRejects
  <2>2. RecordsAgree'
    BY <2>1 DEF PollInv, RecordsAgree
  <2>3. ~Complete(Head(pending).raw)
    BY <2>1, CompleteDecodes
  <2>4. \A event \in failures' : ~Complete(event.raw)
    BY <2>1, <2>3 DEF PollInv, NothingDroppedByPoll, Complete
  <2>5. \A i \in DOMAIN received' :
          received'[i] \in failures' \cup {emitted'[j].event : j \in DOMAIN emitted'}
    BY <2>1 DEF PollInv, NothingDroppedByPoll
  <2> QED BY <2>2, <2>4, <2>5 DEF PollInv, NothingDroppedByPoll, Complete
<1> QED BY <1>2, <1>4, <1>5

\* For every message of up to any number of bytes, the record poll_event makes
\* of it says the same in its event_kind, its channel and its bytes.
THEOREM RecordsAgreeCorrect == Spec => []RecordsAgree
<1>1. PollInv => RecordsAgree
  BY DEF PollInv
<1> QED BY <1>1, PollInit, PollStep, CaptureInv, PTL DEF Spec

\* Every event the backend gave up was returned as a record or as an error, and
\* no complete message was returned as an error.
THEOREM NothingDroppedCorrect == Spec => []NothingDroppedByPoll
<1>1. PollInv => NothingDroppedByPoll
  BY DEF PollInv
<1> QED BY <1>1, PollInit, PollStep, CaptureInv, PTL DEF Spec
=============================================================================
