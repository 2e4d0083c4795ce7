------------------------ MODULE MidiHalWinmm_proofs -------------------------
(***************************************************************************)
(* Safety of the WinMM backend for every queue capacity, number of         *)
(* connections, messages and clock readings.                               *)
(***************************************************************************)
EXTENDS MidiHalWinmm, RawEventRingTheorems, SequenceTheorems

-----------------------------------------------------------------------------
(* Type correctness.                                                       *)

LEMMA BuildEventType ==
    ASSUME TypeOK, NEW b \in BOOLEAN, BuildEvent(b)
    PROVE  /\ made' \in 0 .. MaxEvents /\ inflight' \in Event
           /\ long' \in BOOLEAN /\ callback' \in {"idle", "built", "rearm"}
<1>1. /\ made \in Nat /\ made < MaxEvents /\ take \in 0 .. MaxTakes
      /\ clock - started \in -MaxClock .. MaxClock
  BY BoundsAssumption DEF TypeOK, BuildEvent
<1>2. made' = made + 1 /\ made + 1 \in 0 .. MaxEvents
  BY <1>1, BoundsAssumption DEF BuildEvent
<1>3. inflight' \in Event
  BY <1>1, <1>2 DEF BuildEvent, Event
<1> QED BY <1>2, <1>3 DEF BuildEvent

LEMMA TypeInit == Init => TypeOK
<1> SUFFICES ASSUME Init PROVE TypeOK
  OBVIOUS
<1>1. ZeroEvent \in Event
  BY BoundsAssumption DEF ZeroEvent, Event
<1>2. queue \in Rings(Event)
  BY <1>1, CapacityAssumption DEF Init, ZeroRing, Rings, Slots
<1>3. received \in Seq(Event) /\ lost \subseteq Event /\ reported \subseteq {"HT_OK"}
  BY DEF Init
<1>4. inflight \in Event
  BY <1>1 DEF Init
<1>5. /\ started \in 0 .. MaxClock /\ clock \in 0 .. MaxClock
      /\ take \in 0 .. MaxTakes /\ made \in 0 .. MaxEvents
  BY BoundsAssumption DEF Init
<1> QED BY <1>2, <1>3, <1>4, <1>5 DEF Init, TypeOK, ClientSteps

LEMMA TypeStep == TypeOK /\ [Next]_vars => TypeOK'
<1> SUFFICES ASSUME TypeOK, [Next]_vars PROVE TypeOK'
  OBVIOUS
<1> USE DEF fields, driver, ghosts, ClientSteps
<1>1. CASE Tick
  BY <1>1, BoundsAssumption DEF TypeOK, Tick
<1>2. CASE ShortMessage
  BY <1>2, BuildEventType DEF TypeOK, ShortMessage
<1>3. CASE LongMessage
  BY <1>3, BuildEventType DEF TypeOK, LongMessage
<1>4. CASE LongError
  BY <1>4 DEF TypeOK, LongError
<1>5. CASE QueueEvent
  <2>1. queue' \in Rings(Event)
    BY <1>5, PushedRing DEF TypeOK, QueueEvent
  <2>2. signalled' \in BOOLEAN /\ lost' \subseteq Event
    BY <1>5 DEF TypeOK, QueueEvent
  <2> QED BY <1>5, <2>1, <2>2 DEF TypeOK, QueueEvent
<1>6. CASE RearmHeader
  BY <1>6 DEF TypeOK, RearmHeader
<1>7. CASE ConnectOpen
  BY <1>7, BoundsAssumption DEF TypeOK, ConnectOpen
<1>8. CASE ConnectClear
  BY <1>8, ClearedRing DEF TypeOK, ConnectClear, ClearQueue
<1>9. CASE ConnectStamp
  BY <1>9 DEF TypeOK, ConnectStamp
<1>10. CASE ConnectStart
  BY <1>10 DEF TypeOK, ConnectStart
<1>11. CASE ConnectStartFails
  BY <1>11 DEF TypeOK, ConnectStartFails
<1>12. CASE ConnectDone
  BY <1>12 DEF TypeOK, ConnectDone
<1>13. CASE Disconnect
  BY <1>13 DEF TypeOK, Disconnect
<1>14. CASE DisconnectStop
  BY <1>14 DEF TypeOK, DisconnectStop
<1>15. CASE DisconnectReset
  <2>1. CASE UNCHANGED driver
    BY <1>15, <2>1 DEF TypeOK, DisconnectReset
  <2>2. CASE BuildEvent(TRUE)
    BY <1>15, <2>2, BuildEventType DEF TypeOK, DisconnectReset
  <2> QED BY <1>15, <2>1, <2>2 DEF DisconnectReset
<1>16. CASE DisconnectClose
  BY <1>16 DEF TypeOK, DisconnectClose
<1>17. CASE DisconnectClear
  BY <1>17, ClearedRing DEF TypeOK, DisconnectClear, ClearQueue
<1>18. CASE DisconnectDone
  BY <1>18 DEF TypeOK, DisconnectDone
<1>19. CASE PollEvent
  <2>1. CASE queue.count > 0
    <3>1. queue' \in Rings(Event) /\ received' \in Seq(Event)
      BY <1>19, <2>1, PoppedRing DEF TypeOK, PollEvent
    <3> QED BY <1>19, <3>1 DEF TypeOK, PollEvent
  <2>2. CASE ~(queue.count > 0)
    BY <1>19, <2>2 DEF TypeOK, PollEvent, Popped
  <2> QED BY <2>1, <2>2
<1>20. CASE WaitEvent
  BY <1>20 DEF TypeOK, WaitEvent
<1>21. CASE WaitWakes
  BY <1>21 DEF TypeOK, WaitWakes
<1>22. CASE WaitTimesOut
  BY <1>22 DEF TypeOK, WaitTimesOut
<1>23. CASE UNCHANGED vars
  BY <1>23 DEF TypeOK, vars
<1> QED
  BY <1>1, <1>2, <1>3, <1>4, <1>5, <1>6, <1>7, <1>8, <1>9, <1>10, <1>11, <1>12, <1>13,
     <1>14, <1>15, <1>16, <1>17, <1>18, <1>19, <1>20, <1>21, <1>22, <1>23
  DEF Next, Connecting, Disconnecting, CallbackReturns

\* Every field keeps its range: the callback and the client never take head or
\* count outside the array, whatever its capacity.
THEOREM TypeCorrect == Spec => []TypeOK
  BY TypeInit, TypeStep, PTL DEF Spec

-----------------------------------------------------------------------------
(* No event of another connection.  NoStaleEvent is not inductive: that    *)
(* the queue is empty when a connect opens the input depends on where the  *)
(* client and the callback were when it was last cleared.                  *)

\* Which calls can be under way in each state of the input handle.
ClientFitsDevice ==
    /\ device = "running" =>
         client \in {"connect_done", "idle", "waiting", "disconnect_stop"}
    /\ device = "stopped" => client \in {"disconnect_reset", "disconnect_close"}
    /\ device = "open" =>
         client \in {"connect_clear", "connect_stamp", "connect_start",
                    "disconnect_stop", "disconnect_reset", "disconnect_close"}
    /\ device \in {"closed", "stuck"} =>
         client \in {"idle", "disconnect_clear", "disconnect_done"}
    /\ client \in {"idle", "waiting"} => (connected <=> device = "running")

\* A callback runs only between midiInStart and midiInClose.
CallbackFitsDevice ==
    callback # "idle" => device \in {"running", "stopped"} /\ inflight.take = take

\* The queue holds events of the open connection and, outside one, only those
\* the disconnect under way is about to clear.
QueueFitsDevice ==
    /\ \A i \in 1 .. queue.count : Contents(queue)[i].take = take
    /\ queue.count > 0 =>
         device \in {"running", "stopped"} \/ client = "disconnect_clear"

IInv ==
    /\ TypeOK
    /\ SignalCoherent
    /\ ClientFitsDevice
    /\ CallbackFitsDevice
    /\ QueueFitsDevice

LEMMA InvInit == Init => IInv
<1> SUFFICES ASSUME Init PROVE IInv
  OBVIOUS
<1>1. TypeOK
  BY TypeInit
<1>2. queue.count = 0
  BY DEF Init, ZeroRing
<1> QED
  BY <1>1, <1>2
  DEF Init, IInv, SignalCoherent, ClientFitsDevice, CallbackFitsDevice, QueueFitsDevice

\* A step that leaves the queue and the connection number alone preserves what
\* the invariant says of the events in it.
LEMMA SameQueue ==
    ASSUME IInv, UNCHANGED <<queue, take>>
    PROVE  /\ \A i \in 1 .. queue'.count : Contents(queue')[i].take = take'
           /\ queue'.count = queue.count
  BY DEF IInv, QueueFitsDevice

\* Emptying the queue and resetting the event keep them coherent.
LEMMA ClearedQueue ==
    ASSUME IInv, ClearQueue
    PROVE  queue'.count = 0 /\ SignalCoherent'
  BY ClearedRing DEF IInv, TypeOK, ClearQueue, SignalCoherent, Cleared

LEMMA InvStep == IInv /\ [Next]_vars => IInv'
<1> SUFFICES ASSUME IInv, [Next]_vars PROVE IInv'
  OBVIOUS
<1> USE DEF fields, driver, ghosts
<1>t. TypeOK /\ TypeOK'
  BY TypeStep DEF IInv
<1>q. queue.count \in Nat
  BY <1>t, CapacityAssumption DEF TypeOK, Rings
<1>d. device \in {"closed", "open", "running", "stopped", "stuck"}
  BY <1>t DEF TypeOK
<1>1. CASE /\ UNCHANGED <<queue, signalled, connected, device, client, take>>
           /\ \/ UNCHANGED <<callback, inflight>>
              \/ callback' = "idle"
              \/ device = "running" /\ inflight'.take = take
  BY <1>1, <1>t, SameQueue
  DEF IInv, SignalCoherent, ClientFitsDevice, CallbackFitsDevice, QueueFitsDevice
<1>2. CASE QueueEvent
  <2>1. \A i \in 1 .. queue'.count : Contents(queue')[i].take = take'
    <3>1. CASE queue.count < Capacity
      <4>1. /\ Contents(queue') = Append(Contents(queue), inflight)
            /\ queue'.count = queue.count + 1
            /\ Contents(queue) \in Seq(Event) /\ Len(Contents(queue)) = queue.count
        BY <1>2, <1>t, <3>1, PushedRing, ContentsType DEF QueueEvent, TypeOK
      <4>2. \A i \in 1 .. queue.count : Contents(queue)[i].take = take
        BY DEF IInv, QueueFitsDevice
      <4>3. inflight.take = take /\ take' = take
        BY <1>2 DEF IInv, CallbackFitsDevice, QueueEvent
      <4>4. inflight \in Event
        BY <1>t DEF TypeOK
      <4>5. ASSUME NEW i \in 1 .. queue'.count
            PROVE  Contents(queue')[i].take = take'
        <5> DEFINE c == Contents(queue)
        <5>1. c \in Seq(Event) /\ Len(c) = queue.count
          BY <4>1
        <5> HIDE DEF c
        <5>2. Append(c, inflight)[i] = IF i = queue.count + 1 THEN inflight ELSE c[i]
          BY <4>1, <4>4, <5>1, <1>q
        <5>3. i # queue.count + 1 => i \in 1 .. queue.count
          BY <4>1, <1>q
        <5> QED BY <4>1, <4>2, <4>3, <5>2, <5>3 DEF c
      <4> QED BY <4>5
    <3>2. CASE ~(queue.count < Capacity)
      BY <1>2, <3>2, SameQueue DEF QueueEvent, Pushed
    <3> QED BY <3>1, <3>2
  <2>2. SignalCoherent'
    BY <1>2, <1>q, CapacityAssumption
    DEF IInv, SignalCoherent, QueueEvent, Pushed
  <2> QED BY <1>2, <1>t, <2>1, <2>2
    DEF IInv, ClientFitsDevice, CallbackFitsDevice, QueueFitsDevice, QueueEvent
<1>3. CASE PollEvent
  <2>1. /\ queue'.count \in Nat
        /\ \A i \in 1 .. queue'.count : Contents(queue')[i].take = take'
    <3>1. CASE queue.count > 0
      <4>1. /\ Contents(queue') = Tail(Contents(queue))
            /\ queue'.count = queue.count - 1
            /\ Contents(queue) \in Seq(Event) /\ Len(Contents(queue)) = queue.count
        BY <1>3, <1>t, <3>1, PoppedRing, ContentsType DEF PollEvent, TypeOK
      <4>2. ASSUME NEW i \in 1 .. queue'.count
            PROVE  Contents(queue')[i] = Contents(queue)[i + 1]
        BY <1>q, <3>1, <4>1
      <4> QED BY <1>3, <1>q, <3>1, <4>1, <4>2 DEF IInv, QueueFitsDevice, PollEvent
    <3>2. CASE ~(queue.count > 0)
      BY <1>3, <1>q, <3>2, SameQueue DEF PollEvent, Popped
    <3> QED BY <3>1, <3>2
  <2>2. SignalCoherent' /\ (queue'.count > 0 => queue.count > 0)
    BY <1>3, <1>q, <2>1 DEF IInv, SignalCoherent, PollEvent, Popped
  <2> QED BY <1>3, <1>t, <2>1, <2>2
    DEF IInv, ClientFitsDevice, CallbackFitsDevice, QueueFitsDevice, PollEvent
<1>4. CASE ConnectClear \/ DisconnectClear
  <2>1. queue'.count = 0 /\ SignalCoherent'
    BY <1>4, ClearedQueue DEF ConnectClear, DisconnectClear
  <2> QED BY <1>4, <1>t, <2>1
    DEF IInv, ClientFitsDevice, CallbackFitsDevice, QueueFitsDevice, ConnectClear,
        DisconnectClear
<1>5. CASE ConnectOpen
  <2>1. queue'.count = 0
    BY <1>5, <1>q DEF IInv, QueueFitsDevice, ConnectOpen
  <2> QED BY <1>5, <1>t, <2>1
    DEF IInv, SignalCoherent, ClientFitsDevice, CallbackFitsDevice, QueueFitsDevice,
        ConnectOpen
<1>6. CASE DisconnectReset
  <2>1. CASE UNCHANGED driver
    BY <1>6, <1>t, <2>1, SameQueue
    DEF IInv, SignalCoherent, ClientFitsDevice, CallbackFitsDevice, QueueFitsDevice,
        DisconnectReset
  <2>2. CASE device = "stopped" /\ BuildEvent(TRUE)
    BY <1>6, <1>t, <2>2, SameQueue
    DEF IInv, SignalCoherent, ClientFitsDevice, CallbackFitsDevice, QueueFitsDevice,
        DisconnectReset, BuildEvent
  <2> QED BY <1>6, <2>1, <2>2 DEF DisconnectReset
<1>7. CASE ConnectStamp \/ ConnectStart \/ ConnectStartFails \/ ConnectDone
  BY <1>7, <1>t, <1>d, SameQueue
  DEF IInv, SignalCoherent, ClientFitsDevice, CallbackFitsDevice, QueueFitsDevice,
      ConnectStamp, ConnectStart, ConnectStartFails, ConnectDone
<1>8. CASE Disconnect \/ DisconnectStop \/ DisconnectClose \/ DisconnectDone
  BY <1>8, <1>t, <1>d, SameQueue
  DEF IInv, SignalCoherent, ClientFitsDevice, CallbackFitsDevice, QueueFitsDevice,
      HasInput, Disconnect, DisconnectStop, DisconnectClose, DisconnectDone
<1>9. CASE WaitEvent \/ WaitWakes \/ WaitTimesOut
  BY <1>9, <1>t, SameQueue
  DEF IInv, SignalCoherent, ClientFitsDevice, CallbackFitsDevice, QueueFitsDevice,
      WaitEvent, WaitWakes, WaitTimesOut
<1>10. CASE Tick \/ LongError \/ RearmHeader \/ UNCHANGED vars
  BY <1>1, <1>10 DEF Tick, LongError, RearmHeader, vars
<1>11. CASE ShortMessage \/ LongMessage
  BY <1>1, <1>11 DEF ShortMessage, LongMessage, BuildEvent
<1> QED
  BY <1>2, <1>3, <1>4, <1>5, <1>6, <1>7, <1>8, <1>9, <1>10, <1>11
  DEF Next, Connecting, Disconnecting, CallbackReturns

LEMMA Invariance == Spec => []IInv
  BY InvInit, InvStep, PTL DEF Spec

\* event_available is signalled exactly while the queue holds an event.
THEOREM SignalCorrect == Spec => []SignalCoherent
<1>1. IInv => SignalCoherent
  BY DEF IInv
<1> QED BY <1>1, Invariance, PTL

\* No queued event outlives the connection it was captured in, and a handle
\* that is not connected holds no input.
THEOREM NoStaleEventCorrect == Spec => []NoStaleEvent
<1>1. IInv => NoStaleEvent
  <2> SUFFICES ASSUME IInv PROVE NoStaleEvent
    OBVIOUS
  <2>1. queue.count \in Nat
    BY CapacityAssumption DEF IInv, TypeOK, Rings
  <2> QED BY <2>1
    DEF IInv, TypeOK, ClientFitsDevice, CallbackFitsDevice, QueueFitsDevice, HasInput,
        NoStaleEvent
<1> QED BY <1>1, Invariance, PTL

-----------------------------------------------------------------------------
(* The backend implements the abstract queue.  Every step of either thread *)
(* maps to Accept, Receive or Discard, or leaves the abstract queue alone. *)

LEMMA FifoInit == Init => Fifo!Init
<1> SUFFICES ASSUME Init PROVE Fifo!Init
  OBVIOUS
<1>1. queue \in Rings(Event) /\ queue.count = 0
  BY TypeInit DEF TypeOK, Init, ZeroRing
<1>2. Contents(queue) = <<>>
  BY <1>1, ContentsType
<1> QED BY <1>2 DEF Init, Fifo!Init

LEMMA FifoStep == IInv /\ [Next]_vars => [Fifo!Next]_(Fifo!vars)
<1> SUFFICES ASSUME IInv, [Next]_vars PROVE [Fifo!Next]_(Fifo!vars)
  OBVIOUS
<1> USE DEF fields, driver, ghosts
<1>t. /\ queue \in Rings(Event) /\ inflight \in Event
      /\ queue.count \in Nat /\ Capacity \in Nat
      /\ Contents(queue) \in Seq(Event) /\ Len(Contents(queue)) = queue.count
      /\ signalled \in BOOLEAN
  BY ContentsType, CapacityAssumption DEF IInv, TypeOK, Rings
<1>1. CASE UNCHANGED <<queue, received, signalled>>
  BY <1>1 DEF Fifo!vars
<1>2. CASE QueueEvent
  <2>1. CASE queue.count < Capacity
    <3>1. Contents(queue') = Append(Contents(queue), inflight)
      BY <1>2, <1>t, <2>1, PushedRing DEF QueueEvent
    <3>2. Fifo!Accept(inflight)
      BY <1>2, <1>t, <2>1, <3>1 DEF QueueEvent, Fifo!Accept
    <3> QED BY <1>t, <3>2 DEF Fifo!Next
  <2>2. CASE ~(queue.count < Capacity)
    BY <1>1, <1>2, <2>2 DEF QueueEvent, Pushed
  <2> QED BY <2>1, <2>2
<1>3. CASE PollEvent
  <2>1. CASE queue.count > 0
    <3>1. /\ Contents(queue') = Tail(Contents(queue))
          /\ Oldest(queue) = Head(Contents(queue))
          /\ queue'.count = queue.count - 1
          /\ queue' = Popped(queue)
      BY <1>3, <1>t, <2>1, PoppedRing DEF PollEvent
    <3>2. Contents(queue) # <<>>
      BY <1>t, <2>1
    <3>3. (queue.count - 1 > 0) <=> (Tail(Contents(queue)) # <<>>)
      <4>1. queue' \in Rings(Event)
        BY <1>3, <1>t, <2>1, PoppedRing DEF PollEvent
      <4>2. Contents(queue') \in Seq(Event) /\ Len(Contents(queue')) = queue.count - 1
        BY <3>1, <4>1, ContentsType
      <4>3. Contents(queue') # <<>> <=> queue.count - 1 > 0
        BY <1>t, <4>2
      <4> QED BY <3>1, <4>3
    <3>4. signalled' = (Tail(Contents(queue)) # <<>>)
      <4>1. signalled
        BY <2>1 DEF IInv, SignalCoherent
      <4>2. signalled' = (signalled /\ queue.count - 1 > 0)
        BY <1>3, <3>1 DEF PollEvent
      <4> QED BY <3>3, <4>1, <4>2
    <3>5. Fifo!Receive
      BY <1>3, <2>1, <3>1, <3>2, <3>4 DEF PollEvent, Fifo!Receive
    <3> QED BY <3>5 DEF Fifo!Next
  <2>2. CASE ~(queue.count > 0)
    BY <1>1, <1>3, <1>t, <2>2 DEF PollEvent, Popped, IInv, SignalCoherent
  <2> QED BY <2>1, <2>2
<1>4. CASE ConnectClear \/ DisconnectClear
  <2>1. Contents(queue') = <<>> /\ signalled' = FALSE /\ received' = received
    BY <1>4, <1>t, ClearedRing DEF ConnectClear, DisconnectClear, ClearQueue
  <2> QED BY <2>1 DEF Fifo!Next, Fifo!Discard
<1>5. CASE Tick \/ ShortMessage \/ LongMessage \/ LongError \/ RearmHeader
  BY <1>1, <1>5 DEF Tick, ShortMessage, LongMessage, LongError, RearmHeader
<1>6. CASE \/ ConnectOpen \/ ConnectStamp \/ ConnectStart \/ ConnectStartFails
           \/ ConnectDone
  BY <1>1, <1>6
  DEF ConnectOpen, ConnectStamp, ConnectStart, ConnectStartFails, ConnectDone
<1>7. CASE \/ Disconnect \/ DisconnectStop \/ DisconnectReset \/ DisconnectClose
           \/ DisconnectDone
  BY <1>1, <1>7
  DEF Disconnect, DisconnectStop, DisconnectReset, DisconnectClose, DisconnectDone
<1>8. CASE WaitEvent \/ WaitWakes \/ WaitTimesOut \/ UNCHANGED vars
  BY <1>1, <1>8 DEF WaitEvent, WaitWakes, WaitTimesOut, vars
<1> QED
  BY <1>2, <1>3, <1>4, <1>5, <1>6, <1>7, <1>8
  DEF Next, Connecting, Disconnecting, CallbackReturns

\* The ring, the lock and the event of the WinMM backend implement a bounded
\* first-in first-out queue with a ready flag.
THEOREM Refinement == Spec => ImplementsFifo
  BY FifoInit, FifoStep, Invariance, PTL DEF Spec, ImplementsFifo, Fifo!Spec
-----------------------------------------------------------------------------
(* The stream of polled and queued events.  Neither StreamInOrder nor      *)
(* FirstEventsKept is inductive: both depend on the event the callback has *)
(* built and not queued, and on which messages came before it.             *)

\* The messages of the connection whose callback has finished with them.
Delivered == IF callback = "built" THEN made - 1 ELSE made

\* No later event_ns of the connection is below this one.
Latest == IF callback = "built" THEN inflight.ns ELSE clock - started

\* The event a callback has built is the newest message, stamped after connect
\* read `started`; no message precedes midiInStart.
BuiltIsNewest ==
    /\ started <= clock
    /\ callback = "built" =>
         inflight.no = made /\ 0 <= inflight.ns /\ inflight.ns <= clock - started
    /\ client \in {"connect_clear", "connect_stamp", "connect_start"} => made = 0
    /\ queue.count <= Delivered

\* What polls have returned and will return was delivered before, and stamped
\* no later than, what the callback still holds.
StreamBehindCallback ==
    \A i \in DOMAIN Stream :
        /\ Stream[i].take <= take
        /\ Stream[i].take = take =>
             1 <= Stream[i].no /\ Stream[i].no <= Delivered /\ Stream[i].ns <= Latest

\* While the input may call back, the first Capacity messages it delivered are
\* all in the stream.
FirstDelivered ==
    device \in {"running", "stopped"} =>
        \A no \in 1 .. Capacity :
            no <= Delivered =>
                \E j \in DOMAIN Stream : Stream[j].take = take /\ Stream[j].no = no

StreamInv ==
    /\ StreamInOrder /\ FirstEventsKept
    /\ BuiltIsNewest /\ StreamBehindCallback /\ FirstDelivered

\* StreamInOrder and FirstEventsKept, of any sequence of events.
Ordered(s) ==
    /\ \A i \in 1 .. Len(s) : s[i].ns >= 0
    /\ \A i \in 1 .. Len(s) - 1 :
         \/ s[i].take < s[i + 1].take
         \/ /\ s[i].take = s[i + 1].take
            /\ s[i].no < s[i + 1].no /\ s[i].ns <= s[i + 1].ns

FirstKept(s) ==
    \A i \in 1 .. Len(s) :
        \A no \in 1 .. Capacity :
            no < s[i].no => \E j \in 1 .. i - 1 : s[j].take = s[i].take /\ s[j].no = no

\* The stream is a sequence of events whose first part has been received.
LEMMA StreamShape ==
    ASSUME TypeOK
    PROVE  /\ Stream \in Seq(Event)
           /\ DOMAIN Stream = 1 .. Len(Stream)
           /\ Len(received) <= Len(Stream)
           /\ \A i \in 1 .. Len(received) : Stream[i] = received[i]
<1>1. received \in Seq(Event) /\ Contents(queue) \in Seq(Event)
  BY ContentsType DEF TypeOK
<1> QED BY <1>1, ConcatProperties, LenProperties DEF Stream

LEMMA StreamProperties ==
    ASSUME TypeOK
    PROVE  StreamInOrder /\ FirstEventsKept <=> Ordered(Stream) /\ FirstKept(Stream)
BY StreamShape DEF StreamInOrder, FirstEventsKept, Ordered, FirstKept

\* Both properties hold of every first part of a sequence they hold of.
LEMMA FirstPart ==
    ASSUME NEW s \in Seq(Event), NEW r \in Seq(Event), Len(r) <= Len(s),
           \A i \in 1 .. Len(r) : s[i] = r[i],
           Ordered(s), FirstKept(s)
    PROVE  Ordered(r) /\ FirstKept(r)
<1>1. Ordered(r)
  <2>1. \A i \in 1 .. Len(r) - 1 : i + 1 \in 1 .. Len(r) /\ i \in 1 .. Len(r) /\ i \in 1 .. Len(s) - 1
    BY LenProperties
  <2>2. \A i \in 1 .. Len(r) : i \in 1 .. Len(s)
    BY LenProperties
  <2> QED BY <2>1, <2>2 DEF Ordered
<1>2. ASSUME NEW i \in 1 .. Len(r), NEW no \in 1 .. Capacity, no < r[i].no
      PROVE  \E j \in 1 .. i - 1 : r[j].take = r[i].take /\ r[j].no = no
  <2>1. i \in 1 .. Len(s) /\ s[i] = r[i]
    BY LenProperties
  <2>2. PICK j \in 1 .. i - 1 : s[j].take = s[i].take /\ s[j].no = no
    BY <1>2, <2>1 DEF FirstKept
  <2>3. j \in 1 .. Len(r)
    BY LenProperties
  <2> QED BY <2>1, <2>2, <2>3
<1> QED BY <1>1, <1>2 DEF FirstKept

\* An event may follow a stream of earlier events, if the first messages of its
\* connection that precede it are there.
LEMMA NextEvent ==
    ASSUME NEW s \in Seq(Event), NEW e \in Event, Ordered(s), FirstKept(s), 0 <= e.ns,
           \A i \in 1 .. Len(s) :
               \/ s[i].take < e.take
               \/ s[i].take = e.take /\ s[i].no < e.no /\ s[i].ns <= e.ns,
           \A no \in 1 .. Capacity :
               no < e.no => \E j \in 1 .. Len(s) : s[j].take = e.take /\ s[j].no = no
    PROVE  Ordered(Append(s, e)) /\ FirstKept(Append(s, e))
<1> DEFINE a == Append(s, e)
<1>1. /\ Len(s) \in Nat /\ Len(a) = Len(s) + 1
      /\ \A i \in 1 .. Len(s) : a[i] = s[i]
      /\ a[Len(s) + 1] = e
  BY AppendProperties, LenProperties
<1> HIDE DEF a
<1>2. Ordered(a)
  <2>1. ASSUME NEW i \in 1 .. Len(a)
        PROVE  a[i].ns >= 0
    <3>1. e.ns \in Int
      BY DEF Event
    <3>2. i \in 1 .. Len(s) \/ i = Len(s) + 1
      BY <1>1
    <3> QED BY <1>1, <3>1, <3>2 DEF Ordered
  <2>2. ASSUME NEW i \in 1 .. Len(a) - 1
        PROVE  \/ a[i].take < a[i + 1].take
               \/ /\ a[i].take = a[i + 1].take
                  /\ a[i].no < a[i + 1].no /\ a[i].ns <= a[i + 1].ns
    <3>1. i \in 1 .. Len(s) /\ a[i] = s[i]
      BY <1>1
    <3>2. CASE i = Len(s)
      BY <1>1, <3>1, <3>2
    <3>3. CASE i # Len(s)
      <4>1. i \in 1 .. Len(s) - 1 /\ a[i + 1] = s[i + 1]
        BY <1>1, <3>1, <3>3
      <4> QED BY <3>1, <4>1 DEF Ordered
    <3> QED BY <3>2, <3>3
  <2> QED BY <2>1, <2>2 DEF Ordered
<1>3. ASSUME NEW i \in 1 .. Len(a), NEW no \in 1 .. Capacity, no < a[i].no
      PROVE  \E j \in 1 .. i - 1 : a[j].take = a[i].take /\ a[j].no = no
  <2>1. CASE i = Len(s) + 1
    BY <1>1, <1>3, <2>1
  <2>2. CASE i # Len(s) + 1
    <3>1. i \in 1 .. Len(s) /\ a[i] = s[i]
      BY <1>1, <2>2
    <3>2. PICK j \in 1 .. i - 1 : s[j].take = s[i].take /\ s[j].no = no
      BY <1>3, <3>1 DEF FirstKept
    <3>3. a[j] = s[j]
      BY <1>1, <3>1
    <3> QED BY <3>1, <3>2, <3>3
  <2> QED BY <2>1, <2>2
<1> QED BY <1>2, <1>3 DEF FirstKept, a

\* A poll moves the head of the queue to the end of what was received.
LEMMA HeadMoved ==
    ASSUME NEW r \in Seq(Event), NEW c \in Seq(Event), c # <<>>
    PROVE  Append(r, Head(c)) \o Tail(c) = r \o c
<1>1. /\ Head(c) \in Event /\ Tail(c) \in Seq(Event)
      /\ c = <<Head(c)>> \o Tail(c)
  <2>1. 1 \in 1 .. Len(c) /\ Len(c) \in 1 .. Len(c) /\ Head(c) = c[1]
    BY EmptySeq
  <2>2. SubSeq(c, 1, Len(c)) = <<c[1]>> \o SubSeq(c, 1 + 1, Len(c))
    BY <2>1, SubSeqRecursiveFirst
  <2>3. Tail(c) = SubSeq(c, 1 + 1, Len(c))
    BY TailIsSubSeq
  <2> QED BY <2>1, <2>2, <2>3, SubSeqFull, HeadTailProperties
<1>2. <<Head(c)>> \in Seq(Event)
  BY <1>1
<1>3. Append(r, Head(c)) = r \o <<Head(c)>>
  BY <1>1, AppendIsConcat
<1>4. (r \o <<Head(c)>>) \o Tail(c) = r \o (<<Head(c)>> \o Tail(c))
  BY <1>1, <1>2, ConcatAssociative
<1> QED BY <1>1, <1>3, <1>4

\* What a step does to the stream: the callback appends, connect and disconnect
\* drop what was queued, and a poll moves an event from the queue to the client.
LEMMA StreamStep ==
    ASSUME IInv, [Next]_vars
    PROVE  \/ UNCHANGED Stream /\ queue'.count <= queue.count
              /\ (QueueEvent => ~(queue.count < Capacity))
              /\ ~ConnectClear /\ ~DisconnectClear
           \/ /\ QueueEvent /\ queue.count < Capacity
              /\ Stream' = Append(Stream, inflight)
              /\ queue'.count = queue.count + 1
           \/ /\ ConnectClear \/ DisconnectClear
              /\ Stream' = received /\ queue'.count = 0
<1> USE DEF fields, driver, ghosts
<1>t. /\ queue \in Rings(Event) /\ inflight \in Event /\ received \in Seq(Event)
      /\ queue.count \in Nat /\ Capacity \in Nat
      /\ Contents(queue) \in Seq(Event) /\ Len(Contents(queue)) = queue.count
  BY ContentsType, CapacityAssumption DEF IInv, TypeOK, Rings
<1>1. ASSUME QueueEvent, queue.count < Capacity
      PROVE  Stream' = Append(Stream, inflight) /\ queue'.count = queue.count + 1
  <2>1. /\ Contents(queue') = Append(Contents(queue), inflight)
        /\ queue'.count = queue.count + 1 /\ received' = received
    BY <1>1, <1>t, PushedRing DEF QueueEvent
  <2>2. Stream' = received \o Append(Contents(queue), inflight)
    BY <2>1 DEF Stream
  <2>3. received \o Append(Contents(queue), inflight) = Append(received \o Contents(queue), inflight)
    <3> DEFINE c == Contents(queue)
    <3>1. c \in Seq(Event)
      BY <1>t
    <3> HIDE DEF c
    <3>2. received \o Append(c, inflight) = Append(received \o c, inflight)
      BY <1>t, <3>1
    <3> QED BY <3>2 DEF c
  <2> QED BY <2>1, <2>2, <2>3 DEF Stream
<1>2. ASSUME ConnectClear \/ DisconnectClear
      PROVE  Stream' = received /\ queue'.count = 0
  <2>1. Contents(queue') = <<>> /\ received' = received /\ queue'.count = 0
    BY <1>2, <1>t, ClearedRing DEF ConnectClear, DisconnectClear, ClearQueue
  <2>2. received \o <<>> = received
    BY <1>t
  <2> QED BY <2>1, <2>2 DEF Stream
<1>3. ASSUME UNCHANGED <<queue, received>>
      PROVE  UNCHANGED Stream /\ queue'.count <= queue.count
  BY <1>3, <1>t DEF Stream
<1>4. ASSUME PollEvent
      PROVE  UNCHANGED Stream /\ queue'.count <= queue.count
  <2>1. CASE queue.count > 0
    <3>1. /\ Contents(queue') = Tail(Contents(queue))
          /\ received' = Append(received, Head(Contents(queue)))
          /\ queue'.count = queue.count - 1
      BY <1>4, <1>t, <2>1, PoppedRing DEF PollEvent
    <3>2. Contents(queue) # <<>>
      BY <1>t, <2>1, EmptySeq
    <3>3. Append(received, Head(Contents(queue))) \o Tail(Contents(queue))
            = received \o Contents(queue)
      BY <1>t, <3>2, HeadMoved
    <3>4. Stream' = received' \o Contents(queue')
      BY DEF Stream
    <3>5. Stream' = Stream
      BY <3>1, <3>3, <3>4 DEF Stream
    <3> QED BY <1>t, <3>1, <3>5
  <2>2. CASE ~(queue.count > 0)
    <3>1. UNCHANGED <<queue, received>>
      BY <1>4, <2>2 DEF PollEvent, Popped
    <3> QED BY <1>3, <3>1
  <2> QED BY <2>1, <2>2
<1>5. CASE QueueEvent
  BY <1>1, <1>3, <1>5, <1>t DEF QueueEvent, Pushed, ConnectClear, DisconnectClear
<1>6. CASE ConnectClear \/ DisconnectClear
  BY <1>2, <1>6
<1>7. CASE ~QueueEvent /\ ~ConnectClear /\ ~DisconnectClear
  <2>1. PollEvent \/ UNCHANGED <<queue, received>>
    BY <1>7
    DEF Next, Connecting, Disconnecting, CallbackReturns, vars, Tick, ShortMessage,
        LongMessage, LongError, RearmHeader, ConnectOpen, ConnectStamp, ConnectStart,
        ConnectStartFails, ConnectDone, Disconnect, DisconnectStop, DisconnectReset,
        DisconnectClose, DisconnectDone, WaitEvent, WaitWakes, WaitTimesOut
  <2> QED BY <1>3, <1>4, <1>7, <2>1
<1> QED BY <1>5, <1>6, <1>7

LEMMA StreamInit == Init => StreamInv
<1> SUFFICES ASSUME Init PROVE StreamInv
  OBVIOUS
<1>1. TypeOK /\ queue.count = 0 /\ received = <<>>
  BY TypeInit DEF Init, ZeroRing
<1>2. Len(Stream) = 0
  <2>1. Contents(queue) \in Seq(Event) /\ Len(Contents(queue)) = 0
    BY <1>1, ContentsType DEF TypeOK
  <2>2. <<>> \in Seq(Event) /\ Len(<<>>) = 0
    BY EmptySeq
  <2>3. Len(<<>> \o Contents(queue)) = 0 + 0
    BY <2>1, <2>2, ConcatProperties
  <2> QED BY <1>1, <2>3 DEF Stream
<1>3. Ordered(Stream) /\ FirstKept(Stream)
  BY <1>2 DEF Ordered, FirstKept
<1>4. StreamBehindCallback /\ FirstDelivered /\ BuiltIsNewest
  BY <1>1, <1>2, StreamShape
  DEF Init, StreamBehindCallback, FirstDelivered, BuiltIsNewest, Delivered
<1> QED BY <1>1, <1>3, <1>4, StreamProperties DEF StreamInv

\* The types of what the stream invariant compares.
LEMMA StreamNumbers ==
    ASSUME TypeOK
    PROVE  /\ made \in Nat /\ take \in Nat /\ clock \in Nat /\ started \in Nat
           /\ queue.count \in Nat /\ queue.count <= Capacity /\ Capacity \in Nat
           /\ inflight \in Event
           /\ inflight.take \in Nat /\ inflight.no \in Nat /\ inflight.ns \in Int
           /\ Stream \in Seq(Event) /\ Len(Stream) \in Nat /\ DOMAIN Stream = 1 .. Len(Stream)
           /\ \A i \in DOMAIN Stream :
                Stream[i].take \in Nat /\ Stream[i].no \in Nat /\ Stream[i].ns \in Int
<1>1. /\ made \in Nat /\ take \in Nat /\ clock \in Nat /\ started \in Nat
      /\ queue.count \in Nat /\ queue.count <= Capacity /\ Capacity \in Nat
      /\ inflight \in Event
  BY BoundsAssumption, CapacityAssumption DEF TypeOK, Rings
<1>2. \A e \in Event : e.take \in Nat /\ e.no \in Nat /\ e.ns \in Int
  BY BoundsAssumption DEF Event
<1>3. Stream \in Seq(Event) /\ Len(Stream) \in Nat /\ DOMAIN Stream = 1 .. Len(Stream)
  BY StreamShape, LenProperties
<1>4. \A i \in DOMAIN Stream : Stream[i] \in Event
  BY <1>3, ElementOfSeq
<1> QED BY <1>1, <1>2, <1>3, <1>4

LEMMA StreamInvStep == IInv /\ StreamInv /\ [Next]_vars => StreamInv'
<1> SUFFICES ASSUME IInv, StreamInv, [Next]_vars PROVE StreamInv'
  OBVIOUS
<1> USE DEF fields, driver, ghosts
<1>t. TypeOK /\ TypeOK' /\ IInv'
  BY InvStep, TypeStep DEF IInv
<1>n. /\ made \in Nat /\ take \in Nat /\ clock \in Nat /\ started \in Nat
      /\ queue.count \in Nat /\ queue.count <= Capacity /\ Capacity \in Nat
      /\ inflight \in Event
      /\ inflight.take \in Nat /\ inflight.no \in Nat /\ inflight.ns \in Int
      /\ Stream \in Seq(Event) /\ Len(Stream) \in Nat /\ DOMAIN Stream = 1 .. Len(Stream)
      /\ \A i \in DOMAIN Stream :
           Stream[i].take \in Nat /\ Stream[i].no \in Nat /\ Stream[i].ns \in Int
  BY <1>t, StreamNumbers
<1>o. Ordered(Stream) /\ FirstKept(Stream)
  BY <1>t, StreamProperties DEF StreamInv
<1>c. queue'.count \in Nat
  BY <1>t, CapacityAssumption DEF TypeOK, Rings
\* Steps that leave the stream alone.
<1>1. ASSUME UNCHANGED Stream PROVE (StreamInOrder /\ FirstEventsKept)'
  BY <1>1 DEF StreamInv, StreamInOrder, FirstEventsKept
<1>s. ASSUME ~ConnectClear, ~DisconnectClear, ~QueueEvent
      PROVE  UNCHANGED Stream /\ queue'.count <= queue.count
  BY <1>s, StreamStep
<1> USE DEF StreamInv, BuiltIsNewest, StreamBehindCallback, FirstDelivered, Delivered, Latest
<1>2. CASE Tick
  <2>1. UNCHANGED Stream /\ UNCHANGED <<queue, device, driver, client, started, take>>
        /\ clock' = clock + 1
    BY <1>2, <1>s DEF Tick, ConnectClear, DisconnectClear, QueueEvent
  <2> QED BY <1>1, <1>n, <2>1
<1>3. CASE ShortMessage \/ LongMessage \/ (DisconnectReset /\ BuildEvent(TRUE))
  <2>1. /\ UNCHANGED Stream /\ UNCHANGED <<queue, device, clock, started, take>>
        /\ callback = "idle" /\ callback' = "built" /\ made' = made + 1
        /\ inflight'.no = made' /\ inflight'.ns = clock - started
        /\ client' \notin {"connect_clear", "connect_stamp", "connect_start"}
    <3>1. callback = "idle" /\ callback' = "built" /\ UNCHANGED <<queue, device, clock, started, take>>
      BY <1>3 DEF ShortMessage, LongMessage, DisconnectReset, BuildEvent
    <3>2. ~ConnectClear /\ ~DisconnectClear /\ ~QueueEvent
      BY <3>1 DEF ConnectClear, DisconnectClear, QueueEvent
    <3>3. made' = made + 1 /\ inflight'.no = made' /\ inflight'.ns = clock - started
      BY <1>3 DEF ShortMessage, LongMessage, BuildEvent
    <3>4. client' \notin {"connect_clear", "connect_stamp", "connect_start"}
      BY <1>3 DEF ShortMessage, LongMessage, DisconnectReset, IInv, ClientFitsDevice
    <3> QED BY <1>s, <3>1, <3>2, <3>3, <3>4
  <2> QED BY <1>1, <1>n, <2>1
<1>4. CASE RearmHeader
  <2>1. UNCHANGED Stream /\ UNCHANGED <<queue, device, made, clock, client, started, take>>
        /\ callback = "rearm" /\ callback' = "idle"
    BY <1>4, <1>s DEF RearmHeader, ConnectClear, DisconnectClear, QueueEvent
  <2> QED BY <1>1, <1>n, <2>1
<1>5. CASE ConnectOpen
  <2>1. /\ UNCHANGED Stream /\ UNCHANGED <<queue, callback, clock, started>>
        /\ take' = take + 1 /\ made' = 0 /\ device' = "open"
    BY <1>5, <1>s DEF ConnectOpen, ConnectClear, DisconnectClear, QueueEvent
  <2>2. callback = "idle" /\ queue.count = 0
    BY <1>5, <1>n DEF ConnectOpen, IInv, CallbackFitsDevice, QueueFitsDevice
  <2> QED BY <1>1, <1>n, <2>1, <2>2
<1>6. CASE ConnectStamp
  <2>1. /\ UNCHANGED Stream /\ UNCHANGED <<queue, callback, clock, device, made, take>>
        /\ started' = clock /\ made = 0
    BY <1>6, <1>s DEF ConnectStamp, ConnectClear, DisconnectClear, QueueEvent
  <2>2. callback = "idle" /\ device = "open"
    BY <1>6, <1>t
    DEF ConnectStamp, IInv, TypeOK, ClientFitsDevice, CallbackFitsDevice
  <2> QED BY <1>1, <1>n, <2>1, <2>2
<1>7. CASE ConnectStart
  <2>1. /\ UNCHANGED Stream /\ UNCHANGED <<queue, callback, clock, started, made, take>>
        /\ made = 0 /\ client' = "connect_done"
    BY <1>7, <1>s DEF ConnectStart, ConnectClear, DisconnectClear, QueueEvent
  <2>2. callback = "idle"
    BY <1>7, <1>t DEF ConnectStart, IInv, TypeOK, ClientFitsDevice, CallbackFitsDevice
  <2> QED BY <1>1, <1>n, <2>1, <2>2
\* Steps of the client that only move it on, or stop and close the input.
<1>8. CASE /\ UNCHANGED <<driver, clock, started, take>> /\ ~QueueEvent
           /\ ~ConnectClear /\ ~DisconnectClear
           /\ client' \notin {"connect_clear", "connect_stamp", "connect_start"}
                \/ client' = client
           /\ device' \in {"running", "stopped"} => device \in {"running", "stopped"}
  <2>1. UNCHANGED Stream /\ queue'.count <= queue.count
    BY <1>s, <1>8
  <2>2. BuiltIsNewest'
    <3>1. UNCHANGED <<callback, inflight, made, clock, started>>
      BY <1>8
    <3> QED BY <1>n, <1>c, <1>8, <2>1, <3>1
  <2>3. StreamBehindCallback'
    BY <1>8, <2>1
  <2>4. FirstDelivered'
    BY <1>8, <2>1
  <2> QED BY <1>1, <2>1, <2>2, <2>3, <2>4
<1>9. CASE \/ LongError \/ ConnectStartFails \/ ConnectDone \/ Disconnect \/ DisconnectStop
           \/ DisconnectReset /\ UNCHANGED driver
           \/ DisconnectClose \/ DisconnectDone
           \/ PollEvent \/ WaitEvent \/ WaitWakes \/ WaitTimesOut \/ UNCHANGED vars
  <2>1. UNCHANGED <<driver, clock, started, take>>
    BY <1>9
    DEF LongError, ConnectStartFails, ConnectDone, Disconnect, DisconnectStop,
        DisconnectReset, DisconnectClose, DisconnectDone, PollEvent, WaitEvent, WaitWakes,
        WaitTimesOut, vars
  <2>2. /\ client' \notin {"connect_clear", "connect_stamp", "connect_start"}
             \/ client' = client
        /\ device' \in {"running", "stopped"} => device \in {"running", "stopped"}
    BY <1>9
    DEF LongError, ConnectStartFails, ConnectDone, Disconnect, DisconnectStop,
        DisconnectReset, DisconnectClose, DisconnectDone, PollEvent, WaitEvent, WaitWakes,
        WaitTimesOut, vars
  <2>3. ~QueueEvent /\ ~ConnectClear /\ ~DisconnectClear
    <3>1. callback' # callback \/ ~(callback = "built") \/ ~QueueEvent
      BY DEF QueueEvent
    <3>2. ~QueueEvent
      BY <2>1, <3>1 DEF QueueEvent
    <3>3. client' = client \/ client \notin {"connect_clear", "disconnect_clear"}
      BY <1>9
      DEF LongError, ConnectStartFails, ConnectDone, Disconnect, DisconnectStop,
          DisconnectReset, DisconnectClose, DisconnectDone, PollEvent, WaitEvent, WaitWakes,
          WaitTimesOut, vars
    <3> QED BY <3>2, <3>3 DEF ConnectClear, DisconnectClear
  <2> QED BY <1>8, <2>1, <2>2, <2>3
\* The callback queues its event, or finds the queue full.
<1>10. CASE QueueEvent
  <2>1. /\ callback = "built" /\ callback' # "built" /\ inflight.no = made
        /\ UNCHANGED <<made, take, clock, started, device, client, inflight>>
        /\ ~ConnectClear /\ ~DisconnectClear
        /\ inflight.take = take /\ device \in {"running", "stopped"}
    BY <1>10 DEF QueueEvent, IInv, CallbackFitsDevice, ConnectClear, DisconnectClear
  <2>2. queue.count <= made - 1 /\ queue'.count <= made
    <3>1. queue.count <= made - 1
      BY <2>1
    <3>2. queue'.count <= queue.count + 1
      BY <1>10, <1>n DEF QueueEvent, Pushed
    <3> QED BY <1>n, <1>c, <3>1, <3>2
  <2>3. BuiltIsNewest'
    BY <1>n, <2>1, <2>2
  <2>4. CASE queue.count < Capacity
    <3>1. Stream' = Append(Stream, inflight)
      BY <1>10, <2>1, <2>4, StreamStep
    <3>2. /\ Len(Stream') = Len(Stream) + 1 /\ DOMAIN Stream' = 1 .. Len(Stream) + 1
          /\ \A i \in 1 .. Len(Stream) : Stream'[i] = Stream[i]
          /\ Stream'[Len(Stream) + 1] = inflight
      BY <1>n, <3>1, AppendProperties, LenProperties
    <3>3. Ordered(Stream') /\ FirstKept(Stream')
      <4>1. ASSUME NEW i \in 1 .. Len(Stream)
            PROVE  \/ Stream[i].take < inflight.take
                   \/ /\ Stream[i].take = inflight.take
                      /\ Stream[i].no < inflight.no /\ Stream[i].ns <= inflight.ns
        BY <1>n, <2>1
      <4>2. ASSUME NEW no \in 1 .. Capacity, no < inflight.no
            PROVE  \E j \in 1 .. Len(Stream) :
                     Stream[j].take = inflight.take /\ Stream[j].no = no
        BY <1>n, <2>1, <4>2
      <4>3. 0 <= inflight.ns
        BY <2>1
      <4> QED BY <1>n, <1>o, <3>1, <4>1, <4>2, <4>3, NextEvent
    <3>4. (StreamInOrder /\ FirstEventsKept)'
      <4>1. (StreamInOrder /\ FirstEventsKept <=> Ordered(Stream) /\ FirstKept(Stream))'
        BY <1>t, <3>2 DEF StreamInOrder, FirstEventsKept, Ordered, FirstKept
      <4> QED BY <3>3, <4>1
    <3>5. StreamBehindCallback'
      <4> SUFFICES ASSUME NEW i \in 1 .. Len(Stream) + 1
                   PROVE  /\ Stream'[i].take <= take
                          /\ Stream'[i].take = take =>
                               /\ 1 <= Stream'[i].no /\ Stream'[i].no <= made
                               /\ Stream'[i].ns <= clock - started
        BY <2>1, <3>2
      <4>1. CASE i = Len(Stream) + 1
        BY <1>n, <2>1, <2>2, <3>2, <4>1
      <4>2. CASE i # Len(Stream) + 1
        <5>1. i \in DOMAIN Stream /\ Stream'[i] = Stream[i]
          BY <1>n, <3>2, <4>2
        <5> QED BY <1>n, <2>1, <5>1
      <4> QED BY <4>1, <4>2
    <3>6. FirstDelivered'
      <4> SUFFICES ASSUME NEW no \in 1 .. Capacity, no <= made
                   PROVE  \E j \in 1 .. Len(Stream) + 1 :
                            Stream'[j].take = take /\ Stream'[j].no = no
        BY <2>1, <3>2
      <4>1. CASE no = made
        BY <1>n, <2>1, <3>2, <4>1
      <4>2. CASE no # made
        <5>1. PICK j \in DOMAIN Stream : Stream[j].take = take /\ Stream[j].no = no
          BY <1>n, <2>1, <4>2
        <5> QED BY <1>n, <3>2, <5>1
      <4> QED BY <4>1, <4>2
    <3> QED BY <2>3, <3>4, <3>5, <3>6
  <2>5. CASE ~(queue.count < Capacity)
    <3>1. UNCHANGED Stream
      BY <1>10, <2>1, <2>5, StreamStep
    <3>2. \A no \in 1 .. Capacity : no <= made - 1
      BY <1>n, <2>2, <2>5
    <3>3. StreamBehindCallback'
      BY <1>n, <2>1, <3>1
    <3>4. FirstDelivered'
      BY <1>n, <2>1, <3>1, <3>2
    <3> QED BY <1>1, <2>3, <3>1, <3>3, <3>4
  <2> QED BY <2>4, <2>5
\* Connect and disconnect drop what is queued, outside the callback's time.
<1>11. CASE ConnectClear \/ DisconnectClear
  <2>1. /\ UNCHANGED <<driver, take, clock, started, device>>
        /\ client' \in {"connect_stamp", "disconnect_done"}
        /\ client' = "connect_stamp" => client = "connect_clear"
        /\ client \in {"connect_clear", "disconnect_clear"}
    BY <1>11 DEF ConnectClear, DisconnectClear
  <2>2. device \notin {"running", "stopped"} /\ callback = "idle"
    BY <1>t, <2>1 DEF IInv, TypeOK, ClientFitsDevice, CallbackFitsDevice
  <2>3. Stream' = received /\ queue'.count = 0
    BY <1>11, <2>1, <2>2, StreamStep DEF QueueEvent
  <2>4. /\ received \in Seq(Event) /\ Len(received) <= Len(Stream) /\ Len(received) \in Nat
        /\ DOMAIN received = 1 .. Len(received)
        /\ \A i \in 1 .. Len(received) : Stream[i] = received[i]
    BY <1>t, StreamShape, LenProperties DEF TypeOK
  <2>5. (StreamInOrder /\ FirstEventsKept)'
    <3>1. Ordered(received) /\ FirstKept(received)
      BY <1>n, <1>o, <2>4, FirstPart
    <3>2. (StreamInOrder /\ FirstEventsKept <=> Ordered(Stream) /\ FirstKept(Stream))'
      BY <2>3, <2>4 DEF StreamInOrder, FirstEventsKept, Ordered, FirstKept
    <3> QED BY <2>3, <3>1, <3>2
  <2>6. StreamBehindCallback'
    BY <1>n, <2>1, <2>3, <2>4
  <2>7. BuiltIsNewest' /\ FirstDelivered'
    BY <1>n, <2>1, <2>2, <2>3
  <2> QED BY <2>5, <2>6, <2>7
<1>12. CASE DisconnectReset
  BY <1>3, <1>9, <1>12 DEF DisconnectReset
<1> QED
  BY <1>2, <1>3, <1>4, <1>5, <1>6, <1>7, <1>9, <1>10, <1>11, <1>12
  DEF Next, Connecting, Disconnecting, CallbackReturns

LEMMA StreamInvariance == Spec => []StreamInv
  BY Invariance, StreamInit, StreamInvStep, PTL DEF Spec

\* Polls return the driver's messages in the driver's order, none twice, with
\* times that never run backwards nor below zero, although the callback samples
\* its clock before it takes the lock.
THEOREM StreamInOrderCorrect == Spec => []StreamInOrder
<1>1. StreamInv => StreamInOrder
  BY DEF StreamInv
<1> QED BY <1>1, StreamInvariance, PTL

\* The first Capacity messages of every connection reach the client before any
\* later one.
THEOREM FirstEventsCorrect == Spec => []FirstEventsKept
<1>1. StreamInv => FirstEventsKept
  BY DEF StreamInv
<1> QED BY <1>1, StreamInvariance, PTL
=============================================================================
