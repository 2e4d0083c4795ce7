---------------------------- MODULE MidiHalWinmm ----------------------------
(***************************************************************************)
(* The WinMM backend of the MIDI HAL (midi_hal_winmm.c).  Two threads      *)
(* share one ht_midi_hal: the client, which calls connect, disconnect,     *)
(* poll_event and wait_event one at a time, and the driver, which calls    *)
(* midi_input_proc while the input is running.  Each action is one step    *)
(* between two points where the other thread can run: a critical section,  *)
(* a WinMM call, or an unlocked assignment the other thread can see.       *)
(*                                                                         *)
(* The driver is outside the repository.  What the code relies on:         *)
(*   - it calls midi_input_proc from one thread, only between a successful *)
(*     midiInStart and the return of midiInStop, or from midiInReset to    *)
(*     return the SysEx buffer;                                            *)
(*   - midiInClose returns only when no callback is running, and fails     *)
(*     (MIDIERR_STILLPLAYING) while the driver owns the SysEx buffer.      *)
(*                                                                         *)
(* A connect that midiInOpen or the device id refuses changes no field and *)
(* is a stuttering step.                                                   *)
(***************************************************************************)
EXTENDS Integers, Sequences, RawEventRing

CONSTANTS
    MaxTakes,    \* bound: successful midiInOpen calls
    MaxEvents,   \* bound: messages the driver delivers in one take
    MaxClock     \* bound: the performance counter

ASSUME BoundsAssumption ==
    /\ MaxTakes \in Nat
    /\ MaxEvents \in Nat
    /\ MaxClock \in Nat

\* What a queued ht_midi_hal_event is told apart by: event_ns, and (ghosts)
\* the connection it was captured in and its place in the driver's order.
Event == [take : 0 .. MaxTakes, no : 0 .. MaxEvents, ns : -MaxClock .. MaxClock]

ZeroEvent == [take |-> 0, no |-> 0, ns |-> 0]

VARIABLES
    queue,      \* queue, head, count
    signalled,  \* event_available, a manual-reset event
    connected,  \* connected
    started,    \* started, the counter value event_ns is relative to
    device,     \* input: "closed" is NULL; "stuck" is a handle WinMM kept
    header,     \* sysex_header: who owns it
    callback,   \* where the driver's thread is in midi_input_proc
    inflight,   \* the event queue_raw_event has built and not queued yet
    long,       \* whether that callback is MIM_LONGDATA
    client,     \* where the client's thread is
    clock,      \* QueryPerformanceCounter
    take,       \* ghost: connections opened so far
    made,       \* ghost: messages the driver delivered in this take
    received,   \* ghost: every event poll_event returned
    lost,       \* ghost: events of this take that found the queue full
    reported    \* ghost: statuses poll_event returned in this take

fields == <<queue, signalled, connected, started, device, header>>
driver == <<callback, inflight, long, made>>
ghosts == <<take, received, lost, reported>>
vars == <<fields, driver, client, clock, ghosts>>

Init ==
    /\ queue = ZeroRing(ZeroEvent)
    /\ signalled = FALSE
    /\ connected = FALSE
    /\ started = 0
    /\ device = "closed"
    /\ header = "app"
    /\ callback = "idle" /\ inflight = ZeroEvent /\ long = FALSE
    /\ client = "idle"
    /\ clock = 0
    /\ take = 0 /\ made = 0
    /\ received = <<>> /\ lost = {} /\ reported = {}

Tick ==
    /\ clock < MaxClock
    /\ clock' = clock + 1
    /\ UNCHANGED <<fields, driver, client, ghosts>>

(***************************************************************************)
(* The driver's thread                                                     *)
(***************************************************************************)

\* queue_raw_event up to EnterCriticalSection: event_ns is sampled unlocked.
BuildEvent(isLong) ==
    /\ made < MaxEvents
    /\ made' = made + 1
    /\ inflight' = [take |-> take, no |-> made + 1, ns |-> clock - started]
    /\ long' = isLong
    /\ callback' = "built"

\* MIM_DATA
ShortMessage ==
    /\ device = "running" /\ callback = "idle"
    /\ BuildEvent(FALSE)
    /\ UNCHANGED <<fields, client, clock, ghosts>>

\* MIM_LONGDATA with bytes recorded: the driver gives the buffer up.
LongMessage ==
    /\ device = "running" /\ callback = "idle" /\ header = "driver"
    /\ BuildEvent(TRUE)
    /\ header' = "app"
    /\ UNCHANGED <<queue, signalled, connected, started, device, client, clock, ghosts>>

\* MIM_LONGERROR: the buffer comes back, and the callback ignores it.
LongError ==
    /\ device = "running" /\ callback = "idle" /\ header = "driver"
    /\ header' = "app"
    /\ UNCHANGED <<queue, signalled, connected, started, device, driver, client,
                   clock, ghosts>>

\* Mutant: the event is queued without SetEvent.
QueueEvent_NoSignal ==
    /\ callback = "built"
    /\ queue' = Pushed(queue, inflight)
    /\ lost' = IF queue.count < Capacity THEN lost ELSE lost \cup {inflight}
    /\ callback' = IF long THEN "rearm" ELSE "idle"
    /\ UNCHANGED <<signalled, connected, started, device, header, inflight, long, made,
                   client, clock, take, received, reported>>

\* Mutant: disconnect holds the lock from midiInReset to midiInClose.
QueueEvent_LockHeld ==
    /\ callback = "built" /\ client \notin {"disconnect_reset", "disconnect_close"}
    /\ queue' = Pushed(queue, inflight)
    /\ IF queue.count < Capacity
       THEN signalled' = TRUE /\ lost' = lost
       ELSE signalled' = signalled /\ lost' = lost \cup {inflight}
    /\ callback' = IF long THEN "rearm" ELSE "idle"
    /\ UNCHANGED <<connected, started, device, header, inflight, long, made, client,
                   clock, take, received, reported>>

\* The critical section of queue_raw_event.
QueueEvent ==
    /\ callback = "built"
    /\ queue' = Pushed(queue, inflight)
    /\ IF queue.count < Capacity
       THEN signalled' = TRUE /\ lost' = lost
       ELSE signalled' = signalled /\ lost' = lost \cup {inflight}
    /\ callback' = IF long THEN "rearm" ELSE "idle"
    /\ UNCHANGED <<connected, started, device, header, inflight, long, made, client,
                   clock, take, received, reported>>

\* midiInAddBuffer at the end of MIM_LONGDATA.
RearmHeader ==
    /\ callback = "rearm"
    /\ header' = "driver"
    /\ callback' = "idle"
    /\ UNCHANGED <<queue, signalled, connected, started, device, inflight, long, made,
                   client, clock, ghosts>>

(***************************************************************************)
(* ht_midi_hal_connect                                                     *)
(***************************************************************************)

\* Guards, midiInOpen, midiInPrepareHeader and midiInAddBuffer.  There is one
\* device: once it is stuck, midiInOpen refuses it for good.
ConnectOpen ==
    /\ client = "idle" /\ ~connected /\ device = "closed"
    /\ take < MaxTakes
    /\ device' = "open"
    /\ header' \in {"app", "driver"}  \* the results are ignored
    /\ client' = "connect_clear"
    /\ take' = take + 1
    /\ made' = 0 /\ lost' = {} /\ reported' = {}
    /\ UNCHANGED <<queue, signalled, connected, started, callback, inflight, long,
                   clock, received>>

\* Mutant: the queue is emptied without ResetEvent.
ClearQueue_NoReset ==
    /\ queue' = Cleared(queue)
    /\ UNCHANGED signalled

ClearQueue ==
    /\ queue' = Cleared(queue)
    /\ signalled' = FALSE

ConnectClear ==
    /\ client = "connect_clear"
    /\ ClearQueue
    /\ client' = "connect_stamp"
    /\ UNCHANGED <<connected, started, device, header, driver, clock, ghosts>>

ConnectStamp ==
    /\ client = "connect_stamp"
    /\ started' = clock
    /\ client' = "connect_start"
    /\ UNCHANGED <<queue, signalled, connected, device, header, driver, clock, ghosts>>

\* midiInStart: the driver may call back before connected is set.
ConnectStart ==
    /\ client = "connect_start"
    /\ device' = "running"
    /\ client' = "connect_done"
    /\ UNCHANGED <<queue, signalled, connected, started, header, driver, clock, ghosts>>

\* midiInStart fails: connect disconnects before it returns HT_ERR_IO.
ConnectStartFails ==
    /\ client = "connect_start"
    /\ client' = "disconnect_stop"
    /\ UNCHANGED <<fields, driver, clock, ghosts>>

\* Mutant: the queue is cleared after midiInStart.
ConnectDone_Clears ==
    /\ client = "connect_done"
    /\ connected' = TRUE
    /\ ClearQueue
    /\ client' = "idle"
    /\ UNCHANGED <<started, device, header, driver, clock, ghosts>>

ConnectDone ==
    /\ client = "connect_done"
    /\ connected' = TRUE
    /\ client' = "idle"
    /\ UNCHANGED <<queue, signalled, started, device, header, driver, clock, ghosts>>

(***************************************************************************)
(* ht_midi_hal_disconnect, of a connected handle or of any other           *)
(***************************************************************************)

HasInput == device \in {"open", "running", "stopped"}

Disconnect ==
    /\ client = "idle"
    /\ client' = IF HasInput THEN "disconnect_stop" ELSE "disconnect_clear"
    /\ UNCHANGED <<fields, driver, clock, ghosts>>

\* midiInStop; an input that never started stays "open".
DisconnectStop ==
    /\ client = "disconnect_stop"
    /\ device' = IF device = "running" THEN "stopped" ELSE device
    /\ client' = "disconnect_reset"
    /\ UNCHANGED <<queue, signalled, connected, started, header, driver, clock, ghosts>>

\* midiInReset returns the SysEx buffer, if the driver has it, through the
\* callback: empty, or holding the part of a message that had arrived.
DisconnectReset ==
    /\ client = "disconnect_reset" /\ callback = "idle"
    /\ client' = "disconnect_close"
    /\ header' = "app"
    /\ \/ UNCHANGED driver
       \/ device = "stopped" /\ header = "driver" /\ BuildEvent(TRUE)
    /\ UNCHANGED <<queue, signalled, connected, started, device, clock, ghosts>>

\* midiInUnprepareHeader and midiInClose, whose results are ignored.
DisconnectClose ==
    /\ client = "disconnect_close" /\ callback = "idle"
    /\ device' = IF header = "driver" THEN "stuck" ELSE "closed"
    /\ client' = "disconnect_clear"
    /\ UNCHANGED <<queue, signalled, connected, started, header, driver, clock, ghosts>>

\* Mutant: disconnect leaves the queue to the next connect.
DisconnectClear_Skipped ==
    /\ client = "disconnect_clear"
    /\ client' = "disconnect_done"
    /\ UNCHANGED <<fields, driver, clock, ghosts>>

DisconnectClear ==
    /\ client = "disconnect_clear"
    /\ ClearQueue
    /\ client' = "disconnect_done"
    /\ UNCHANGED <<connected, started, device, header, driver, clock, ghosts>>

DisconnectDone ==
    /\ client = "disconnect_done"
    /\ connected' = FALSE
    /\ client' = "idle"
    /\ UNCHANGED <<queue, signalled, started, device, header, driver, clock, ghosts>>

(***************************************************************************)
(* ht_midi_hal_poll_event and ht_midi_hal_wait_event                       *)
(***************************************************************************)

\* Mutant: the last event is never popped.
PollEvent_LeavesLast ==
    /\ client = "idle"
    /\ IF queue.count > 1
       THEN queue' = Popped(queue) /\ received' = Append(received, Oldest(queue))
       ELSE queue' = queue /\ received' = received
    /\ signalled' = (signalled /\ queue.count > 0)
    /\ reported' = reported \cup {"HT_OK"}
    /\ UNCHANGED <<connected, started, device, header, driver, client, clock, take, lost>>

\* The critical section: pop, and ResetEvent when nothing is left.
PollEvent ==
    /\ client = "idle"
    /\ queue' = Popped(queue)
    /\ received' = IF queue.count > 0 THEN Append(received, Oldest(queue)) ELSE received
    /\ signalled' = (signalled /\ Popped(queue).count > 0)
    /\ reported' = reported \cup {"HT_OK"}
    /\ UNCHANGED <<connected, started, device, header, driver, client, clock, take, lost>>

WaitEvent ==
    /\ client = "idle" /\ connected
    /\ client' = "waiting"
    /\ UNCHANGED <<fields, driver, clock, ghosts>>

\* WAIT_OBJECT_0
WaitWakes ==
    /\ client = "waiting" /\ signalled
    /\ client' = "idle"
    /\ UNCHANGED <<fields, driver, clock, ghosts>>

\* WAIT_TIMEOUT
WaitTimesOut ==
    /\ client = "waiting"
    /\ client' = "idle"
    /\ UNCHANGED <<fields, driver, clock, ghosts>>

-----------------------------------------------------------------------------

Connecting == ConnectClear \/ ConnectStamp \/ ConnectStart \/ ConnectStartFails \/ ConnectDone

Disconnecting ==
    DisconnectStop \/ DisconnectReset \/ DisconnectClose \/ DisconnectClear \/ DisconnectDone

CallbackReturns == QueueEvent \/ RearmHeader

Next ==
    \/ Tick
    \/ ShortMessage \/ LongMessage \/ LongError \/ CallbackReturns
    \/ ConnectOpen \/ Connecting
    \/ Disconnect \/ Disconnecting
    \/ PollEvent \/ WaitEvent \/ WaitWakes \/ WaitTimesOut

Spec == Init /\ [][Next]_vars

(***************************************************************************)
(* Fairness.  Threads inside a call make progress, and a signalled wait    *)
(* returns.  A wait need not time out, no message need arrive, and nobody  *)
(* need connect or disconnect.  Polls are strongly fair because a client   *)
(* polls after each wait (capture_events and drain_events of               *)
(* ht_midi_probe.c), so it cannot wait forever without polling.            *)
(***************************************************************************)
Fairness ==
    /\ WF_vars(Connecting)
    /\ WF_vars(Disconnecting)
    /\ WF_vars(CallbackReturns)
    /\ WF_vars(WaitWakes)
    /\ SF_vars(PollEvent)

FairSpec == Spec /\ Fairness

-----------------------------------------------------------------------------

ClientSteps ==
    {"idle", "waiting", "connect_clear", "connect_stamp", "connect_start",
     "connect_done", "disconnect_stop", "disconnect_reset", "disconnect_close",
     "disconnect_clear", "disconnect_done"}

\* The fields of ht_midi_hal and the threads' positions keep their ranges; in
\* particular head and count never leave the array.
TypeOK ==
    /\ queue \in Rings(Event)
    /\ signalled \in BOOLEAN /\ connected \in BOOLEAN /\ long \in BOOLEAN
    /\ started \in 0 .. MaxClock /\ clock \in 0 .. MaxClock
    /\ device \in {"closed", "open", "running", "stopped", "stuck"}
    /\ header \in {"app", "driver"}
    /\ callback \in {"idle", "built", "rearm"}
    /\ inflight \in Event
    /\ client \in ClientSteps
    /\ take \in 0 .. MaxTakes /\ made \in 0 .. MaxEvents
    /\ received \in Seq(Event)
    /\ lost \subseteq Event
    /\ reported \subseteq {"HT_OK"}

\* event_available, set by the callback and reset by polls, connects and
\* disconnects, is signalled exactly while the queue holds an event: a wait
\* neither sleeps over a queued event nor spins on an empty queue.
SignalCoherent == signalled <=> queue.count > 0

\* An event queued in one connection is never polled in the next one, and
\* between calls a handle that is not connected holds neither an event nor an
\* input: whatever the callback was doing when disconnect or connect emptied
\* the queue, it adds nothing afterwards, and a connect whose midiInStart
\* fails closes the device it had opened.
NoStaleEvent ==
    /\ \A i \in 1 .. queue.count : Contents(queue)[i].take = take
    /\ client = "idle" /\ ~connected =>
         queue.count = 0 /\ callback = "idle" /\ ~HasInput

\* What polls have returned and will return.
Stream == received \o Contents(queue)

\* Polls return the driver's messages in the driver's order without
\* duplicates, and event_ns never runs backwards within a connection nor
\* below zero, although it is sampled before the lock is taken and `started`
\* is rewritten by every connect.
StreamInOrder ==
    /\ \A i \in DOMAIN Stream : Stream[i].ns >= 0
    /\ \A i \in 1 .. Len(Stream) - 1 :
         LET a == Stream[i]  b == Stream[i + 1]
         IN  \/ a.take < b.take
             \/ a.take = b.take /\ a.no < b.no /\ a.ns <= b.ns

\* The first Capacity messages of a connection reach the client before any
\* later one, however slowly it polls: the callbacks that race the rest of
\* connect lose nothing, and the queue overflows no earlier than it must.
FirstEventsKept ==
    \A i \in DOMAIN Stream :
        \A no \in 1 .. Capacity :
            no < Stream[i].no =>
                \E j \in 1 .. i - 1 : Stream[j].take = Stream[i].take /\ Stream[j].no = no

\* The backend behaves as a bounded first-in first-out queue with a ready flag.
Fifo == INSTANCE EventFifo
            WITH pending <- Contents(queue), ready <- signalled

ImplementsFifo == Fifo!Spec

\* A client blocked in wait_event while the queue holds an event is woken: no
\* interleaving of SetEvent and ResetEvent loses the wakeup.
WaitIsWoken == (client = "waiting" /\ queue.count > 0) ~> (client # "waiting")

\* connect and disconnect return, although disconnect waits for the callback
\* that may be about to take the lock.
CallsReturn == (client \notin {"idle", "waiting"}) ~> (client = "idle")

\* A queued event is polled, or discarded with its connection.
QueuedLeaves ==
    \A t \in 1 .. MaxTakes, n \in 1 .. MaxEvents :
        LET Queued == \E i \in 1 .. queue.count :
                         Contents(queue)[i].take = t /\ Contents(queue)[i].no = n
        IN  Queued ~> ~Queued

\* docs/REVIEW-HANON-MIDI-HAL-PLAN.md: "The overflow behavior must return a
\* status or emit a clear diagnostic path."  Once a client has polled a queue
\* empty that refused events, some poll has returned other than HT_OK.
OverflowSurfaces ==
    connected /\ client = "idle" /\ queue.count = 0 /\ lost # {} => reported \ {"HT_OK"} # {}

\* midi_capture.h: "Call stop before starting another stream with the same
\* handle."  After a disconnect WinMM has taken the input handle back, so the
\* next connect can open the device again.
DisconnectReleasesInput == client = "idle" /\ ~connected => device # "stuck"
=============================================================================
