----------------------------- MODULE MidiHalAlsa -----------------------------
(***************************************************************************)
(* midi_hal_alsa.c: a client of the ALSA sequencer.  Events wait in the    *)
(* kernel's queue, which the descriptors of wait_event watch; a read moves *)
(* all of them to the library's buffer, which they do not.  The sequencer  *)
(* is modelled from the calls the backend makes.                           *)
(***************************************************************************)
EXTENDS MidiDecode

CONSTANTS
    AlsaEvent,       \* events that can arrive: type, channel, a, b
    KernelCapacity,  \* events the kernel's queue holds
    MaxEvents        \* bound: events that arrive

ASSUME AlsaAssumption ==
    /\ KernelCapacity \in Nat \ {0} /\ MaxEvents \in Nat
    /\ \A e \in AlsaEvent : e.channel \in Int /\ e.a \in Int /\ e.b \in Int

VARIABLES
    seq,               \* the sequencer client is open
    local_port,        \* its port exists
    subscribed,        \* the kernel forwards the sender's events to it
    poll_descriptors,  \* allocated
    connected,         \* hal->connected
    kernel,            \* the client's queue in the kernel
    overrun,           \* an event did not fit in it
    inbuf,             \* events read and not yet returned
    arrived            \* ghost: events the kernel has queued

handles == <<seq, local_port, subscribed, poll_descriptors, connected>>
queues == <<kernel, overrun, inbuf, arrived>>
alsa == <<handles, queues>>

AlsaInit ==
    /\ seq = FALSE /\ local_port = FALSE /\ subscribed = FALSE
    /\ poll_descriptors = FALSE /\ connected = FALSE
    /\ kernel = <<>> /\ overrun = FALSE /\ inbuf = <<>> /\ arrived = <<>>

-----------------------------------------------------------------------------
(* Connection                                                              *)

OpenSequencer ==
    /\ seq' = TRUE
    /\ UNCHANGED <<local_port, subscribed, poll_descriptors, connected, queues>>

CreatePort ==
    /\ local_port' = TRUE
    /\ UNCHANGED <<seq, subscribed, poll_descriptors, connected, queues>>

ConnectFrom ==
    /\ subscribed' = TRUE
    /\ UNCHANGED <<seq, local_port, poll_descriptors, connected, queues>>

AllocDescriptors ==
    /\ poll_descriptors' = TRUE
    /\ UNCHANGED <<seq, local_port, subscribed, connected, queues>>

Connected ==
    /\ connected' = TRUE
    /\ UNCHANGED <<seq, local_port, subscribed, poll_descriptors, queues>>

\* Mutant: only a connection that was made is closed.
CloseConnection_IfConnected ==
    /\ seq' = (seq /\ ~connected) /\ local_port' = (local_port /\ ~connected)
    /\ subscribed' = (subscribed /\ ~connected)
    /\ poll_descriptors' = (poll_descriptors /\ ~connected)
    /\ connected' = FALSE
    /\ kernel' = <<>> /\ overrun' = FALSE /\ inbuf' = <<>> /\ UNCHANGED arrived

\* close_connection: port, client and descriptors go, at whatever point the
\* connection was; the kernel drops subscription and queue with them.
CloseConnection ==
    /\ seq' = FALSE /\ local_port' = FALSE /\ subscribed' = FALSE
    /\ poll_descriptors' = FALSE /\ connected' = FALSE
    /\ kernel' = <<>> /\ overrun' = FALSE /\ inbuf' = <<>> /\ UNCHANGED arrived

-----------------------------------------------------------------------------
(* Events                                                                  *)

\* The kernel forwards an event while the subscription lasts.
Arrives(e) ==
    /\ subscribed /\ Len(arrived) < MaxEvents /\ ~overrun
    /\ IF Len(kernel) < KernelCapacity
       THEN /\ kernel' = Append(kernel, e) /\ arrived' = Append(arrived, e)
            /\ UNCHANGED overrun
       ELSE overrun' = TRUE /\ UNCHANGED <<kernel, arrived>>
    /\ UNCHANGED <<handles, inbuf>>

Clamp(n, most) == IF n < 0 THEN 0 ELSE IF n > most THEN most ELSE n

Clamp7Bit(n) == Clamp(n, 127)
ChannelStatus(class, channel) == class + Clamp(channel, 15)
NormalizePitchbend(n) == Clamp(n + 8192, 16383)

\* SYSEX carries its length in a and its first byte in b.  The kernel splits
\* a long one, and only the first piece begins with 240.
ConvertSysex(e) ==
    [raw |-> IF e.a = 0 THEN <<240>> ELSE <<e.b>>, sysex |-> IF e.a = 0 THEN 1 ELSE e.a]

\* convert_alsa_event.
ConvertAlsaEvent(e) ==
    LET Message(class, data) == [raw |-> <<ChannelStatus(class, e.channel)>> \o data, sysex |-> 0]
        One == <<Clamp7Bit(e.a)>>
        Two == <<Clamp7Bit(e.a), Clamp7Bit(e.b)>>
        Bend == NormalizePitchbend(e.a)
    IN  CASE e.type = "NOTEON" -> Message(144, Two)
          [] e.type = "NOTEOFF" -> Message(128, Two)
          [] e.type = "KEYPRESS" -> Message(160, Two)
          [] e.type = "CONTROLLER" -> Message(176, Two)
          [] e.type = "PGMCHANGE" -> Message(192, One)
          [] e.type = "CHANPRESS" -> Message(208, One)
          [] e.type = "PITCHBEND" -> Message(224, <<Bend % 128, Bend \div 128>>)
          [] e.type = "SYSEX" -> ConvertSysex(e)
          [] OTHER -> [raw |-> <<248>>, sysex |-> 0]

\* poll_event, when it returns an event: the read, if one is needed, takes all
\* the kernel has.
AlsaPending == inbuf \o (IF inbuf = <<>> /\ ~overrun THEN kernel ELSE <<>>)

AlsaTake ==
    /\ connected /\ AlsaPending # <<>>
    /\ inbuf' = Tail(AlsaPending)
    /\ kernel' = IF inbuf = <<>> THEN <<>> ELSE kernel
    /\ UNCHANGED <<handles, overrun, arrived>>

\* The read reports an overrun, for which the kernel clears the queue.
AlsaReadFails ==
    /\ connected /\ inbuf = <<>> /\ overrun
    /\ overrun' = FALSE /\ kernel' = <<>>
    /\ UNCHANGED <<handles, inbuf, arrived>>

\* -EAGAIN.
AlsaNoEvent == connected => inbuf = <<>> /\ kernel = <<>> /\ ~overrun

\* What the descriptors show.
AlsaReadable == kernel # <<>>
=============================================================================
