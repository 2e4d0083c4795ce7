------------------------------ MODULE MidiProbe ------------------------------
(***************************************************************************)
(* ht_midi_probe: it lists ports, replays a file, or connects and prints   *)
(* what arrives until a deadline, a signal or an error.  It is built over  *)
(* the ALSA backend or over the fake one.                                  *)
(***************************************************************************)
EXTENDS MidiHalAlsa, MidiHalFake

CONSTANTS
    Option,  \* sets of options the tool can be started with
    Replays  \* replay files: sequences of lines

VARIABLES
    backend,         \* "alsa" or "fake", constant
    options,         \* the options, constant
    pc,              \* where the tool is
    stop_requested,  \* stop_requested
    late,            \* the deadline has passed
    lines,           \* lines of the open replay file not read yet
    input,           \* the replay file is open
    printed,         \* events printed
    failed,          \* what it fails with, "none" for an exit code of 0
    due              \* ghost: events queued when the capture loop ended

tool == <<stop_requested, late, lines, input, printed, failed, due>>
vars == <<backend, options, pc, tool, alsa, fake>>

\* parse_options: what the tool does.  The checks on each value are left out.
Mode(o) ==
    LET Capture == {"--port", "--duration"}
    IN  IF "--list" \in o THEN IF o = {"--list"} THEN "list" ELSE "usage"
        ELSE IF "--replay-raw-tsv" \in o
             THEN IF o \cap Capture = {} /\ "--format" \in o THEN "replay" ELSE "usage"
        ELSE IF Capture \cup {"--format"} \subseteq o THEN "connect" ELSE "usage"

Init ==
    /\ backend \in {"alsa", "fake"} /\ options \in Option
    /\ AlsaInit /\ FakeInit
    /\ pc = Mode(options)
    /\ stop_requested = FALSE /\ late = FALSE
    /\ lines \in IF Mode(options) = "replay" THEN Replays ELSE {<<>>}
    /\ input = FALSE /\ printed = <<>> /\ failed = "none" /\ due = 0

Goto(there) == pc' = there /\ UNCHANGED <<backend, options>>

\* The tool returns `why'.
End(why) ==
    /\ Goto("ended") /\ failed' = why
    /\ UNCHANGED <<stop_requested, late, printed, due>>

\* decode_hal_event.
Printable(e) == (e.raw[1] = 240 /\ e.sysex > 0) \/ IsDecodable(e.raw)

-----------------------------------------------------------------------------
(* Usage, --list and --replay-raw-tsv                                      *)

Usage == pc = "usage" /\ End("usage") /\ UNCHANGED <<lines, input, alsa, fake>>

\* list_ports; the sequencer ht_midi_hal_list_ports opens, it closes.
ListPorts ==
    /\ pc = "list"
    /\ \E why \in {"none", "list"} : End(why)
    /\ UNCHANGED <<lines, input, alsa, fake>>

\* The file does not open or has another header; otherwise its first line is
\* next.
OpenReplay ==
    /\ pc = "replay"
    /\ \/ End("file") /\ UNCHANGED <<lines, input>>
       \/ Goto("line") /\ input' = TRUE
          /\ UNCHANGED <<stop_requested, late, lines, printed, failed, due>>
    /\ UNCHANGED <<alsa, fake>>

\* A line that does not parse is <<>> here.
GoodLine == Head(lines) # <<>> /\ IsDecodable(Head(lines))

ReplayLine ==
    /\ pc = "line" /\ lines # <<>> /\ GoodLine
    /\ printed' = Append(printed, [raw |-> Head(lines), sysex |-> 0])
    /\ lines' = Tail(lines)
    /\ UNCHANGED <<backend, options, pc, stop_requested, late, input, failed, due, alsa, fake>>

\* A line that does not parse or decode ends the replay, as does the end of
\* the file or a failed read.
ReplayEnds ==
    /\ pc = "line"
    /\ \/ lines # <<>> /\ ~GoodLine /\ End("line")
       \/ lines = <<>> /\ End("none")
       \/ End("file")
    /\ input' = FALSE
    /\ UNCHANGED <<lines, alsa, fake>>

-----------------------------------------------------------------------------
(* capture_events                                                          *)

Step(there) == Goto(there) /\ UNCHANGED <<tool, fake>>

\* ht_midi_hal_connect of the fake backend.
ConnectFake ==
    /\ pc = "connect" /\ backend = "fake"
    /\ FakeConnect /\ Goto("loop")
    /\ UNCHANGED <<tool, alsa>>

\* The device id is not this backend's, or the sequencer does not open.
ConnectRefused ==
    /\ pc = "connect"
    /\ End("connect")
    /\ UNCHANGED <<lines, input, alsa, fake>>

\* ht_midi_hal_connect of the ALSA backend, call by call.
ConnectAlsa ==
    \/ pc = "connect" /\ backend = "alsa" /\ OpenSequencer /\ Step("address")
    \/ pc = "address" /\ UNCHANGED alsa /\ Step("port")
    \/ pc = "port" /\ CreatePort /\ Step("subscribe")
    \/ pc = "subscribe" /\ ConnectFrom /\ Step("descriptors")
    \/ pc = "descriptors" /\ AllocDescriptors /\ Step("fill")
    \/ pc = "fill" /\ Connected /\ Step("loop")

\* Any of them fails: the connection is closed, then the handle.
ConnectFails ==
    /\ pc \in {"address", "port", "subscribe", "descriptors", "fill"}
    /\ CloseConnection /\ End("connect")
    /\ UNCHANGED <<lines, input, fake>>

Unread == IF backend = "alsa" THEN Len(inbuf) + Len(kernel) ELSE Len(FakeEvents) - next_event

\* Mutant: the deadline is for wait_event only.
Loop_Untimed ==
    /\ pc = "loop"
    /\ Goto(IF stop_requested THEN "last" ELSE "wait")
    /\ due' = IF stop_requested THEN Len(printed) + Unread ELSE due
    /\ UNCHANGED <<stop_requested, late, lines, input, printed, failed, alsa, fake>>

\* Mutant: the capture ends without a last drain.
Loop_NoLastDrain ==
    /\ pc = "loop"
    /\ Goto(IF stop_requested \/ late THEN "close" ELSE "wait")
    /\ due' = IF stop_requested \/ late THEN Len(printed) + Unread ELSE due
    /\ UNCHANGED <<stop_requested, late, lines, input, printed, failed, alsa, fake>>

\* The head of the loop.
Loop ==
    /\ pc = "loop"
    /\ Goto(IF stop_requested \/ late THEN "last" ELSE "wait")
    /\ due' = IF stop_requested \/ late THEN Len(printed) + Unread ELSE due
    /\ UNCHANGED <<stop_requested, late, lines, input, printed, failed, alsa, fake>>

Readable == IF backend = "alsa" THEN AlsaReadable ELSE FakeHasEvent

\* wait_event returns for an event or at the deadline.
WaitReturns ==
    /\ pc = "wait" /\ (Readable \/ late)
    /\ Step("drain")
    /\ UNCHANGED alsa

WaitFails ==
    /\ pc = "wait" /\ backend = "alsa"
    /\ Goto("close") /\ failed' = "wait"
    /\ UNCHANGED <<stop_requested, late, lines, input, printed, due, alsa, fake>>

Draining == pc \in {"drain", "last"}
NextEvent ==
    IF backend = "fake" THEN FakeEvents[next_event + 1] ELSE ConvertAlsaEvent(Head(AlsaPending))
HasEvent == IF backend = "fake" THEN FakeHasEvent ELSE connected /\ AlsaPending # <<>>

TakeEvent == IF backend = "fake" THEN FakeTake /\ UNCHANGED alsa ELSE AlsaTake /\ UNCHANGED fake

\* Mutant: one event for each wait.
DrainEvent_One ==
    /\ Draining /\ HasEvent /\ Printable(NextEvent)
    /\ printed' = Append(printed, NextEvent)
    /\ TakeEvent
    /\ Goto(IF pc = "drain" THEN "loop" ELSE "last")
    /\ UNCHANGED <<stop_requested, late, lines, input, failed, due>>

\* One round of drain_events.
DrainEvent ==
    /\ Draining /\ HasEvent /\ Printable(NextEvent)
    /\ printed' = Append(printed, NextEvent)
    /\ TakeEvent
    /\ UNCHANGED <<backend, options, pc, stop_requested, late, lines, input, failed, due>>

\* An event that does not decode is taken, and ends the capture.
DrainUndecodable ==
    /\ Draining /\ HasEvent /\ ~Printable(NextEvent)
    /\ TakeEvent
    /\ Goto("close") /\ failed' = "decode"
    /\ UNCHANGED <<stop_requested, late, lines, input, printed, due>>

DrainReadFails ==
    /\ Draining /\ backend = "alsa" /\ AlsaReadFails
    /\ Goto("close") /\ failed' = "read"
    /\ UNCHANGED <<stop_requested, late, lines, input, printed, due, fake>>

Drained == IF backend = "fake" THEN ~FakeHasEvent ELSE AlsaNoEvent

DrainEnds ==
    /\ Draining /\ Drained
    /\ Step(IF pc = "drain" THEN "loop" ELSE "close")
    /\ UNCHANGED alsa

\* ht_midi_hal_disconnect and ht_midi_hal_close.
Close ==
    /\ pc = "close"
    /\ End(failed)
    /\ IF backend = "alsa" THEN CloseConnection /\ UNCHANGED fake
       ELSE FakeDisconnect /\ UNCHANGED alsa
    /\ UNCHANGED <<lines, input>>

-----------------------------------------------------------------------------
(* Outside                                                                 *)

Capturing == pc \in {"loop", "wait", "drain", "last"}

\* SIGINT or SIGTERM: request_stop, and a wait is interrupted.
Signal ==
    /\ Capturing
    /\ stop_requested' = TRUE
    /\ Goto(IF pc = "wait" THEN "drain" ELSE pc)
    /\ UNCHANGED <<late, lines, input, printed, failed, due, alsa, fake>>

Deadline ==
    /\ Capturing /\ ~late
    /\ late' = TRUE
    /\ UNCHANGED <<backend, options, pc, stop_requested, lines, input, printed, failed, due,
                   alsa, fake>>

Arrival ==
    /\ \E e \in AlsaEvent : Arrives(e)
    /\ UNCHANGED <<backend, options, pc, tool, fake>>

ToolStep ==
    \/ Usage \/ ListPorts \/ OpenReplay \/ ReplayLine \/ ReplayEnds
    \/ ConnectFake \/ ConnectRefused \/ ConnectAlsa \/ ConnectFails
    \/ Loop \/ WaitReturns
    \/ DrainEvent \/ DrainUndecodable \/ DrainReadFails \/ DrainEnds
    \/ Close

Next == ToolStep \/ WaitFails \/ Signal \/ Deadline \/ Arrival

Spec == Init /\ [][Next]_vars

\* The tool runs and time passes; nothing need arrive or fail.
FairSpec == Spec /\ WF_vars(ToolStep) /\ WF_vars(Deadline)

-----------------------------------------------------------------------------
\* drain_events empties the library's buffer before the tool waits again: the
\* descriptors do not show what has been read, so an event left there would
\* stay unprinted until another arrives, or the deadline.
NoEventBehindWait == pc = "wait" /\ Unread > 0 => Readable

\* A capture that exits with 0 has printed, in order, at least the events that
\* were queued when its loop ended by deadline or signal; an event that cannot
\* be decoded, which ends it, is a later piece of a split SysEx message.
QueuedIsPrinted ==
    LET events == IF backend = "fake" THEN FakeEvents
                  ELSE [i \in DOMAIN arrived |-> ConvertAlsaEvent(arrived[i])]
    IN  pc = "ended" /\ Mode(options) = "connect" =>
          /\ printed = SubSeq(events, 1, Len(printed))
          /\ failed = "none" => Len(printed) >= due
          /\ failed = "decode" => LET e == arrived[Len(printed) + 1]
                                  IN  e.type = "SYSEX" /\ e.b # 240

\* Wherever a connection failed, and however the tool ended, it holds no
\* sequencer client, port, subscription, descriptors or file.
NothingLeft ==
    pc = "ended" =>
        ~seq /\ ~local_port /\ ~subscribed /\ ~poll_descriptors /\ ~attached /\ ~input

\* A capture ends although a signal may come between the loop's test and the
\* wait, which it then does not interrupt: the wait ends at the deadline.  It
\* needs MaxEvents: drain_events goes on for as long as events arrive.
CaptureEnds == <>(pc = "ended")
=============================================================================
