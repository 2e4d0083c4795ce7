----------------------------- MODULE MidiHalFake -----------------------------
(***************************************************************************)
(* midi_hal_fake.c: a keyboard that has played its nine events when it is  *)
(* connected.                                                              *)
(***************************************************************************)
EXTENDS Integers, Sequences

VARIABLES
    attached,   \* hal->connected
    next_event  \* hal->next_event

fake == <<attached, next_event>>

FakeInit == attached = FALSE /\ next_event = 0

\* raw_bytes and sysex_byte_count; of the truncated SysEx the first byte.
FakeEvents ==
    LET Message(raw) == [raw |-> raw, sysex |-> 0]
    IN  <<Message(<<144, 60, 64>>), Message(<<128, 60, 0>>), Message(<<176, 1, 127>>),
          Message(<<192, 5>>), Message(<<160, 60, 45>>), Message(<<208, 70>>),
          Message(<<224, 0, 64>>), [raw |-> <<240, 125, 1, 247>>, sysex |-> 4],
          [raw |-> <<240>>, sysex |-> 1050]>>

FakeConnect == attached' = TRUE /\ next_event' = 0

FakeDisconnect == attached' = FALSE /\ next_event' = 0

\* poll_event returns an event, which is the one next_event is at; wait_event
\* returns at once.
FakeHasEvent == attached /\ next_event < Len(FakeEvents)

FakeTake == FakeHasEvent /\ next_event' = next_event + 1 /\ UNCHANGED attached
=============================================================================
