----------------------------- MODULE MidiDecode -----------------------------
(***************************************************************************)
(* Decoding one raw MIDI message (midi_decode.c) and the public record     *)
(* capture makes of it (midi_capture.c).  A message is the bytes a HAL     *)
(* event carries; those of a truncated SysEx are its first bytes.          *)
(***************************************************************************)
EXTENDS Integers, Sequences

StatusClass(status) == status - (status % 16)

AllDataBytes(raw) == \A i \in 2 .. Len(raw) : raw[i] <= 127

\* Mutant: every channel message has two data bytes.
ExpectedCount_AllThree(class) == 3

ExpectedCount(class) == IF class \in {192, 208} THEN 2 ELSE 3

\* require_message_shape
HasMessageShape(raw) ==
    Len(raw) = ExpectedCount(StatusClass(raw[1])) /\ AllDataBytes(raw)

\* ht_midi_decode_raw_event returns HT_OK; otherwise HT_ERR_CORRUPT_DATA.  A
\* system message has no shape to check.  A HAL event has at least one byte.
IsDecodable(raw) ==
    \/ raw[1] >= 240
    \/ raw[1] >= 128 /\ HasMessageShape(raw)

\* Mutant: a note-on of velocity zero stays a note-on.
DecodedKind_VelocityIgnored(raw) ==
    LET class == StatusClass(raw[1])
    IN  CASE class = 128 -> "note_off"
          [] class = 144 -> "note_on"
          [] class = 176 -> "controller"
          [] OTHER       -> "other"

\* The decoded kind, for a message that decodes.
DecodedKind(raw) ==
    LET class == StatusClass(raw[1])
    IN  CASE class = 128 -> "note_off"
          [] class = 144 -> IF raw[3] = 0 THEN "note_off" ELSE "note_on"
          [] class = 160 -> "keypress"
          [] class = 176 -> "controller"
          [] class = 192 -> "pgmchange"
          [] class = 208 -> "chanpress"
          [] class = 224 -> "pitchbend"
          [] OTHER       -> IF raw[1] <= 247 THEN "sysex" ELSE "other"

\* 0 when the message has none.
DecodedChannel(raw) == IF raw[1] < 240 THEN (raw[1] % 16) + 1 ELSE 0

\* Mutant: the decoder's kinds are stored as they are.
PublicEventKind_Unmapped(kind) ==
    IF kind = "controller" THEN "control_change" ELSE kind

PublicEventKind(kind) ==
    IF kind \in {"note_on", "note_off"} THEN kind
    ELSE IF kind = "controller" THEN "control_change" ELSE "other"

RawByte(raw, i) == IF i <= Len(raw) THEN raw[i] ELSE 0

PublicRecord(session, no, raw) ==
    [session_id  |-> session,
     sequence_no |-> no,
     status_byte |-> RawByte(raw, 1),
     data_1      |-> RawByte(raw, 2),
     data_2      |-> RawByte(raw, 3),
     channel     |-> DecodedChannel(raw),
     event_kind  |-> PublicEventKind(DecodedKind(raw))]
=============================================================================
