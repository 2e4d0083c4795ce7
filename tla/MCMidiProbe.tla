----------------------------- MODULE MCMidiProbe -----------------------------
(***************************************************************************)
(* MidiProbe for TLC.                                                      *)
(***************************************************************************)
EXTENDS MidiProbe

Alsa(type, a, b) == [type |-> type, channel |-> 16, a |-> a, b |-> b]

\* Each type, with values a MIDI message cannot hold, and a SysEx message's
\* first and second piece.
SomeAlsaEvents ==
    {Alsa("NOTEON", 60, 200), Alsa("NOTEOFF", 60, 64), Alsa("KEYPRESS", 200, 1),
     Alsa("CONTROLLER", -1, 500), Alsa("PGMCHANGE", 128, 0), Alsa("CHANPRESS", 127, 0),
     Alsa("PITCHBEND", 9000, 0), Alsa("PITCHBEND", -9000, 0), Alsa("CLOCK", 0, 0),
     Alsa("SYSEX", 0, 0), Alsa("SYSEX", 256, 240), Alsa("SYSEX", 4, 1)}

SomeReplays ==
    {<<>>, <<<<144, 60, 1>>, <<248>>>>, <<<<144, 60>>>>, <<<<240, 1>>, <<>>, <<248>>>>}

EveryOption == SUBSET {"--list", "--replay-raw-tsv", "--port", "--duration", "--format"}
=============================================================================
