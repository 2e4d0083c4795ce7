--------------------------- MODULE MCMidiCapture ----------------------------
(***************************************************************************)
(* MidiCapture for TLC.                                                    *)
(***************************************************************************)
EXTENDS MidiCapture

\* A note, its release as velocity zero, a program change and the second part of
\* a SysEx longer than WinMM's buffer, which starts with a data byte.
StreamMessages == {<<144, 60, 64>>, <<144, 60, 0>>, <<192, 5>>, <<125, 1>>}

\* Every status class with one, two or three bytes, data on both sides of 127.
Statuses == {127, 128, 144, 159, 160, 176, 192, 208, 224, 240, 247, 248}
Data == {0, 127, 128}

EveryShape ==
    {<<s>> : s \in Statuses}
        \cup {<<s, a>> : s \in Statuses, a \in Data}
        \cup {<<s, a, b>> : s \in Statuses, a \in Data, b \in Data}

\* A driver mixes the stream's messages, or repeats one message of any shape.
AllStreams == {StreamMessages} \cup {{raw} : raw \in EveryShape}
=============================================================================
