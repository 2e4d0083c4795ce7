-------------------------- MODULE MCMidiHalCoreMidi -------------------------
(***************************************************************************)
(* MidiHalCoreMidi for TLC.                                                *)
(***************************************************************************)
EXTENDS MidiHalCoreMidi

\* A program change before a note; the end of a SysEx, a note, and one that
\* is cut after its first data byte; in two packets the tail of that note and
\* the beginning of the SysEx.
CoreMidiPackets ==
    {<<<<192, 5, 144, 60, 64>>>>,
     <<<<3, 247, 144, 62, 64, 144, 64>>>>,
     <<<<64>>, <<240, 1, 2>>>>}

\* An interface without and one with a unique id, alone and behind a source
\* that has vanished.
CoreMidiSources ==
    LET Plugged == <<[endpoint |-> 1, unique_id |-> 0], [endpoint |-> 2, unique_id |-> 7]>>
    IN  {Plugged, <<[endpoint |-> 0, unique_id |-> 0]>> \o Plugged}
=============================================================================
