--------------------------- MODULE MCMidiHalWinmm ---------------------------
(***************************************************************************)
(* MidiHalWinmm for TLC.                                                   *)
(***************************************************************************)
EXTENDS MidiHalWinmm

=============================================================================
