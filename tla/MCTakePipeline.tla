--------------------------- MODULE MCTakePipeline ---------------------------
(***************************************************************************)
(* TakePipeline for TLC.                                                   *)
(***************************************************************************)
EXTENDS TakePipeline, TLC

\* A passage of two steps and one of one step.
TwoPassages == [v \in Covered |-> IF v = "HANON-01-C" THEN 2 ELSE 1]

\* Nothing tells session ids apart.
AnySession == Permutations(Session)
=============================================================================
