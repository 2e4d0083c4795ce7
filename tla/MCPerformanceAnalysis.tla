----------------------- MODULE MCPerformanceAnalysis ------------------------
(***************************************************************************)
(* PerformanceAnalysis for TLC: takes and passages small enough to         *)
(* enumerate, with onsets on both sides of every window boundary.          *)
(***************************************************************************)
EXTENDS PerformanceAnalysis, SequencesExt

Note(ns, pitch) == [noteOn |-> TRUE, ns |-> ns, pitch |-> pitch]

\* With StepNs = 8 the windows of two steps are 0 .. 3 and 4 .. 11.
SomeEvents ==
    {Note(ns, 1) : ns \in {-1, 0, 3, 4, 7, 11, 12}}
        \cup {Note(ns, 2) : ns \in {1, 4, 8}}
        \cup {[noteOn |-> FALSE, ns |-> 0, pitch |-> 1]}

AllTakes == SeqOf(SomeEvents, 3)

Part(expected, window) == [expected |-> expected, window |-> window]

Passage(steps) == [stepCount |-> Len(steps), steps |-> steps]

ScoredPassages ==
    {Passage(<<>>), Passage(<<Part(<<1>>, 0)>>),
     Passage(<<Part(<<1>>, 1), Part(<<2>>, 1)>>),
     Passage(<<Part(<<1, 1>>, 0), Part(<<1, 2>>, 2)>>),
     Passage(<<Part(<<2, 1, 2>>, 1), Part(<<>>, 1)>>),
     Passage(<<Part(<<>>, 0), Part(<<1, 2, 1>>, 0)>>)}

\* For reruns: a take that fits the passages, one that does not, and passages
\* that shrink, or whose last step is missing.
RerunTakes == {<<Note(0, 1), Note(8, 2)>>, <<Note(3, 2)>>}

RerunPassages ==
    {Passage(<<Part(<<1>>, 1), Part(<<2>>, 1)>>), Passage(<<Part(<<1>>, 1)>>),
     [stepCount |-> 2, steps |-> <<Part(<<2>>, 0)>>]}

EveryVariant ==
    {"unknown_variant", "no_overlay_id", "unknown_overlay", "not_enabled", "covered"}

EverySession == {"absent", "capturing", "completed", "aborted", "invalid"}
=============================================================================
