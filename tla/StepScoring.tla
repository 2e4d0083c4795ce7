---------------------------- MODULE StepScoring -----------------------------
(***************************************************************************)
(* The arithmetic of performance_analysis.c: which step a note-on belongs  *)
(* to, how one event updates the score of a step's note group, and what a  *)
(* finished group says of the step.                                        *)
(*                                                                         *)
(* An event is [noteOn, ns, pitch]; a step is [expected, window], a        *)
(* sequence of pitches and timing_window_ms.  Times are in units of which  *)
(* StepNs make a step and MsNs a millisecond.                              *)
(***************************************************************************)
EXTENDS Integers, Sequences, FiniteSets

CONSTANTS
    StepNs,  \* HT_STEP_NS
    MsNs     \* 1000000

\* One step per second in nanoseconds: an even number, and whole milliseconds.
ASSUME UnitsAssumption ==
    /\ MsNs \in Nat \ {0}
    /\ StepNs \in Nat \ {0}
    /\ StepNs % 2 = 0

HalfStep == StepNs \div 2

ExpectedTime(k) == k * StepNs

\* Windows are half-open and meet at the midpoints between steps; the first
\* one starts at the start of the take.
LowerBound(k) == IF k = 0 THEN 0 ELSE ExpectedTime(k) - HalfStep

UpperBound(k) == ExpectedTime(k) + HalfStep

\* Mutant: the windows are closed.
OwnedByStep_Closed(event, k) ==
    event.noteOn /\ LowerBound(k) <= event.ns /\ event.ns <= UpperBound(k)

OwnedByStep(event, k) ==
    event.noteOn /\ LowerBound(k) <= event.ns /\ event.ns < UpperBound(k)

OwnedByAnyStep(event, stepCount) ==
    event.noteOn /\ 0 <= event.ns /\ event.ns < UpperBound(stepCount - 1)

\* C division truncates towards zero.
Milliseconds(ns) == IF ns >= 0 THEN ns \div MsNs ELSE -((-ns) \div MsNs)

Magnitude(n) == IF n < 0 THEN -n ELSE n

ZeroGroup ==
    [candidates |-> 0, matched |-> {}, has |-> FALSE, earliest |-> 0, error |-> 0]

\* Mutant: a matched slot can match again.
OpenSlots_Reused(step, matched, pitch) ==
    {s \in DOMAIN step.expected : step.expected[s] = pitch}

\* The expected slots an event of this pitch could still match.
OpenSlots(step, matched, pitch) ==
    {s \in DOMAIN step.expected : s \notin matched /\ step.expected[s] = pitch}

FirstSlot(slots) == CHOOSE s \in slots : \A t \in slots : s <= t

\* One iteration of score_step_group over an event the step owns.
Scored(group, step, k, event) ==
    LET open  == OpenSlots(step, group.matched, event.pitch)
        first == ~group.has \/ event.ns < group.earliest
    IN  [candidates |-> group.candidates + 1,
         matched    |-> IF open = {} THEN group.matched
                        ELSE group.matched \cup {FirstSlot(open)},
         has        |-> TRUE,
         earliest   |-> IF first THEN event.ns ELSE group.earliest,
         error      |-> IF first THEN Milliseconds(event.ns - ExpectedTime(k))
                        ELSE group.error]

\* What the group adds to wrong_note_count, missed_note_count and
\* extra_note_count.
LesserOf(m, n) == IF m < n THEN m ELSE n
Surplus(m, n) == IF m > n THEN m - n ELSE 0

WrongNotes(group, step) ==
    Surplus(LesserOf(group.candidates, Len(step.expected)), Cardinality(group.matched))
MissedNotes(group, step) == Surplus(Len(step.expected), group.candidates)
ExtraNotes(group, step) == Surplus(group.candidates, Len(step.expected))

\* Mutant: surplus notes in the window do not matter.
PitchStatus_IgnoresSurplus(group, step) ==
    IF group.candidates < Len(step.expected) THEN "MISSED"
    ELSE IF Cardinality(group.matched) = Len(step.expected) THEN "MATCH" ELSE "WRONG"

PitchStatus(group, step) ==
    IF group.candidates < Len(step.expected) THEN "MISSED"
    ELSE IF /\ Cardinality(group.matched) = Len(step.expected)
            /\ group.candidates = Len(step.expected)
         THEN "MATCH" ELSE "WRONG"

TimingStatus(group, step) ==
    IF ~group.has THEN "MISSING"
    ELSE IF Magnitude(group.error) <= step.window THEN "ON_TIME"
    ELSE IF group.error < 0 THEN "EARLY" ELSE "LATE"

\* step_was_weak
IsWeak(pitch, timing) == pitch # "MATCH" \/ timing # "ON_TIME"

\* count_extra_note_on_events
OutsidePassage(events, stepCount) ==
    IF stepCount = 0 THEN {}
    ELSE {i \in DOMAIN events : events[i].noteOn /\ ~OwnedByAnyStep(events[i], stepCount)}
=============================================================================
