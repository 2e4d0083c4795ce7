------------------------ MODULE PerformanceAnalysis -------------------------
(***************************************************************************)
(* ht_analysis_run_session over the rows of one session: the early         *)
(* returns, the loop over the overlay's steps with the scan of the events  *)
(* inside it, and a database write per step and one for the aggregate,     *)
(* each a statement of its own that commits, fails, or never happens       *)
(* because the process ends.                                               *)
(*                                                                         *)
(* Between runs the environment may replace the take, its status and the   *)
(* overlay (another corpus), as nothing ties the stored results to them.   *)
(***************************************************************************)
EXTENDS StepScoring

CONSTANTS
    Takes,     \* sequences of events a session can hold
    Passages,  \* overlays: sequences of the steps found, and their step_count
    Sessions,  \* capture_status of the session, or "absent"
    Variants,  \* catalog and overlay lookups: see RunStatus
    MaxSteps,  \* bound: step_count, and the step_index of stored rows
    MaxRuns    \* bound: calls of ht_analysis_run_session

\* An overlay may declare more steps than the step file has, or none.
ASSUME InputsAssumption ==
    /\ MaxSteps \in Nat
    /\ MaxRuns \in Nat
    /\ \A take \in Takes :
         /\ take \in Seq([noteOn : BOOLEAN, ns : Int, pitch : Int])
    /\ \A p \in Passages :
         /\ p.stepCount \in 0 .. MaxSteps
         /\ p.steps \in Seq([expected : Seq(Int), window : Int])

VARIABLES
    session,   \* practice_sessions.capture_status
    events,    \* midi_events rows, by sequence_no
    variant,   \* what the catalog and overlay lookups find
    passage,   \* the overlay
    stepRows,  \* analysis_step_results rows by step_index
    result,    \* analysis_results row of the session
    at,        \* where the run is
    k,         \* step_index
    i,         \* index in score_step_group
    group,     \* note_group_score
    totals,    \* the analysis record being built
    returned,  \* what the last run over these inputs returned, or "crashed"
    runs       \* ghost: runs begun so far, stored with each row

inputs == <<session, events, variant, passage>>
database == <<stepRows, result>>
locals == <<k, i, group, totals>>
vars == <<inputs, database, at, locals, returned, runs>>

NoRow == [run |-> 0]

ZeroTotals ==
    [wrong |-> 0, missed |-> 0, extra |-> 0, weak |-> 0,
     timed |-> 0, error |-> 0, early |-> 0, late |-> 0]

SomeInputs ==
    /\ session \in Sessions
    /\ events \in Takes
    /\ variant \in Variants
    /\ passage \in Passages

Init ==
    /\ SomeInputs
    /\ stepRows = [j \in 0 .. MaxSteps - 1 |-> NoRow]
    /\ result = NoRow
    /\ at = "idle"
    /\ k = 0 /\ i = 1 /\ group = ZeroGroup /\ totals = ZeroTotals
    /\ returned = "none"
    /\ runs = 0

\* The environment's changes between two runs.
ReplaceInputs ==
    /\ at = "idle" /\ runs \in 1 .. MaxRuns - 1
    /\ session' \in Sessions
    /\ events' \in Takes
    /\ variant' \in Variants
    /\ passage' \in Passages
    /\ returned' = "none"
    /\ UNCHANGED <<database, at, locals, runs>>

Return(status) ==
    /\ at' = "idle"
    /\ returned' = status

\* The lookups before the loop, in order; "covered" passes them all.
RunStatus ==
    CASE session = "absent"          -> "HT_ERR_NOT_FOUND"
      [] variant = "unknown_variant" -> "HT_ERR_NOT_FOUND"
      [] variant = "no_overlay_id"   -> "HT_ERR_UNSUPPORTED"
      [] variant = "unknown_overlay" -> "HT_ERR_NOT_FOUND"
      [] variant = "not_enabled"     -> "HT_ERR_UNSUPPORTED"
      [] OTHER                       -> "HT_OK"

\* Mutant: the analysis record is not zeroed.
BeginRun_KeepsTotals ==
    /\ at = "idle" /\ runs < MaxRuns
    /\ runs' = runs + 1
    /\ IF RunStatus = "HT_OK" THEN at' = "step" /\ returned' = "none"
       ELSE Return(RunStatus)
    /\ k' = 0
    /\ UNCHANGED <<inputs, database, i, group, totals>>

BeginRun ==
    /\ at = "idle" /\ runs < MaxRuns
    /\ runs' = runs + 1
    /\ IF RunStatus = "HT_OK" THEN at' = "step" /\ returned' = "none"
       ELSE Return(RunStatus)
    /\ k' = 0 /\ totals' = ZeroTotals
    /\ UNCHANGED <<inputs, database, i, group>>

\* A read fails, or the event buffer cannot be allocated.
LoadFails ==
    /\ at = "idle" /\ runs < MaxRuns
    /\ runs' = runs + 1
    /\ \E status \in {"HT_ERR_DB", "HT_ERR_IO"} : Return(status)
    /\ UNCHANGED <<inputs, database, locals>>

\* Mutant: the score of the previous step is not cleared.
FindStep_KeepsGroup ==
    /\ at = "step" /\ k < passage.stepCount
    /\ k < Len(passage.steps)
    /\ at' = "score"
    /\ i' = 1
    /\ UNCHANGED <<inputs, database, k, group, totals, returned, runs>>

\* ht_overlay_store_get_step of step_index.
FindStep ==
    /\ at = "step" /\ k < passage.stepCount
    /\ k < Len(passage.steps)
    /\ at' = "score"
    /\ i' = 1 /\ group' = ZeroGroup
    /\ UNCHANGED <<inputs, database, k, totals, returned, runs>>

\* Mutant: a missing step ends the passage.
StepNotFound_EndsPassage ==
    /\ at = "step" /\ k < passage.stepCount
    /\ k >= Len(passage.steps)
    /\ result' = [run |-> runs, totals |-> totals]
    /\ Return("HT_OK")
    /\ UNCHANGED <<inputs, stepRows, locals, runs>>

StepNotFound ==
    /\ at = "step" /\ k < passage.stepCount
    /\ k >= Len(passage.steps)
    /\ Return("HT_ERR_NOT_FOUND")
    /\ UNCHANGED <<inputs, database, locals, runs>>

Step == passage.steps[k + 1]

ScoreEvent ==
    /\ at = "score" /\ i <= Len(events)
    /\ group' = IF OwnedByStep(events[i], k) THEN Scored(group, Step, k, events[i])
                ELSE group
    /\ i' = i + 1
    /\ UNCHANGED <<inputs, database, at, k, totals, returned, runs>>

StepRow ==
    [run |-> runs, pitch |-> PitchStatus(group, Step), timing |-> TimingStatus(group, Step)]

\* The counters after the step, updated before its row is stored.
TotalsAfterStep ==
    [wrong  |-> totals.wrong + WrongNotes(group, Step),
     missed |-> totals.missed + MissedNotes(group, Step),
     extra  |-> totals.extra + ExtraNotes(group, Step),
     weak   |-> totals.weak + IF IsWeak(StepRow.pitch, StepRow.timing) THEN 1 ELSE 0,
     timed  |-> totals.timed + IF group.has THEN 1 ELSE 0,
     error  |-> totals.error + IF group.has THEN Magnitude(group.error) ELSE 0,
     early  |-> IF StepRow.timing = "EARLY" /\ -group.error > totals.early
                THEN -group.error ELSE totals.early,
     late   |-> IF StepRow.timing = "LATE" /\ group.error > totals.late
                THEN group.error ELSE totals.late]

StoreStep ==
    /\ at = "score" /\ i > Len(events)
    /\ totals' = TotalsAfterStep
    /\ stepRows' = [stepRows EXCEPT ![k] = StepRow]
    /\ k' = k + 1
    /\ at' = "step"
    /\ UNCHANGED <<inputs, result, i, group, returned, runs>>

StoreStepFails ==
    /\ at = "score" /\ i > Len(events)
    /\ Return("HT_ERR_DB")
    /\ UNCHANGED <<inputs, database, locals, runs>>

\* The notes outside every window are added, and the aggregate is stored.
FinalTotals ==
    [totals EXCEPT !.extra = @ + Cardinality(OutsidePassage(events, passage.stepCount))]

StoreAnalysis ==
    /\ at = "step" /\ k >= passage.stepCount
    /\ totals' = FinalTotals
    /\ result' = [run |-> runs, totals |-> FinalTotals]
    /\ Return("HT_OK")
    /\ UNCHANGED <<inputs, stepRows, k, i, group, runs>>

StoreAnalysisFails ==
    /\ at = "step" /\ k >= passage.stepCount
    /\ Return("HT_ERR_DB")
    /\ UNCHANGED <<inputs, database, locals, runs>>

\* The process ends between two statements.
Crash ==
    /\ at # "idle"
    /\ Return("crashed")
    /\ UNCHANGED <<inputs, database, locals, runs>>

Next ==
    \/ ReplaceInputs
    \/ BeginRun \/ LoadFails
    \/ FindStep \/ StepNotFound \/ ScoreEvent
    \/ StoreStep \/ StoreStepFails
    \/ StoreAnalysis \/ StoreAnalysisFails
    \/ Crash

Spec == Init /\ [][Next]_vars

\* The rows ht_db_load_analysis_steps returns: all of the session's.
LoadedSteps == {n \in DOMAIN stepRows : stepRows[n] # NoRow}

-----------------------------------------------------------------------------

Groups ==
    [candidates : Nat, matched : SUBSET Nat, has : BOOLEAN, earliest : Int, error : Int]

Statuses ==
    {"none", "crashed", "HT_OK", "HT_ERR_NOT_FOUND", "HT_ERR_UNSUPPORTED",
     "HT_ERR_DB", "HT_ERR_IO"}

\* The counters stay non-negative, the matched slots are slots of the step
\* being scored, and the run never indexes past the steps or the events.
TypeOK ==
    /\ SomeInputs
    /\ at \in {"idle", "step", "score"}
    /\ returned \in Statuses
    /\ runs \in 0 .. MaxRuns
    /\ k \in 0 .. MaxSteps /\ i \in Nat \ {0}
    /\ group \in Groups
    /\ \A field \in {"wrong", "missed", "extra", "weak", "timed", "error", "early", "late"} :
         totals[field] \in Nat
    /\ DOMAIN stepRows = 0 .. MaxSteps - 1
    /\ at = "score" =>
         /\ k < passage.stepCount /\ k < Len(passage.steps)
         /\ i <= Len(events) + 1
         /\ group.matched \subseteq DOMAIN Step.expected

NoteOns == {j \in DOMAIN events : events[j].noteOn}

\* The note-ons of the windows before step n, and the note slots of the steps
\* before step n.
PlayedBefore(n) == {j \in NoteOns : 0 <= events[j].ns /\ events[j].ns < LowerBound(n)}

ExpectedBefore(n) ==
    UNION {{j} \X DOMAIN passage.steps[j + 1].expected : j \in 0 .. n - 1}

\* Every note-on of the take is accounted for once and only once: the notes
\* expected plus the extra notes are the notes played plus the missed notes,
\* whatever the windows, the duplicates and the order of the events, for a
\* passage of at least one step.  No note is counted both wrong and missed,
\* nor both wrong and extra.
NotesBalance ==
    returned = "HT_OK" /\ passage.stepCount > 0 =>
        LET expected == Cardinality(ExpectedBefore(passage.stepCount))
            played   == Cardinality(NoteOns)
        IN  /\ expected + result.totals.extra = played + result.totals.missed
            /\ result.totals.wrong + result.totals.missed <= expected
            /\ result.totals.wrong + result.totals.extra <= played

\* The greedy scan of score_step_group finds as many matches as any pairing
\* of played with expected notes could, and the earliest onset, whatever the
\* order in which the events were captured.
ScanIsOptimal ==
    at = "score" /\ i > Len(events) =>
        LET owned == {j \in DOMAIN events : OwnedByStep(events[j], k)}
            Common(pitch) ==
                LesserOf(Cardinality({j \in owned : events[j].pitch = pitch}),
                         Cardinality({s \in DOMAIN Step.expected : Step.expected[s] = pitch}))
            pairs == UNION {{events[j].pitch} \X (1 .. Common(events[j].pitch)) : j \in owned}
        IN  /\ group.candidates = Cardinality(owned)
            /\ Cardinality(group.matched) = Cardinality(pairs)
            /\ group.has <=> owned # {}
            /\ group.has =>
                 /\ \A j \in owned : group.earliest <= events[j].ns
                 /\ \E j \in owned :
                      /\ group.earliest = events[j].ns
                      /\ group.error = Milliseconds(events[j].ns - ExpectedTime(k))

\* A passage has no weak step exactly when every step was played as written:
\* its window holds the expected notes and no other, and the first of them
\* falls within the step's timing window.  A step that expects nothing is
\* always weak.
PlayedAsWritten(n) ==
    LET step  == passage.steps[n + 1]
        owned == {j \in DOMAIN events : OwnedByStep(events[j], n)}
    IN  /\ owned # {}
        /\ \A pitch \in {events[j].pitch : j \in owned}
                        \cup {step.expected[s] : s \in DOMAIN step.expected} :
              Cardinality({j \in owned : events[j].pitch = pitch}) =
              Cardinality({s \in DOMAIN step.expected : step.expected[s] = pitch})
        /\ \E first \in owned :
              /\ \A j \in owned : events[first].ns <= events[j].ns
              /\ Magnitude(Milliseconds(events[first].ns - ExpectedTime(n))) <= step.window

WeakStepsAreReal ==
    returned = "HT_OK" =>
        result.totals.weak =
            Cardinality({n \in 0 .. passage.stepCount - 1 : ~PlayedAsWritten(n)})

\* Of the rows a review loads beside a successful run's aggregate, the first
\* step_count, and no other, are that run's: one per step, agreeing with its
\* weak_step_count, whatever crashed or failed runs left in their place.  The
\* rows behind them are left from runs over a longer passage.
RowsAgreeWithResult ==
    returned = "HT_OK" =>
        LET own == {n \in LoadedSteps : stepRows[n].run = runs}
        IN  /\ result.run = runs
            /\ own = 0 .. passage.stepCount - 1
            /\ result.totals.weak =
                 Cardinality({n \in own : IsWeak(stepRows[n].pitch, stepRows[n].timing)})

\* The aggregate row changes only once every step row of the same run is in
\* the database: a run that fails, crashes or finds a step missing leaves the
\* previous aggregate, and none if there was none.
ResultStoredLast ==
    [][result' # result =>
         \A n \in 0 .. passage.stepCount - 1 : stepRows[n].run = result'.run]_vars

\* performance_analysis.h: "Analyze a completed session".
OnlyCompletedScored == returned = "HT_OK" => session = "completed"
=============================================================================
