---------------------------- MODULE TakePipeline ----------------------------
(***************************************************************************)
(* A take from the settings to the advice: the recorder stores the records *)
(* MidiCapture numbers, the reviewer runs ht_analysis_run_session and      *)
(* ht_advice_generate_for_session, each over its own connection, so that   *)
(* any statement of one may come between two of the other.  A process may  *)
(* end between two statements, and a statement may fail.                   *)
(*                                                                         *)
(* No code of the repository calls capture and store together: the order   *)
(* in which the recorder inserts and appends is left open, and a session   *)
(* id may be used again.  Scoring itself is in PerformanceAnalysis.        *)
(***************************************************************************)
EXTENDS SqliteStore

CONSTANTS
    Variant,   \* variant ids the catalog holds
    Covered,   \* those with an enabled overlay
    StepsOf,   \* step_count of each one's overlay
    LongText,  \* an id longer than the session's field
    MaxTakes,  \* bound: takes
    MaxRuns    \* bound: analyses and advice requests

ASSUME PipelineAssumption ==
    /\ LongText \notin Variant /\ "" \notin Variant
    /\ Covered \subseteq Variant
    /\ StepsOf \in [Covered -> 0 .. StepCount]
    /\ MaxTakes \in Nat /\ MaxRuns \in Nat

VARIABLES
    variant_id,  \* the session handle's variant_id
    wanted,      \* ghost: the last id a caller selected
    recorder,    \* the take being recorded: session, number, next sequence_no
    takes,       \* ghost: takes begun
    pc,          \* where the reviewer's process is
    session_id,  \* its argument
    row,         \* the session row it loaded
    event_count, \* event_count
    events,      \* the event buffer
    step_index,  \* step_index
    request,     \* the advice request, with what ht_advice_build_request returned
    runs         \* ghost: calls of the reviewer

recording == <<variant_id, wanted, recorder, takes>>
locals == <<session_id, row, event_count, events, step_index, request>>
reviewing == <<pc, locals, runs>>
vars == <<tables, recording, reviewing>>

Idle == [session |-> "", take |-> 0, next |-> 0]
NoRequest == [session |-> None, analysis |-> None, status |-> "none"]
ZeroEvent == [no |-> 0, take |-> 0]

Init ==
    /\ StoreInit
    /\ variant_id = "" /\ wanted = "" /\ recorder = Idle /\ takes = 0
    /\ pc = "idle" /\ session_id = "" /\ row = None /\ event_count = 0 /\ events = <<>>
    /\ step_index = 0 /\ request = NoRequest /\ runs = 0

-----------------------------------------------------------------------------
(* The recorder                                                            *)

\* Mutant: a refused id leaves the previous one.
CopyText_KeepsOld(text) == IF text = LongText THEN variant_id ELSE text

\* copy_text: an id that does not fit erases the field.
CopyText(text) == IF text = LongText THEN "" ELSE text

\* During a take as well: the setter does not look at the session's state.
SelectVariant(text) ==
    /\ variant_id' = CopyText(text) /\ wanted' = text
    /\ UNCHANGED <<tables, recorder, takes, reviewing>>

\* ht_midi_capture_start numbers the records of a take from 1.
BeginTake(s) ==
    /\ recorder = Idle /\ takes < MaxTakes
    /\ takes' = takes + 1
    /\ recorder' = [session |-> s, take |-> takes + 1, next |-> 1]
    /\ UNCHANGED <<tables, variant_id, wanted, reviewing>>

\* ht_db_insert_session, when the take begins and again when it ends.
RecordSession ==
    /\ recorder # Idle
    /\ InsertSession(recorder.session,
           [take |-> recorder.take, variant |-> variant_id, wanted |-> wanted])
    /\ UNCHANGED <<recording, reviewing>>

\* ht_db_append_midi_event of the record capture numbered next.
AppendEvent ==
    /\ recorder # Idle /\ recorder.next <= MaxNo
    /\ AppendMidiEvent(recorder.session, recorder.next,
                       [no |-> recorder.next, take |-> recorder.take])
    /\ recorder' = [recorder EXCEPT !.next = @ + 1]
    /\ UNCHANGED <<variant_id, wanted, takes, reviewing>>

\* It is refused without a session row, or fails; the number is used.
AppendFails ==
    /\ recorder # Idle /\ recorder.next <= MaxNo
    /\ recorder' = [recorder EXCEPT !.next = @ + 1]
    /\ UNCHANGED <<tables, variant_id, wanted, takes, reviewing>>

\* The take is stopped, or its process ends.
EndTake ==
    /\ recorder # Idle
    /\ recorder' = Idle
    /\ UNCHANGED <<tables, variant_id, wanted, takes, reviewing>>

-----------------------------------------------------------------------------
(* The reviewer: ht_analysis_run_session                                   *)

CanStart == pc = "idle" /\ runs < MaxRuns

\* ht_db_load_session and ht_catalog_lookup_variant, of either function.
HasVariant(s) == HasSession(s) /\ practice_sessions[s].variant \in Variant

\* The lookups, with the overlay's, which analysis alone needs; a run they
\* refuse changes nothing.
RunSession(s) ==
    /\ CanStart /\ HasVariant(s) /\ practice_sessions[s].variant \in Covered
    /\ pc' = "count" /\ runs' = runs + 1
    /\ session_id' = s /\ row' = practice_sessions[s]
    /\ event_count' = 0 /\ events' = <<>> /\ step_index' = 0
    /\ UNCHANGED <<tables, recording, request>>

\* The first ht_db_load_midi_events asks for the number of events.
AskCount ==
    /\ pc = "count"
    /\ event_count' = CountEvents(session_id)
    /\ pc' = IF event_count' = 0 THEN "step" ELSE "recount"
    /\ UNCHANGED <<tables, recording, session_id, row, events, step_index, request, runs>>

\* The second one counts again, for a buffer of the number it was told: if
\* that is too small the run returns HT_ERR_BUFFER_TOO_SMALL.
Recount ==
    /\ pc = "recount"
    /\ event_count' = CountEvents(session_id)
    /\ pc' = IF event_count' > event_count THEN "idle" ELSE "fetch"
    /\ UNCHANGED <<tables, recording, session_id, row, events, step_index, request, runs>>

\* Mutant: the rows are not held against the buffer's capacity.
Filled_Unbounded(rows) == rows

\* The buffer, which calloc has zeroed, with the rows that fit.
Filled(rows) ==
    [i \in 1 .. event_count |-> IF i <= Len(rows) THEN rows[i] ELSE ZeroEvent]

\* Its SELECT, of which analysis reads the first event_count records.
Fetch ==
    /\ pc = "fetch"
    /\ events' = Filled(EventRows(session_id))
    /\ pc' = "step"
    /\ UNCHANGED <<tables, recording, session_id, row, event_count, step_index, request, runs>>

StoreStep ==
    /\ pc = "step" /\ step_index < StepsOf[row.variant]
    /\ StoreAnalysisStep(session_id, step_index, [run |-> runs])
    /\ step_index' = step_index + 1
    /\ UNCHANGED <<recording, pc, session_id, row, event_count, events, request, runs>>

AggregateRow == [run |-> runs, variant |-> row.variant, scored |-> events, of |-> row]

\* Mutant: the aggregate is stored before the steps.
StoreResult_First ==
    /\ pc = "step"
    /\ StoreAnalysis(session_id, AggregateRow)
    /\ pc' = "idle"
    /\ UNCHANGED <<recording, locals, runs>>

StoreResult ==
    /\ pc = "step" /\ step_index >= StepsOf[row.variant]
    /\ StoreAnalysis(session_id, AggregateRow)
    /\ pc' = "idle"
    /\ UNCHANGED <<recording, locals, runs>>

-----------------------------------------------------------------------------
(* The reviewer: ht_advice_build_request, ht_advice_generate_for_session   *)

\* The request is zeroed and takes the facts of session and variant.
RequestFacts(s) ==
    /\ CanStart /\ HasVariant(s)
    /\ pc' = "analysis" /\ runs' = runs + 1
    /\ session_id' = s
    /\ request' = [NoRequest EXCEPT !.session = practice_sessions[s]]
    /\ UNCHANGED <<tables, recording, row, event_count, events, step_index>>

RequestNotFound(s) ==
    /\ CanStart /\ ~HasVariant(s)
    /\ request' = [NoRequest EXCEPT !.status = "HT_ERR_NOT_FOUND"]
    /\ runs' = runs + 1
    /\ UNCHANGED <<tables, recording, pc, session_id, row, event_count, events, step_index>>

\* The aggregate is added; without one the request says so.
RequestAnalysis ==
    /\ pc = "analysis"
    /\ request' = [request EXCEPT !.analysis = analysis_results[session_id],
                                  !.status = "HT_OK"]
    /\ pc' = "advice"
    /\ UNCHANGED <<tables, recording, session_id, row, event_count, events, step_index, runs>>

\* ht_db_load_analysis fails otherwise.
RequestFails ==
    /\ pc = "analysis"
    /\ request' = [request EXCEPT !.status = "HT_ERR_DB"]
    /\ pc' = "idle"
    /\ UNCHANGED <<tables, recording, session_id, row, event_count, events, step_index, runs>>

\* The row has the variant in its summary and a text that is still a stub; what
\* the request had read is kept with it as a ghost.
StoreAdviceRow ==
    /\ pc = "advice"
    /\ StoreAdvice(session_id, request)
    /\ pc' = "idle"
    /\ UNCHANGED <<recording, locals, runs>>

\* Another read or write of the reviewer fails, the request was all it was
\* asked for, or its process ends.
ReviewEnds ==
    /\ pc # "idle"
    /\ pc' = "idle"
    /\ UNCHANGED <<tables, recording, locals, runs>>

Next ==
    \/ \E text \in Variant \cup {LongText} : SelectVariant(text)
    \/ \E s \in Session : BeginTake(s) \/ RunSession(s)
    \/ RecordSession \/ AppendEvent \/ AppendFails \/ EndTake
    \/ AskCount \/ Recount \/ Fetch \/ StoreStep \/ StoreResult
    \/ \E s \in Session : RequestFacts(s) \/ RequestNotFound(s)
    \/ RequestAnalysis \/ RequestFails \/ StoreAdviceRow
    \/ ReviewEnds

Spec == Init /\ [][Next]_vars

-----------------------------------------------------------------------------
Takes == 1 .. MaxTakes
Texts == Variant \cup {LongText, ""}
SessionRows == [take : Takes, variant : Variant \cup {""}, wanted : Texts]
EventRecords == [no : 1 .. MaxNo, take : Takes]

\* The tables hold rows of their own kind, and the reviewer's buffer has the
\* length analysis was told.
TypeOK ==
    /\ \A s \in Session :
         /\ practice_sessions[s] \in SessionRows \cup {None}
         /\ \A n \in 1 .. MaxNo :
              midi_events[s][n] = None \/ midi_events[s][n] \in EventRecords
    /\ recorder.next \in 0 .. MaxNo + 1
    /\ pc \in {"idle", "count", "recount", "fetch", "step", "analysis", "advice"}
    /\ pc = "step" => Len(events) = event_count

\* Events, results, steps and advice always belong to a session that is in
\* the database, however often its row is replaced and wherever a process
\* ends: a review finds the session of everything it lists.
NoOrphans ==
    \A s \in Session : ~HasSession(s) =>
        /\ StoredNos(s) = {}
        /\ analysis_results[s] = None /\ advice_artifacts[s] = None
        /\ \A k \in 0 .. StepCount - 1 : analysis_step_results[s][k] = None

\* Every record analysis reads was a stored event: although load_midi_events
\* counts and fetches in two statements, and analysis calls it twice, the
\* recorder can only add rows or replace them, so the count never exceeds
\* what is fetched and no zeroed record is scored as a note.
LoadedEventsAreRows == \A i \in DOMAIN events : events[i] # ZeroEvent

\* The stored aggregate scored the first events of the session by sequence_no,
\* all of them still in the database, even if the take went on while it was
\* loaded; only a later take under the same id may have replaced some.
ScoredIsStoredPrefix ==
    \A s \in Session : analysis_results[s] # None =>
        LET scored == analysis_results[s].scored
            Replaced(n, e) == midi_events[s][n].take > e.take
        IN  \A i \in DOMAIN scored :
              LET e == scored[i]
              IN  /\ midi_events[s][e.no] = e \/ Replaced(e.no, e)
                  /\ \A n \in StoredNos(s) : n < e.no =>
                       Replaced(n, e) \/ \E j \in 1 .. i - 1 : scored[j].no = n

\* Advice that quotes an analysis is about one that was finished: the session
\* has its aggregate and a row for every step of the passage, so a crash in
\* the middle of a first analysis is never advised upon.
AdviceNeedsAnalysis ==
    \A s \in Session :
        advice_artifacts[s] # None /\ advice_artifacts[s].analysis # None =>
            /\ analysis_results[s] # None
            /\ \A k \in 0 .. StepsOf[advice_artifacts[s].analysis.variant] - 1 :
                 analysis_step_results[s][k] # None

\* A take recorded after a refused selection is not analysed against the
\* passage chosen before it: the variant scored is the one last selected when
\* the session row was stored.
AnalysedVariantWasChosen ==
    \A s \in Session : analysis_results[s] # None =>
        analysis_results[s].variant = analysis_results[s].of.wanted

\* advice_orchestrator.h: "On failure, out_request is zeroed when non-null."
RequestZeroedOnFailure ==
    request.status \notin {"none", "HT_OK"} => request.session = None /\ request.analysis = None
=============================================================================
