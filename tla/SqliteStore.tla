---------------------------- MODULE SqliteStore -----------------------------
(***************************************************************************)
(* The tables of sqlite_store.c and its statements.  Every statement is a  *)
(* transaction of its own; a write is INSERT OR REPLACE on the primary key *)
(* and, in the tables that refer to practice_sessions, is refused without  *)
(* a session row.  Replacing a session row leaves the rows that refer to   *)
(* it where they are: the foreign keys have no ON DELETE clause.           *)
(*                                                                         *)
(* SQLite is outside the repository; a statement may also fail, which      *)
(* changes no table and is left to the modules that call it.               *)
(***************************************************************************)
EXTENDS Integers, Sequences, FiniteSets

CONSTANTS
    Session,   \* session ids
    MaxNo,     \* bound: sequence numbers
    StepCount  \* step indexes

ASSUME StoreAssumption == MaxNo \in Nat /\ StepCount \in Nat

None == [row |-> "none"]

VARIABLES
    practice_sessions, midi_events,
    analysis_results, analysis_step_results, advice_artifacts

tables == <<practice_sessions, midi_events,
            analysis_results, analysis_step_results, advice_artifacts>>

StoreInit ==
    /\ practice_sessions = [s \in Session |-> None]
    /\ midi_events = [s \in Session |-> [n \in 1 .. MaxNo |-> None]]
    /\ analysis_results = [s \in Session |-> None]
    /\ analysis_step_results = [s \in Session |-> [k \in 0 .. StepCount - 1 |-> None]]
    /\ advice_artifacts = [s \in Session |-> None]

HasSession(s) == practice_sessions[s] # None

\* Mutant: the connection is opened without PRAGMA foreign_keys = ON.
MayRefer_Unchecked(s) == TRUE

MayRefer(s) == HasSession(s)

\* Mutant: the foreign keys are declared ON DELETE CASCADE.
InsertSession_Cascades(s, row) ==
    /\ practice_sessions' = [practice_sessions EXCEPT ![s] = row]
    /\ midi_events' = [midi_events EXCEPT ![s] = [n \in 1 .. MaxNo |-> None]]
    /\ UNCHANGED <<analysis_results, analysis_step_results, advice_artifacts>>

InsertSession(s, row) ==
    /\ practice_sessions' = [practice_sessions EXCEPT ![s] = row]
    /\ UNCHANGED <<midi_events, analysis_results, analysis_step_results, advice_artifacts>>

AppendMidiEvent(s, no, row) ==
    /\ MayRefer(s)
    /\ midi_events' = [midi_events EXCEPT ![s][no] = row]
    /\ UNCHANGED <<practice_sessions, analysis_results, analysis_step_results, advice_artifacts>>

StoreAnalysisStep(s, k, row) ==
    /\ MayRefer(s)
    /\ analysis_step_results' = [analysis_step_results EXCEPT ![s][k] = row]
    /\ UNCHANGED <<practice_sessions, midi_events, analysis_results, advice_artifacts>>

StoreAnalysis(s, row) ==
    /\ MayRefer(s)
    /\ analysis_results' = [analysis_results EXCEPT ![s] = row]
    /\ UNCHANGED <<practice_sessions, midi_events, analysis_step_results, advice_artifacts>>

\* advice_id is made from the session id, so a session has one advice row.
StoreAdvice(s, row) ==
    /\ MayRefer(s)
    /\ advice_artifacts' = [advice_artifacts EXCEPT ![s] = row]
    /\ UNCHANGED <<practice_sessions, midi_events, analysis_results, analysis_step_results>>

StoredNos(s) == {n \in 1 .. MaxNo : midi_events[s][n] # None}

\* SELECT COUNT(*)
CountEvents(s) == Cardinality(StoredNos(s))

\* Mutant: the rows come in another order than sequence_no.
EventRows_Reversed(s) ==
    LET rank(n) == Cardinality({m \in StoredNos(s) : m >= n})
    IN  [i \in 1 .. CountEvents(s) |->
           midi_events[s][CHOOSE n \in StoredNos(s) : rank(n) = i]]

\* SELECT ... ORDER BY sequence_no: row i has i stored numbers up to its own.
Rank(s, n) == Cardinality({m \in StoredNos(s) : m <= n})

EventRows(s) ==
    [i \in 1 .. CountEvents(s) |->
       midi_events[s][CHOOSE n \in StoredNos(s) : Rank(s, n) = i]]
=============================================================================
