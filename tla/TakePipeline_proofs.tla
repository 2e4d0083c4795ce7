------------------------- MODULE TakePipeline_proofs ------------------------
(***************************************************************************)
(* What the database holds, for every number of sessions, events, steps,   *)
(* takes and reviews.                                                      *)
(***************************************************************************)
EXTENDS TakePipeline, FiniteSetTheorems, FunctionTheorems, TLAPS

\* The tables have a row, or None, for every key.
TableShape ==
    /\ DOMAIN practice_sessions = Session
    /\ DOMAIN analysis_results = Session /\ DOMAIN advice_artifacts = Session
    /\ DOMAIN midi_events = Session /\ DOMAIN analysis_step_results = Session
    /\ \A s \in Session :
         /\ DOMAIN midi_events[s] = 1 .. MaxNo
         /\ DOMAIN analysis_step_results[s] = 0 .. StepCount - 1

-----------------------------------------------------------------------------
(* The statements.                                                         *)

LEMMA RowsAreRows ==
    /\ \A t, v, w : [take |-> t, variant |-> v, wanted |-> w] # None
    /\ \A r : [run |-> r] # None
BY DEF None

LEMMA InsertKeeps ==
    ASSUME TableShape, NoOrphans, NEW s, NEW r, r # None, InsertSession(s, r)
    PROVE  TableShape' /\ NoOrphans'
BY DEF TableShape, NoOrphans, InsertSession, HasSession, StoredNos

LEMMA AppendKeeps ==
    ASSUME TableShape, NoOrphans, NEW s, NEW n, NEW r, AppendMidiEvent(s, n, r)
    PROVE  TableShape' /\ NoOrphans'
BY DEF TableShape, NoOrphans, AppendMidiEvent, MayRefer, HasSession, StoredNos

LEMMA StoreStepKeeps ==
    ASSUME TableShape, NoOrphans, NEW s, NEW k, NEW r, StoreAnalysisStep(s, k, r)
    PROVE  TableShape' /\ NoOrphans'
BY DEF TableShape, NoOrphans, StoreAnalysisStep, MayRefer, HasSession, StoredNos

LEMMA StoreAnalysisKeeps ==
    ASSUME TableShape, NoOrphans, NEW s, NEW r, StoreAnalysis(s, r)
    PROVE  TableShape' /\ NoOrphans'
BY DEF TableShape, NoOrphans, StoreAnalysis, MayRefer, HasSession, StoredNos

LEMMA StoreAdviceKeeps ==
    ASSUME TableShape, NoOrphans, NEW s, NEW r, StoreAdvice(s, r)
    PROVE  TableShape' /\ NoOrphans'
BY DEF TableShape, NoOrphans, StoreAdvice, MayRefer, HasSession, StoredNos

-----------------------------------------------------------------------------
(* No row without its session.                                             *)

LEMMA OrphansInit == Init => TableShape /\ NoOrphans
<1> SUFFICES ASSUME Init PROVE TableShape /\ NoOrphans
  OBVIOUS
<1>1. TableShape
  BY DEF Init, StoreInit, TableShape
<1>2. ASSUME NEW s \in Session
      PROVE  /\ StoredNos(s) = {}
             /\ analysis_results[s] = None /\ advice_artifacts[s] = None
             /\ \A k \in 0 .. StepCount - 1 : analysis_step_results[s][k] = None
  BY DEF Init, StoreInit, StoredNos
<1> QED BY <1>1, <1>2 DEF NoOrphans

LEMMA SameTables ==
    ASSUME TableShape, NoOrphans, UNCHANGED tables
    PROVE  TableShape' /\ NoOrphans'
BY DEF TableShape, NoOrphans, HasSession, StoredNos, tables

LEMMA OrphansStep == TableShape /\ NoOrphans /\ [Next]_vars => TableShape' /\ NoOrphans'
<1> SUFFICES ASSUME TableShape, NoOrphans, [Next]_vars
             PROVE  TableShape' /\ NoOrphans'
  OBVIOUS
<1>1. CASE RecordSession
  <2>1. InsertSession(recorder.session,
            [take |-> recorder.take, variant |-> variant_id, wanted |-> wanted])
    BY <1>1 DEF RecordSession
  <2> QED BY <2>1, InsertKeeps, RowsAreRows
<1>2. CASE AppendEvent
  BY <1>2, AppendKeeps DEF AppendEvent
<1>3. CASE StoreStep
  BY <1>3, StoreStepKeeps DEF StoreStep
<1>4. CASE StoreResult
  BY <1>4, StoreAnalysisKeeps DEF StoreResult
<1>5. CASE StoreAdviceRow
  BY <1>5, StoreAdviceKeeps DEF StoreAdviceRow
<1>6. ASSUME UNCHANGED tables PROVE TableShape' /\ NoOrphans'
  BY <1>6, SameTables
<1> QED
  BY <1>1, <1>2, <1>3, <1>4, <1>5, <1>6
  DEF Next, vars, SelectVariant, BeginTake, RunSession, AppendFails, EndTake, AskCount,
      Recount, Fetch, RequestFacts, RequestNotFound, RequestAnalysis, RequestFails, ReviewEnds

\* Events, results, steps and advice always belong to a session that is in the
\* database: the foreign keys of sqlite_store.c hold for every number of
\* sessions, whatever the order of the statements, however often a session
\* row is replaced, and wherever a process ends.
THEOREM NoOrphansCorrect == Spec => []NoOrphans
<1>1. Init => TableShape /\ NoOrphans
  BY OrphansInit
<1>2. TableShape /\ NoOrphans /\ [Next]_vars => TableShape' /\ NoOrphans'
  BY OrphansStep
<1> QED BY <1>1, <1>2, PTL DEF Spec

-----------------------------------------------------------------------------
(* The variant that is scored.                                             *)

\* A variant id is the one last asked for, or erased: in the session handle,
\* in the rows stored from it, and in the row a running analysis has loaded,
\* which is none of the erased ones.
VariantKept ==
    /\ variant_id \in {wanted, ""}
    /\ DOMAIN practice_sessions = Session
    /\ DOMAIN analysis_results = Session
    /\ \A s \in Session : practice_sessions[s] # None =>
         practice_sessions[s].variant \in {practice_sessions[s].wanted, ""}
    /\ pc \in {"count", "recount", "fetch", "step"} =>
         row.variant \in Covered /\ row.variant = row.wanted

VariantInv == VariantKept /\ AnalysedVariantWasChosen

LEMMA VariantInit == Init => VariantInv
BY DEF Init, StoreInit, VariantInv, VariantKept, AnalysedVariantWasChosen

LEMMA VariantStep == VariantInv /\ [Next]_vars => VariantInv'
<1> SUFFICES ASSUME VariantInv, [Next]_vars PROVE VariantInv'
  OBVIOUS
<1> USE DEF VariantInv, VariantKept, AnalysedVariantWasChosen
<1>1. ASSUME NEW text \in Variant \cup {LongText}, SelectVariant(text) PROVE VariantInv'
  BY <1>1 DEF SelectVariant, CopyText, tables, reviewing, locals
<1>2. CASE RecordSession
  BY <1>2, RowsAreRows DEF RecordSession, InsertSession, recording, reviewing, locals
<1>3. ASSUME NEW s \in Session, RunSession(s) PROVE VariantInv'
  BY <1>3, PipelineAssumption DEF RunSession, HasVariant, HasSession, tables, recording
<1>4. CASE StoreResult
  BY <1>4 DEF StoreResult, AggregateRow, StoreAnalysis, recording, locals
<1>5. CASE AppendEvent
  BY <1>5 DEF AppendEvent, AppendMidiEvent, reviewing, locals
<1>6. CASE StoreStep
  BY <1>6 DEF StoreStep, StoreAnalysisStep, recording
<1>7. CASE StoreAdviceRow
  BY <1>7 DEF StoreAdviceRow, StoreAdvice, recording, locals
<1>8. CASE AskCount \/ Recount \/ Fetch
  BY <1>8 DEF AskCount, Recount, Fetch, tables, recording
<1>9. CASE \/ \E s \in Session : BeginTake(s) \/ RequestFacts(s) \/ RequestNotFound(s)
           \/ AppendFails \/ EndTake \/ RequestAnalysis \/ RequestFails \/ ReviewEnds
           \/ UNCHANGED vars
  BY <1>9 DEF BeginTake, RequestFacts, RequestNotFound, AppendFails, EndTake, RequestAnalysis,
             RequestFails, ReviewEnds, CanStart, vars, tables, recording, reviewing, locals
<1> QED
  BY <1>1, <1>2, <1>3, <1>4, <1>5, <1>6, <1>7, <1>8, <1>9 DEF Next

\* No take is scored against a passage that was not the one last selected: the
\* setter of session_core.c erases the previous id when it refuses one, and
\* analysis refuses an erased id.
THEOREM AnalysedVariantCorrect == Spec => []AnalysedVariantWasChosen
<1>1. VariantInv => AnalysedVariantWasChosen
  BY DEF VariantInv
<1> QED BY <1>1, VariantInit, VariantStep, PTL DEF Spec

-----------------------------------------------------------------------------
(* What advice is about.                                                   *)

\* Session s has a row for every step of variant v's passage.
HasSteps(s, v) == \A k \in 0 .. StepsOf[v] - 1 : analysis_step_results[s][k] # None

\* An aggregate that is stored, quoted by a request, or quoted by advice was
\* finished; a running analysis has stored the steps before step_index.
Finished(s, result) ==
    /\ analysis_results[s] # None
    /\ result.variant \in Covered /\ HasSteps(s, result.variant)

ResultsFinished ==
    \A s \in Session : analysis_results[s] # None => Finished(s, analysis_results[s])

AdviceFinished ==
    \A s \in Session :
        advice_artifacts[s] # None /\ advice_artifacts[s].analysis # None =>
            Finished(s, advice_artifacts[s].analysis)

ReviewFits ==
    /\ DOMAIN request = DOMAIN NoRequest
    /\ pc # "idle" => session_id \in Session
    /\ pc \in {"count", "recount", "fetch", "step"} => row.variant \in Covered
    /\ pc \in {"count", "recount", "fetch"} => step_index = 0
    /\ pc = "step" => step_index \in Nat /\ \A k \in 0 .. step_index - 1 :
                         k < StepCount => analysis_step_results[session_id][k] # None
    /\ pc = "advice" /\ request.analysis # None => Finished(session_id, request.analysis)

AdviceInv == TableShape /\ ResultsFinished /\ AdviceFinished /\ ReviewFits

LEMMA StepsBound ==
    ASSUME NEW v \in Covered
    PROVE  StepsOf[v] \in Nat /\ StepsOf[v] <= StepCount
<1>1. StepsOf[v] \in 0 .. StepCount
  BY PipelineAssumption
<1> QED BY <1>1, StoreAssumption

\* No statement takes back an aggregate or a step row.
LEMMA FinishedStays ==
    ASSUME TableShape, [Next]_vars, NEW s \in Session
    PROVE  /\ analysis_results[s] # None => analysis_results[s]' # None
           /\ \A k \in 0 .. StepCount - 1 :
                analysis_step_results[s][k] # None => analysis_step_results[s][k]' # None
           /\ \A result : Finished(s, result) => Finished(s, result)'
<1>1. analysis_results[s] # None => analysis_results[s]' # None
  <2>1. CASE StoreResult
    BY <2>1 DEF StoreResult, StoreAnalysis, AggregateRow, TableShape, None
  <2>2. ASSUME UNCHANGED analysis_results PROVE analysis_results[s]' = analysis_results[s]
    BY <2>2
  <2> QED
    BY <2>1, <2>2
    DEF Next, vars, tables, SelectVariant, BeginTake, RunSession, RecordSession, InsertSession,
        AppendEvent, AppendMidiEvent, AppendFails, EndTake, AskCount, Recount, Fetch, StoreStep,
        StoreAnalysisStep, RequestFacts, RequestNotFound, RequestAnalysis, RequestFails,
        StoreAdviceRow, StoreAdvice, ReviewEnds
<1>2. ASSUME NEW k \in 0 .. StepCount - 1, analysis_step_results[s][k] # None
      PROVE  analysis_step_results[s][k]' # None
  <2>1. CASE StoreStep
    BY <1>2, <2>1, RowsAreRows DEF StoreStep, StoreAnalysisStep, TableShape
  <2>2. ASSUME UNCHANGED analysis_step_results
        PROVE  analysis_step_results[s][k]' = analysis_step_results[s][k]
    BY <2>2
  <2> QED
    BY <1>2, <2>1, <2>2
    DEF Next, vars, tables, SelectVariant, BeginTake, RunSession, RecordSession, InsertSession,
        AppendEvent, AppendMidiEvent, AppendFails, EndTake, AskCount, Recount, Fetch, StoreResult,
        StoreAnalysis, RequestFacts, RequestNotFound, RequestAnalysis, RequestFails,
        StoreAdviceRow, StoreAdvice, ReviewEnds
<1>3. ASSUME NEW result, Finished(s, result) PROVE Finished(s, result)'
  <2>1. StepsOf[result.variant] \in Nat /\ StepsOf[result.variant] <= StepCount
    BY <1>3, StepsBound DEF Finished
  <2>2. \A k \in 0 .. StepsOf[result.variant] - 1 : k \in 0 .. StepCount - 1
    BY <2>1, StoreAssumption
  <2> QED BY <1>1, <1>2, <1>3, <2>2 DEF Finished, HasSteps
<1> QED BY <1>1, <1>2, <1>3

LEMMA AdviceInit == Init => AdviceInv
<1> SUFFICES ASSUME Init PROVE AdviceInv
  OBVIOUS
<1>1. TableShape
  BY OrphansInit
<1>2. \A s \in Session : analysis_results[s] = None /\ advice_artifacts[s] = None
  BY DEF Init, StoreInit
<1> QED BY <1>1, <1>2 DEF AdviceInv, ResultsFinished, AdviceFinished, ReviewFits, Init

LEMMA ResultsStep ==
    ASSUME AdviceInv, [Next]_vars
    PROVE  ResultsFinished'
<1> SUFFICES ASSUME NEW s \in Session, analysis_results[s]' # None
             PROVE  Finished(s, analysis_results[s])'
  BY DEF ResultsFinished
<1> USE DEF AdviceInv
<1>1. ASSUME analysis_results[s]' = analysis_results[s]
      PROVE  Finished(s, analysis_results[s])'
  <2> DEFINE result == analysis_results[s]
  <2>1. Finished(s, result)
    BY <1>1 DEF ResultsFinished
  <2> QED BY <1>1, <2>1, FinishedStays
<1>2. CASE StoreResult /\ s = session_id
  <2>1. /\ pc = "step" /\ step_index >= StepsOf[row.variant]
        /\ analysis_results[s]' = AggregateRow
        /\ UNCHANGED analysis_step_results
    BY <1>2 DEF StoreResult, StoreAnalysis, TableShape
  <2>2. row.variant \in Covered /\ step_index \in Nat
    BY <2>1 DEF ReviewFits
  <2>3. AggregateRow.variant = row.variant
    BY DEF AggregateRow
  <2>4. \A k \in 0 .. StepsOf[row.variant] - 1 : k \in 0 .. step_index - 1 /\ k < StepCount
    BY <2>1, <2>2, StepsBound, StoreAssumption
  <2>5. HasSteps(s, row.variant)
    BY <1>2, <2>1, <2>4 DEF HasSteps, ReviewFits
  <2> QED BY <2>1, <2>2, <2>3, <2>5 DEF Finished, HasSteps
<1> QED
  BY <1>1, <1>2
  DEF Next, vars, tables, SelectVariant, BeginTake, RunSession, RecordSession, InsertSession,
      AppendEvent, AppendMidiEvent, AppendFails, EndTake, AskCount, Recount, Fetch, StoreStep,
      StoreAnalysisStep, StoreResult, StoreAnalysis, RequestFacts, RequestNotFound,
      RequestAnalysis, RequestFails, StoreAdviceRow, StoreAdvice, ReviewEnds, TableShape

LEMMA AdviceRowStep ==
    ASSUME AdviceInv, [Next]_vars
    PROVE  AdviceFinished'
<1> SUFFICES ASSUME NEW s \in Session, advice_artifacts[s]' # None,
                    advice_artifacts[s].analysis' # None
             PROVE  Finished(s, advice_artifacts[s].analysis)'
  BY DEF AdviceFinished
<1> USE DEF AdviceInv
<1>1. ASSUME advice_artifacts[s]' = advice_artifacts[s]
      PROVE  Finished(s, advice_artifacts[s].analysis)'
  <2>1. Finished(s, advice_artifacts[s].analysis)
    BY <1>1 DEF AdviceFinished
  <2> QED BY <1>1, <2>1, FinishedStays
<1>2. CASE StoreAdviceRow /\ s = session_id
  <2>1. pc = "advice" /\ advice_artifacts[s]' = request
    BY <1>2 DEF StoreAdviceRow, StoreAdvice, TableShape
  <2>2. Finished(s, request.analysis)
    BY <1>2, <2>1 DEF ReviewFits
  <2>3. request' = request
    BY <1>2 DEF StoreAdviceRow, locals
  <2> QED BY <2>1, <2>2, <2>3, FinishedStays
<1> QED
  BY <1>1, <1>2
  DEF Next, vars, tables, SelectVariant, BeginTake, RunSession, RecordSession, InsertSession,
      AppendEvent, AppendMidiEvent, AppendFails, EndTake, AskCount, Recount, Fetch, StoreStep,
      StoreAnalysisStep, StoreResult, StoreAnalysis, RequestFacts, RequestNotFound,
      RequestAnalysis, RequestFails, StoreAdviceRow, StoreAdvice, ReviewEnds, TableShape

LEMMA ReviewStep ==
    ASSUME AdviceInv, TableShape', [Next]_vars
    PROVE  ReviewFits'
<1> USE DEF AdviceInv
\* A step that leaves the reviewer where it is, whatever it stores.
<1>1. ASSUME UNCHANGED <<pc, session_id, row, step_index, request>>
      PROVE  ReviewFits'
  <2>1. ASSUME pc = "step", NEW k \in 0 .. step_index - 1, k < StepCount
        PROVE  analysis_step_results[session_id][k]' # None
    <3>1. step_index \in Nat /\ session_id \in Session
      BY <2>1 DEF ReviewFits
    <3>2. k \in 0 .. StepCount - 1
      BY <2>1, <3>1, StoreAssumption
    <3>3. analysis_step_results[session_id][k] # None
      BY <2>1 DEF ReviewFits
    <3> QED BY <1>1, <3>1, <3>2, <3>3, FinishedStays
  <2>2. ASSUME pc = "advice", request.analysis # None
        PROVE  Finished(session_id, request.analysis)'
    <3>1. session_id \in Session /\ Finished(session_id, request.analysis)
      BY <2>2 DEF ReviewFits
    <3> QED BY <1>1, <3>1, FinishedStays
  <2> QED BY <1>1, <2>1, <2>2 DEF ReviewFits
<1>2. ASSUME NEW s \in Session, RunSession(s) PROVE ReviewFits'
  BY <1>2 DEF RunSession, HasVariant, ReviewFits
<1>3. CASE AskCount \/ Recount \/ Fetch
  <2>1. /\ UNCHANGED <<session_id, row, step_index, request, tables>>
        /\ step_index = 0 /\ row.variant \in Covered /\ session_id \in Session
        /\ pc' \in {"idle", "recount", "fetch", "step"}
    BY <1>3 DEF AskCount, Recount, Fetch, ReviewFits
  <2>2. \A k : k \notin 0 .. step_index - 1
    BY <2>1
  <2> QED BY <2>1, <2>2 DEF ReviewFits
<1>4. CASE StoreStep
  <2>1. /\ pc = "step" /\ pc' = pc /\ step_index' = step_index + 1
        /\ UNCHANGED <<session_id, row, request>>
    BY <1>4 DEF StoreStep
  <2>2. step_index \in Nat /\ session_id \in Session /\ row.variant \in Covered
    BY <2>1 DEF ReviewFits
  <2>3. ASSUME NEW k \in 0 .. step_index' - 1, k < StepCount
        PROVE  analysis_step_results[session_id][k]' # None
    <3>1. k \in 0 .. StepCount - 1 /\ (k = step_index \/ k \in 0 .. step_index - 1)
      BY <2>1, <2>2, <2>3, StoreAssumption
    <3>2. CASE k = step_index
      BY <1>4, <2>2, <3>1, <3>2, RowsAreRows DEF StoreStep, StoreAnalysisStep, TableShape
    <3>3. CASE k \in 0 .. step_index - 1
      <4>1. analysis_step_results[session_id][k] # None
        BY <2>1, <2>3, <3>3 DEF ReviewFits
      <4> QED BY <2>1, <2>2, <3>1, <4>1, FinishedStays
    <3> QED BY <3>1, <3>2, <3>3
  <2>4. step_index' \in Nat
    BY <2>1, <2>2
  <2> QED BY <2>1, <2>2, <2>3, <2>4 DEF ReviewFits
<1>5. CASE StoreResult \/ StoreAdviceRow \/ RequestFails \/ ReviewEnds
  <2>1. pc' = "idle" /\ DOMAIN request' = DOMAIN request
    BY <1>5 DEF StoreResult, StoreAdviceRow, RequestFails, ReviewEnds, locals
  <2> QED BY <2>1 DEF ReviewFits
<1>6. ASSUME NEW s \in Session, RequestFacts(s) PROVE ReviewFits'
  BY <1>6 DEF RequestFacts, NoRequest, ReviewFits
<1>7. ASSUME NEW s \in Session, RequestNotFound(s) PROVE ReviewFits'
  BY <1>7 DEF RequestNotFound, CanStart, NoRequest, ReviewFits
<1>8. CASE RequestAnalysis
  <2>1. /\ pc' = "advice" /\ session_id \in Session
        /\ UNCHANGED <<session_id, tables>>
    BY <1>8 DEF RequestAnalysis, ReviewFits
  <2>2. request' = [request EXCEPT !.analysis = analysis_results[session_id], !.status = "HT_OK"]
    BY <1>8 DEF RequestAnalysis
  <2>3. ASSUME request'.analysis # None
        PROVE  Finished(session_id, request.analysis)'
    <3>1. "analysis" \in DOMAIN request
      BY DEF ReviewFits, NoRequest
    <3>2. request'.analysis = analysis_results[session_id]
      BY <2>2, <3>1
    <3> QED BY <2>1, <2>3, <3>2 DEF ResultsFinished, Finished, HasSteps, tables
  <2>4. DOMAIN request' = DOMAIN request
    BY <2>2
  <2> QED BY <2>1, <2>3, <2>4 DEF ReviewFits
<1> QED
  BY <1>1, <1>2, <1>3, <1>4, <1>5, <1>6, <1>7, <1>8
  DEF Next, vars, tables, reviewing, locals, SelectVariant, BeginTake, RecordSession,
      AppendEvent, AppendFails, EndTake

\* Advice that quotes an analysis is about a finished one: the aggregate and a
\* row for every step of its passage are in the database, for every number of
\* steps and wherever earlier analyses broke off, because ht_analysis_run_session
\* stores the aggregate last and nothing removes a row.
THEOREM AdviceCorrect == Spec => []AdviceNeedsAnalysis
<1>1. Init => NoOrphans /\ AdviceInv
  BY OrphansInit, AdviceInit
<1>2. NoOrphans /\ AdviceInv /\ [Next]_vars => (NoOrphans /\ AdviceInv)'
  BY OrphansStep, ResultsStep, AdviceRowStep, ReviewStep DEF AdviceInv
<1>3. AdviceInv => AdviceNeedsAnalysis
  BY DEF AdviceInv, AdviceFinished, AdviceNeedsAnalysis, Finished, HasSteps
<1> QED BY <1>1, <1>2, <1>3, PTL DEF Spec

-----------------------------------------------------------------------------
(* The rows of a session in order.                                         *)

LEMMA NosFinite ==
    ASSUME NEW s
    PROVE  /\ StoredNos(s) \in SUBSET (1 .. MaxNo) /\ IsFiniteSet(StoredNos(s))
           /\ CountEvents(s) \in Nat
<1>1. StoredNos(s) \in SUBSET (1 .. MaxNo) /\ IsFiniteSet(1 .. MaxNo)
  BY StoreAssumption, FS_Interval DEF StoredNos
<1>2. IsFiniteSet(StoredNos(s))
  BY <1>1, FS_Subset
<1> QED BY <1>1, <1>2, FS_CardinalityType DEF CountEvents

\* Ranks number the stored rows from 1, in the order of sequence_no.
LEMMA RanksGrow ==
    ASSUME NEW s, NEW n \in StoredNos(s)
    PROVE  /\ Rank(s, n) \in 1 .. CountEvents(s)
           /\ \A m \in StoredNos(s) : m < n => Rank(s, m) < Rank(s, n)
<1> DEFINE nos == StoredNos(s)
           upto(m) == {l \in nos : l <= m}
<1>1. nos \in SUBSET (1 .. MaxNo) /\ IsFiniteSet(nos) /\ nos \subseteq Int
  BY NosFinite
<1>2. \A m : upto(m) \in SUBSET nos
  OBVIOUS
<1>3. \A m : IsFiniteSet(upto(m)) /\ Cardinality(upto(m)) <= Cardinality(nos)
  BY <1>1, <1>2, FS_Subset
<1>4. \A m : Cardinality(upto(m)) \in Nat /\ Rank(s, m) = Cardinality(upto(m))
  BY <1>3, FS_CardinalityType DEF Rank
<1>5. ASSUME NEW m \in nos PROVE Cardinality(upto(m)) # 0
  <2>1. m \in upto(m)
    BY <1>1
  <2> HIDE DEF upto
  <2> QED BY <1>3, <2>1, FS_EmptySet
<1>6. ASSUME NEW m \in nos, m < n PROVE Cardinality(upto(m)) < Cardinality(upto(n))
  <2>1. upto(m) \cup {n} \in SUBSET upto(n) /\ n \notin upto(m)
    BY <1>1, <1>6
  <2> HIDE DEF upto
  <2>2. Cardinality(upto(m) \cup {n}) = Cardinality(upto(m)) + 1
    BY <1>3, <2>1, FS_AddElement
  <2>3. Cardinality(upto(m) \cup {n}) <= Cardinality(upto(n))
    BY <1>3, <2>1, FS_Subset
  <2> QED BY <1>4, <2>2, <2>3
<1>7. CountEvents(s) = Cardinality(nos) /\ CountEvents(s) \in Nat
  BY NosFinite DEF CountEvents
<1> HIDE DEF upto
<1>8. Rank(s, n) \in 1 .. CountEvents(s)
  BY <1>3, <1>4, <1>5, <1>7
<1> QED BY <1>4, <1>6, <1>8

\* Every rank has its row.
LEMMA RankTaken ==
    ASSUME NEW s, NEW i \in 1 .. CountEvents(s)
    PROVE  \E n \in StoredNos(s) : Rank(s, n) = i
<1> DEFINE nos == StoredNos(s)
           f == [n \in nos |-> Rank(s, n)]
<1>1. nos \in SUBSET (1 .. MaxNo) /\ IsFiniteSet(nos) /\ nos \subseteq Int
  BY NosFinite
<1>2. CountEvents(s) = Cardinality(nos) /\ CountEvents(s) \in Nat
  BY NosFinite DEF CountEvents
<1>3. \A n \in nos : Rank(s, n) \in 1 .. CountEvents(s)
  BY RanksGrow
<1>4. \A m \in nos, n \in nos : m < n => Rank(s, m) < Rank(s, n)
  BY RanksGrow
<1>5. ASSUME NEW m \in nos, NEW n \in nos, Rank(s, m) = Rank(s, n) PROVE m = n
  <2>1. ~(Rank(s, m) < Rank(s, n)) /\ ~(Rank(s, n) < Rank(s, m))
    BY <1>3, <1>5
  <2>2. ~(m < n) /\ ~(n < m)
    BY <1>4, <2>1
  <2>3. m \in Int /\ n \in Int
    BY <1>1
  <2> QED BY <2>2, <2>3
<1>6. f \in Injection(nos, 1 .. CountEvents(s))
  BY <1>3, <1>5 DEF Injection, IsInjective
<1>7. IsFiniteSet(1 .. CountEvents(s)) /\ Cardinality(1 .. CountEvents(s)) = CountEvents(s)
  BY <1>2, FS_Interval
<1> HIDE DEF f
<1>8. f \in Surjection(nos, 1 .. CountEvents(s))
  BY <1>2, <1>6, <1>7, FS_Injection
<1>9. \E n \in nos : f[n] = i
  BY <1>8 DEF Surjection
<1> QED BY <1>9 DEF f

\* Row i is a stored row, and the rows before it are those of lower numbers.
LEMMA RowsInOrder ==
    ASSUME NEW s, NEW i \in 1 .. CountEvents(s)
    PROVE  \E n \in StoredNos(s) :
             /\ Rank(s, n) = i /\ EventRows(s)[i] = midi_events[s][n]
             /\ \A m \in StoredNos(s) : m < n => Rank(s, m) \in 1 .. i - 1
<1> DEFINE n == CHOOSE n \in StoredNos(s) : Rank(s, n) = i
<1>1. n \in StoredNos(s) /\ Rank(s, n) = i
  BY RankTaken
<1>2. EventRows(s)[i] = midi_events[s][n]
  BY DEF EventRows
<1> HIDE DEF n
<1>3. ASSUME NEW m \in StoredNos(s), m < n PROVE Rank(s, m) \in 1 .. i - 1
  BY <1>1, <1>3, RanksGrow, NosFinite
<1> QED BY <1>1, <1>2, <1>3

-----------------------------------------------------------------------------
(* The records of a session, and what analysis has loaded of them.         *)

RecorderFits ==
    /\ takes \in 0 .. MaxTakes
    /\ \/ recorder = Idle
       \/ /\ recorder \in [session : Session, take : Takes, next : 1 .. MaxNo + 1]
          /\ recorder.take = takes

\* A record that was appended: the take being recorded appends no other with
\* this number.
Past(e) ==
    /\ e \in EventRecords /\ e.take <= takes
    /\ recorder # Idle /\ e.take = recorder.take => e.no < recorder.next

RowsFit ==
    \A s \in Session : \A n \in StoredNos(s) :
        Past(midi_events[s][n]) /\ midi_events[s][n].no = n

\* A later take of session s has replaced row n.
Replaced(s, n, e) == midi_events[s][n].take > e.take

PrefixTo(s, scored, i) ==
    LET e == scored[i]
    IN  /\ midi_events[s][e.no] = e \/ Replaced(s, e.no, e)
        /\ \A n \in StoredNos(s) : n < e.no =>
             Replaced(s, n, e) \/ \E j \in 1 .. i - 1 : scored[j].no = n

Prefix(s, scored) ==
    \A i \in DOMAIN scored : Past(scored[i]) /\ PrefixTo(s, scored, i)

ResultsFit ==
    \A s \in Session : analysis_results[s] # None => Prefix(s, analysis_results[s].scored)

BufferFits ==
    /\ event_count \in Nat
    /\ pc \in {"idle", "count", "recount", "fetch", "step", "analysis", "advice"}
    /\ pc # "idle" => session_id \in Session
    /\ pc = "count" => event_count = 0 /\ events = <<>>
    /\ pc \in {"recount", "fetch"} => event_count <= CountEvents(session_id)
    /\ pc = "step" => Prefix(session_id, events) /\ Len(events) = event_count
    /\ LoadedEventsAreRows

SelectionFits ==
    /\ variant_id \in Variant \cup {""} /\ wanted \in Texts
    /\ \A s \in Session : practice_sessions[s] \in SessionRows \cup {None}

EventsInv ==
    TableShape /\ RecorderFits /\ RowsFit /\ ResultsFit /\ BufferFits /\ SelectionFits

LEMMA Bounds == MaxNo \in Nat /\ MaxTakes \in Nat
BY StoreAssumption, PipelineAssumption

LEMMA EventsInit == Init => EventsInv
<1> SUFFICES ASSUME Init PROVE EventsInv
  OBVIOUS
<1>1. TableShape
  BY OrphansInit
<1>2. \A s \in Session : StoredNos(s) = {}
  BY DEF Init, StoreInit, StoredNos
<1>3. \A s \in Session : practice_sessions[s] = None /\ analysis_results[s] = None
  BY DEF Init, StoreInit
<1>4. RecorderFits
  <2>1. recorder = Idle /\ takes = 0
    BY DEF Init
  <2> QED BY <2>1, Bounds DEF RecorderFits
<1>5. BufferFits
  <2>1. pc = "idle" /\ event_count = 0 /\ events = <<>>
    BY DEF Init
  <2> QED BY <2>1 DEF BufferFits, LoadedEventsAreRows
<1>6. SelectionFits
  BY <1>3 DEF Init, SelectionFits, Texts
<1> QED BY <1>1, <1>2, <1>3, <1>4, <1>5, <1>6 DEF EventsInv, RowsFit, ResultsFit

\* What an append stores.
LEMMA AppendIs ==
    ASSUME TableShape, RecorderFits, AppendEvent
    PROVE  \E s \in Session, no \in 1 .. MaxNo, t \in Takes :
             /\ recorder = [session |-> s, take |-> t, next |-> no] /\ t = takes
             /\ recorder' = [session |-> s, take |-> t, next |-> no + 1]
             /\ midi_events' = [midi_events EXCEPT ![s][no] = [no |-> no, take |-> t]]
             /\ midi_events'[s][no] = [no |-> no, take |-> t]
             /\ \A r \in Session, n \in 1 .. MaxNo :
                  r # s \/ n # no => midi_events'[r][n] = midi_events[r][n]
             /\ UNCHANGED takes
<1>1. /\ recorder \in [session : Session, take : Takes, next : 1 .. MaxNo + 1]
      /\ recorder.take = takes /\ recorder.next <= MaxNo
      /\ recorder' = [recorder EXCEPT !.next = @ + 1]
      /\ midi_events' = [midi_events EXCEPT ![recorder.session][recorder.next] =
                           [no |-> recorder.next, take |-> recorder.take]]
      /\ UNCHANGED takes
  BY DEF RecorderFits, AppendEvent, AppendMidiEvent
<1>2. PICK s \in Session, no \in 1 .. MaxNo, t \in Takes :
        recorder = [session |-> s, take |-> t, next |-> no]
  BY <1>1, StoreAssumption
<1>3. recorder' = [session |-> s, take |-> t, next |-> no + 1] /\ t = takes
  BY <1>1, <1>2
<1>4. midi_events' = [midi_events EXCEPT ![s][no] = [no |-> no, take |-> t]]
  BY <1>1, <1>2
<1>5. /\ midi_events'[s][no] = [no |-> no, take |-> t]
      /\ \A r \in Session, n \in 1 .. MaxNo :
           r # s \/ n # no => midi_events'[r][n] = midi_events[r][n]
  BY <1>4 DEF TableShape
<1>6. UNCHANGED takes
  BY <1>1
<1> QED BY <1>2, <1>3, <1>4, <1>5, <1>6, Zenon

\* No other action touches the events.
LEMMA EventsAppendOnly ==
    ASSUME [Next]_vars, ~AppendEvent
    PROVE  UNCHANGED midi_events
BY DEF Next, vars, tables, SelectVariant, BeginTake, RunSession, RecordSession, InsertSession,
       AppendFails, EndTake, AskCount, Recount, Fetch, StoreStep, StoreAnalysisStep, StoreResult,
       StoreAnalysis, RequestFacts, RequestNotFound, RequestAnalysis, RequestFails,
       StoreAdviceRow, StoreAdvice, ReviewEnds

LEMMA RecorderStep ==
    ASSUME TableShape, RecorderFits, [Next]_vars
    PROVE  RecorderFits' /\ \A e : Past(e) => Past(e)'
<1>1. ASSUME NEW s \in Session, BeginTake(s)
      PROVE  RecorderFits' /\ \A e : Past(e) => Past(e)'
  <2>1. PICK t \in Nat : t = takes /\ t + 1 \in 1 .. MaxTakes /\ takes' = t + 1
                         /\ recorder' = [session |-> s, take |-> t + 1, next |-> 1]
    <3>1. /\ takes < MaxTakes /\ takes' = takes + 1 /\ takes \in 0 .. MaxTakes
          /\ recorder' = [session |-> s, take |-> takes + 1, next |-> 1]
      BY <1>1 DEF BeginTake, RecorderFits
    <3> QED BY <3>1, Bounds
  <2>2. RecorderFits'
    <3>1. 1 \in 1 .. MaxNo + 1 /\ t + 1 \in Takes /\ t + 1 \in 0 .. MaxTakes
      BY <2>1, Bounds DEF Takes
    <3>2. /\ recorder' \in [session : Session, take : Takes, next : 1 .. MaxNo + 1]
          /\ recorder'.take = t + 1
      BY <2>1, <3>1
    <3> QED BY <2>1, <3>1, <3>2 DEF RecorderFits
  <2>3. ASSUME NEW e, Past(e) PROVE Past(e)'
    <3>1. e \in EventRecords /\ e.take \in Int /\ e.take <= t
      BY <2>1, <2>3 DEF Past, EventRecords, Takes
    <3>2. e.take <= takes' /\ e.take # recorder'.take
      BY <2>1, <3>1
    <3> QED BY <3>1, <3>2 DEF Past
  <2> QED BY <2>2, <2>3
<1>2. CASE AppendEvent
  <2>1. PICK s \in Session, no \in 1 .. MaxNo, t \in Takes :
             /\ recorder = [session |-> s, take |-> t, next |-> no] /\ t = takes
             /\ recorder' = [session |-> s, take |-> t, next |-> no + 1]
             /\ UNCHANGED takes
    BY <1>2, AppendIs
  <2>2. no \in Nat /\ no + 1 \in 1 .. MaxNo + 1
    BY <2>1, StoreAssumption
  <2>3. RecorderFits'
    BY <2>1, <2>2 DEF RecorderFits
  <2>4. /\ recorder # Idle /\ recorder.next = no /\ recorder.take = t
        /\ recorder'.next = no + 1 /\ recorder'.take = t
    <3>1. /\ recorder.next = no /\ recorder.take = t
          /\ recorder'.next = no + 1 /\ recorder'.take = t
      BY <2>1
    <3>2. Idle.next = 0 /\ no # 0
      BY <2>1 DEF Idle
    <3> QED BY <3>1, <3>2
  <2>5. ASSUME NEW e, Past(e) PROVE Past(e)'
    <3>1. e \in EventRecords /\ e.no \in Int /\ e.take <= takes
      BY <2>5 DEF Past, EventRecords
    <3>2. e.take = t => e.no < no
      BY <2>4, <2>5 DEF Past
    <3>3. e.take = t => e.no < no + 1
      BY <2>2, <3>1, <3>2
    <3> QED BY <2>1, <2>4, <3>1, <3>3 DEF Past
  <2> QED BY <2>3, <2>5
<1>3. CASE AppendFails
  <2>1. /\ recorder \in [session : Session, take : Takes, next : 1 .. MaxNo + 1]
        /\ recorder # Idle /\ recorder.take = takes /\ recorder.next <= MaxNo
        /\ recorder' = [recorder EXCEPT !.next = @ + 1] /\ UNCHANGED takes
    BY <1>3 DEF AppendFails, RecorderFits
  <2>2. PICK no \in Nat : no = recorder.next /\ no + 1 \in 1 .. MaxNo + 1
    BY <2>1, StoreAssumption
  <2>3. recorder'.next = no + 1 /\ recorder'.take = recorder.take
    BY <2>1, <2>2
  <2>4. RecorderFits'
    BY <2>1, <2>2, <2>3 DEF RecorderFits
  <2>5. ASSUME NEW e, Past(e) PROVE Past(e)'
    <3>1. e \in EventRecords /\ e.no \in Int /\ e.take <= takes
      BY <2>5 DEF Past, EventRecords
    <3>2. e.take = recorder.take => e.no < no
      BY <2>1, <2>2, <2>5 DEF Past
    <3>3. e.take = recorder.take => e.no < no + 1
      BY <2>2, <3>1, <3>2
    <3> QED BY <2>1, <2>3, <3>1, <3>3 DEF Past
  <2> QED BY <2>4, <2>5
<1>4. CASE EndTake
  BY <1>4 DEF EndTake, RecorderFits, Past
<1>5. ASSUME UNCHANGED <<recorder, takes>> PROVE RecorderFits' /\ \A e : Past(e) => Past(e)'
  BY <1>5 DEF RecorderFits, Past
<1> QED
  BY <1>1, <1>2, <1>3, <1>4, <1>5
  DEF Next, vars, recording, SelectVariant, RunSession, RecordSession, AskCount, Recount, Fetch,
      StoreStep, StoreResult, RequestFacts, RequestNotFound, RequestAnalysis, RequestFails,
      StoreAdviceRow, ReviewEnds

\* A record that may be appended now is of a later take than every record of
\* this number, or of a higher number in the same take.
LEMMA AppendIsLater ==
    ASSUME NEW e, Past(e), NEW s, NEW no \in Nat, NEW t \in Nat,
           recorder = [session |-> s, take |-> t, next |-> no], t = takes, no # 0
    PROVE  e.no \in Int /\ (no <= e.no => t > e.take)
<1>1. recorder.take = t /\ recorder.next = no
  OBVIOUS
<1>2. recorder # Idle
  <2>1. Idle.next = 0
    BY DEF Idle
  <2> QED BY <1>1, <2>1
<1>3. e.no \in Int /\ e.take \in Int /\ e.take <= t
  BY DEF Past, EventRecords, Takes
<1>4. e.take = t => e.no < no
  BY <1>1, <1>2 DEF Past
<1> QED BY <1>3, <1>4

LEMMA RowsFitStep ==
    ASSUME TableShape, RecorderFits, RowsFit, [Next]_vars
    PROVE  RowsFit'
<1>1. \A e : Past(e) => Past(e)'
  BY RecorderStep
<1>2. CASE AppendEvent
  <2>1. PICK s \in Session, no \in 1 .. MaxNo, t \in Takes :
          /\ recorder = [session |-> s, take |-> t, next |-> no] /\ t = takes
          /\ recorder' = [session |-> s, take |-> t, next |-> no + 1]
          /\ midi_events'[s][no] = [no |-> no, take |-> t]
          /\ \A r \in Session, n \in 1 .. MaxNo :
               r # s \/ n # no => midi_events'[r][n] = midi_events[r][n]
          /\ UNCHANGED takes
    BY <1>2, AppendIs
  <2>2. [no |-> no, take |-> t] \in EventRecords
    BY DEF EventRecords
  <2> DEFINE e == [no |-> no, take |-> t]
  <2>3. Past(e)'
    <3>1. e.no = no /\ e.take = t /\ t \in Int /\ no < no + 1 /\ recorder'.next = no + 1
      BY <2>1, Bounds DEF Takes
    <3> HIDE DEF e
    <3> QED BY <2>1, <2>2, <3>1 DEF Past, e
  <2>4. ASSUME NEW r \in Session, NEW n \in StoredNos(r)'
        PROVE  Past(midi_events[r][n])' /\ (midi_events[r][n].no)' = n
    <3>1. n \in 1 .. MaxNo /\ midi_events'[r][n] # None
      BY <2>4 DEF StoredNos
    <3>2. CASE r = s /\ n = no
      BY <2>1, <2>3, <3>2
    <3>3. CASE r # s \/ n # no
      <4>1. PICK q : q = midi_events[r][n] /\ q = midi_events'[r][n]
        BY <2>1, <3>1, <3>3
      <4>2. n \in StoredNos(r)
        BY <3>1, <4>1 DEF StoredNos
      <4>3. Past(q) /\ q.no = n
        BY <4>1, <4>2 DEF RowsFit
      <4> QED BY <1>1, <4>1, <4>3
    <3> QED BY <3>2, <3>3
  <2> QED BY <2>4 DEF RowsFit
<1>3. CASE UNCHANGED midi_events
  BY <1>1, <1>3 DEF RowsFit, StoredNos
<1> QED BY <1>2, <1>3, EventsAppendOnly

\* A stored prefix stays one, whatever is appended.
LEMMA PrefixStays ==
    ASSUME TableShape, RecorderFits, [Next]_vars,
           NEW r \in Session, NEW scored, Prefix(r, scored)
    PROVE  Prefix(r, scored)'
<1>1. \A e : Past(e) => Past(e)'
  BY RecorderStep
<1>2. CASE AppendEvent
  <2>1. PICK s \in Session, no \in 1 .. MaxNo, t \in Takes :
          /\ recorder = [session |-> s, take |-> t, next |-> no] /\ t = takes
          /\ midi_events'[s][no] = [no |-> no, take |-> t]
          /\ \A q \in Session, n \in 1 .. MaxNo :
               q # s \/ n # no => midi_events'[q][n] = midi_events[q][n]
    BY <1>2, AppendIs
  <2>2. no \in Nat /\ no # 0 /\ t \in Nat
    BY Bounds DEF Takes
  <2>3. ASSUME NEW i \in DOMAIN scored PROVE Past(scored[i])' /\ PrefixTo(r, scored, i)'
    <3>1. PICK e : e = scored[i] /\ Past(e) /\ PrefixTo(r, scored, i)
      BY DEF Prefix
    <3>2. e.no \in 1 .. MaxNo
      BY <3>1 DEF Past, EventRecords
    <3>3. e.no \in Int /\ (no <= e.no => t > e.take)
      BY <2>1, <2>2, <3>1, AppendIsLater
    <3>4. ASSUME NEW n \in 1 .. MaxNo, n <= e.no, Replaced(r, n, e) PROVE Replaced(r, n, e)'
      <4>1. CASE r = s /\ n = no
        BY <2>1, <3>3, <3>4, <4>1 DEF Replaced
      <4>2. CASE r # s \/ n # no
        BY <2>1, <3>4, <4>2 DEF Replaced
      <4> QED BY <4>1, <4>2
    <3>5. midi_events'[r][e.no] = e \/ Replaced(r, e.no, e)'
      <4>1. CASE r = s /\ e.no = no
        <5>1. midi_events'[r][e.no].take = t /\ t > e.take
          BY <2>1, <2>2, <3>3, <4>1
        <5> QED BY <5>1 DEF Replaced
      <4>2. CASE r # s \/ e.no # no
        <5>1. midi_events'[r][e.no] = midi_events[r][e.no]
          BY <2>1, <3>2, <4>2
        <5>2. midi_events[r][e.no] = e \/ Replaced(r, e.no, e)
          BY <3>1 DEF PrefixTo
        <5> QED BY <5>1, <5>2 DEF Replaced
      <4> QED BY <4>1, <4>2
    <3>6. ASSUME NEW n \in StoredNos(r)', n < e.no
          PROVE  Replaced(r, n, e)' \/ \E j \in 1 .. i - 1 : scored[j].no = n
      <4>1. n \in 1 .. MaxNo /\ n \in Int /\ n <= e.no /\ midi_events'[r][n] # None
        BY <3>3, <3>6, Bounds DEF StoredNos
      <4>2. CASE r = s /\ n = no
        <5>1. midi_events'[r][n].take = t /\ t > e.take
          BY <2>1, <3>3, <4>1, <4>2
        <5> QED BY <5>1 DEF Replaced
      <4>3. CASE r # s \/ n # no
        <5>1. n \in StoredNos(r)
          BY <2>1, <4>1, <4>3 DEF StoredNos
        <5>2. Replaced(r, n, e) \/ \E j \in 1 .. i - 1 : scored[j].no = n
          BY <3>1, <3>6, <5>1 DEF PrefixTo
        <5> QED BY <3>4, <4>1, <5>2
      <4> QED BY <4>2, <4>3
    <3>7. PrefixTo(r, scored, i)'
      BY <3>1, <3>5, <3>6 DEF PrefixTo
    <3> QED BY <1>1, <3>1, <3>7
  <2> QED BY <2>3 DEF Prefix
<1>3. CASE UNCHANGED midi_events
  BY <1>1, <1>3 DEF Prefix, PrefixTo, Replaced, StoredNos
<1> QED BY <1>2, <1>3, EventsAppendOnly

\* No row goes.
LEMMA CountGrows ==
    ASSUME TableShape, RecorderFits, [Next]_vars, NEW s \in Session
    PROVE  CountEvents(s) <= CountEvents(s)'
<1>1. StoredNos(s) \subseteq StoredNos(s)'
  <2>1. CASE AppendEvent
    <3>1. PICK r \in Session, no \in 1 .. MaxNo, t \in Takes :
            /\ midi_events'[r][no] = [no |-> no, take |-> t]
            /\ \A q \in Session, n \in 1 .. MaxNo :
                 q # r \/ n # no => midi_events'[q][n] = midi_events[q][n]
      BY <2>1, AppendIs
    <3>2. midi_events'[r][no] # None
      BY <3>1 DEF None
    <3> QED BY <3>1, <3>2 DEF StoredNos
  <2>2. CASE UNCHANGED midi_events
    BY <2>2 DEF StoredNos
  <2> QED BY <2>1, <2>2, EventsAppendOnly
<1>2. PICK S : S = StoredNos(s)' /\ IsFiniteSet(S) /\ StoredNos(s) \in SUBSET S
      /\ CountEvents(s)' = Cardinality(S)
  <2>1. StoredNos(s)' \in SUBSET (1 .. MaxNo) /\ IsFiniteSet(1 .. MaxNo)
    BY Bounds, FS_Interval DEF StoredNos
  <2>2. IsFiniteSet(StoredNos(s)')
    BY <2>1, FS_Subset
  <2> QED BY <1>1, <2>2 DEF CountEvents
<1>3. Cardinality(StoredNos(s)) <= Cardinality(S)
  BY <1>2, FS_Subset
<1> QED BY <1>2, <1>3 DEF CountEvents

\* What the SELECT returns is a stored prefix, and fills the buffer.
LEMMA FetchLoads ==
    ASSUME RowsFit, NEW s \in Session, NEW got, event_count \in Nat,
           event_count <= CountEvents(s), got = Filled(EventRows(s))
    PROVE  /\ Prefix(s, got) /\ Len(got) = event_count
           /\ \A i \in DOMAIN got : got[i] # ZeroEvent
<1>1. CountEvents(s) \in Nat /\ Len(EventRows(s)) = CountEvents(s)
  <2>1. CountEvents(s) \in Nat
    BY NosFinite
  <2> QED BY <2>1 DEF EventRows
<1>2. DOMAIN got = 1 .. event_count /\ Len(got) = event_count
  BY DEF Filled
<1>3. ASSUME NEW i \in 1 .. event_count
      PROVE  i \in 1 .. CountEvents(s) /\ got[i] = EventRows(s)[i]
  BY <1>1 DEF Filled
<1>4. ASSUME NEW i \in 1 .. event_count
      PROVE  \E n \in StoredNos(s) :
               /\ Rank(s, n) = i /\ got[i] = midi_events[s][n] /\ got[i].no = n
               /\ Past(got[i])
               /\ \A m \in StoredNos(s) : m < n => Rank(s, m) \in 1 .. i - 1
  <2>1. PICK n \in StoredNos(s) :
          /\ Rank(s, n) = i /\ EventRows(s)[i] = midi_events[s][n]
          /\ \A m \in StoredNos(s) : m < n => Rank(s, m) \in 1 .. i - 1
    BY <1>3, RowsInOrder
  <2>2. Past(midi_events[s][n]) /\ midi_events[s][n].no = n
    BY DEF RowsFit
  <2> QED BY <1>3, <2>1, <2>2
\* The row of rank i is row i, so the rows before row i are those of lower rank.
<1>5. ASSUME NEW m \in StoredNos(s), NEW i \in 1 .. event_count, Rank(s, m) \in 1 .. i - 1
      PROVE  \E j \in 1 .. i - 1 : got[j].no = m
  <2>1. PICK j \in 1 .. i - 1 : j = Rank(s, m) /\ j \in 1 .. event_count
    BY <1>5
  <2>2. PICK n \in StoredNos(s) : Rank(s, n) = j /\ got[j].no = n
    BY <1>4, <2>1
  <2>3. n = m
    <3>1. ~(Rank(s, m) < Rank(s, n)) /\ ~(Rank(s, n) < Rank(s, m))
      BY <2>1, <2>2
    <3>2. ~(m < n) /\ ~(n < m)
      BY <3>1, RanksGrow
    <3>3. m \in Int /\ n \in Int
      BY NosFinite
    <3> QED BY <3>2, <3>3
  <2> QED BY <2>2, <2>3
<1>6. ASSUME NEW i \in 1 .. event_count
      PROVE  Past(got[i]) /\ PrefixTo(s, got, i) /\ got[i] # ZeroEvent
  <2>1. PICK n \in StoredNos(s) :
               /\ Rank(s, n) = i /\ got[i] = midi_events[s][n] /\ got[i].no = n
               /\ Past(got[i])
               /\ \A m \in StoredNos(s) : m < n => Rank(s, m) \in 1 .. i - 1
    BY <1>4
  <2>2. got[i] # ZeroEvent
    <3>1. n # 0 /\ ZeroEvent.no = 0
      BY Bounds DEF StoredNos, ZeroEvent
    <3> QED BY <2>1, <3>1
  <2>3. ASSUME NEW m \in StoredNos(s), m < n
        PROVE  \E j \in 1 .. i - 1 : got[j].no = m
    BY <1>5, <2>1, <2>3
  <2> QED BY <2>1, <2>2, <2>3 DEF PrefixTo
<1> QED BY <1>2, <1>6 DEF Prefix

\* A step that leaves the reviewer's buffer alone.
LEMMA BufferStays ==
    ASSUME EventsInv, [Next]_vars, UNCHANGED <<event_count, events>>,
           UNCHANGED <<pc, session_id>> \/ pc' \in {"idle", "analysis", "advice"},
           pc' # "idle" => session_id' \in Session
    PROVE  BufferFits'
<1>1. /\ event_count \in Nat /\ LoadedEventsAreRows
      /\ pc \in {"idle", "count", "recount", "fetch", "step", "analysis", "advice"}
  BY DEF EventsInv, BufferFits
<1>2. LoadedEventsAreRows'
  BY <1>1 DEF LoadedEventsAreRows
<1>3. CASE pc' \in {"idle", "analysis", "advice"}
  BY <1>1, <1>2, <1>3 DEF BufferFits
<1>4. CASE UNCHANGED <<pc, session_id>>
  <2>1. pc = "count" => event_count = 0 /\ events = <<>>
    BY DEF EventsInv, BufferFits
  <2>2. ASSUME pc \in {"recount", "fetch"}
        PROVE  event_count <= CountEvents(session_id)'
    <3>1. PICK s \in Session : s = session_id /\ s = session_id'
      BY <1>4, <2>2 DEF EventsInv, BufferFits
    <3>2. event_count <= CountEvents(s) /\ CountEvents(s) <= CountEvents(s)'
      BY <2>2, <3>1, CountGrows DEF EventsInv, BufferFits
    <3>3. CountEvents(s) \in Nat
      BY NosFinite
    <3>4. CountEvents(s)' \in Nat
      <4>1. StoredNos(s)' \in SUBSET (1 .. MaxNo) /\ IsFiniteSet(1 .. MaxNo)
        BY Bounds, FS_Interval DEF StoredNos
      <4>2. PICK S : S = StoredNos(s)' /\ S \in SUBSET (1 .. MaxNo)
        BY <4>1
      <4>3. Cardinality(S) \in Nat
        BY <4>1, <4>2, FS_Subset, FS_CardinalityType
      <4> QED BY <4>2, <4>3 DEF CountEvents
    <3>5. event_count <= CountEvents(s)'
      BY <1>1, <3>2, <3>3, <3>4
    <3>6. CountEvents(session_id)' = CountEvents(s)'
      BY <3>1 DEF CountEvents, StoredNos
    <3> QED BY <3>5, <3>6
  <2>3. ASSUME pc = "step" PROVE Prefix(session_id, events)' /\ Len(events) = event_count
    <3>1. PICK s \in Session : s = session_id /\ s = session_id'
      BY <1>4, <2>3 DEF EventsInv, BufferFits
    <3>2. PICK q : q = events /\ q = events'
      OBVIOUS
    <3>3. Prefix(s, q) /\ Len(q) = event_count
      BY <2>3, <3>1, <3>2 DEF EventsInv, BufferFits
    <3>4. Prefix(s, q)'
      BY <3>3, PrefixStays DEF EventsInv
    <3>5. Prefix(session_id, events)' = Prefix(s, q)'
      BY <3>1, <3>2 DEF Prefix, PrefixTo, Replaced, StoredNos
    <3> QED BY <3>2, <3>3, <3>4, <3>5
  <2> QED BY <1>1, <1>2, <1>4, <2>1, <2>2, <2>3 DEF BufferFits
<1> QED BY <1>3, <1>4

LEMMA BufferStep == EventsInv /\ [Next]_vars => BufferFits'
<1> SUFFICES ASSUME EventsInv, [Next]_vars PROVE BufferFits'
  OBVIOUS
<1>1. ASSUME NEW s \in Session, RunSession(s) PROVE BufferFits'
  <2>1. pc' = "count" /\ session_id' = s /\ event_count' = 0 /\ events' = <<>>
    BY <1>1 DEF RunSession
  <2> QED BY <2>1 DEF BufferFits, LoadedEventsAreRows
<1>2. CASE AskCount \/ Recount
  <2>1. /\ pc \in {"count", "recount"} /\ session_id \in Session /\ LoadedEventsAreRows
        /\ pc = "count" => events = <<>>
    BY <1>2 DEF AskCount, Recount, EventsInv, BufferFits
  <2>2. /\ event_count' = CountEvents(session_id) /\ UNCHANGED <<session_id, events, tables>>
        /\ \/ pc' \in {"idle", "recount", "fetch"}
           \/ pc' = "step" /\ pc = "count" /\ event_count' = 0
    BY <1>2 DEF AskCount, Recount
  <2>3. CountEvents(session_id) \in Nat /\ CountEvents(session_id)' = CountEvents(session_id)
    BY <2>2, NosFinite DEF CountEvents, StoredNos, tables
  <2>4. event_count' \in Nat /\ event_count' <= CountEvents(session_id)'
    BY <2>2, <2>3
  <2>5. LoadedEventsAreRows'
    BY <2>1, <2>2 DEF LoadedEventsAreRows
  <2>6. pc' = "step" => Prefix(session_id, events)' /\ Len(events') = event_count'
    <3>1. Len(<<>>) = 0 /\ DOMAIN <<>> = {}
      OBVIOUS
    <3> QED BY <2>1, <2>2, <3>1 DEF Prefix
  <2> QED BY <2>1, <2>2, <2>4, <2>5, <2>6 DEF BufferFits
<1>3. CASE Fetch
  <2>1. /\ pc = "fetch" /\ pc' = "step" /\ events' = Filled(EventRows(session_id))
        /\ UNCHANGED <<tables, recording, session_id, event_count>>
    BY <1>3 DEF Fetch
  <2>2. PICK s, q :
          s \in Session /\ s = session_id /\ q = events' /\ event_count \in Nat
          /\ event_count <= CountEvents(s) /\ RowsFit
    BY <2>1 DEF EventsInv, BufferFits
  <2>3. /\ Prefix(s, q) /\ Len(q) = event_count
        /\ \A i \in DOMAIN q : q[i] # ZeroEvent
    BY <2>1, <2>2, FetchLoads
  <2>4. Prefix(session_id, events)' = Prefix(s, q)
    BY <2>1, <2>2 DEF Prefix, PrefixTo, Replaced, StoredNos, Past, tables, recording
  <2> QED BY <2>1, <2>2, <2>3, <2>4 DEF BufferFits, LoadedEventsAreRows
<1>4. CASE RecordSession \/ AppendEvent \/ AppendFails \/ EndTake \/ StoreStep \/ UNCHANGED vars
  <2>1. UNCHANGED <<pc, session_id, event_count, events>>
    BY <1>4 DEF RecordSession, AppendEvent, AppendFails, EndTake, StoreStep, vars, reviewing, locals
  <2> QED BY <2>1, BufferStays DEF EventsInv, BufferFits
<1>5. ASSUME NEW text \in Variant \cup {LongText}, SelectVariant(text) PROVE BufferFits'
  <2>1. UNCHANGED <<pc, session_id, event_count, events>>
    BY <1>5 DEF SelectVariant, reviewing, locals
  <2> QED BY <2>1, BufferStays DEF EventsInv, BufferFits
<1>6. ASSUME NEW s \in Session, BeginTake(s) \/ RequestNotFound(s) PROVE BufferFits'
  <2>1. UNCHANGED <<pc, session_id, event_count, events>>
    BY <1>6 DEF BeginTake, RequestNotFound, reviewing, locals
  <2> QED BY <2>1, BufferStays DEF EventsInv, BufferFits
<1>7. ASSUME NEW s \in Session, RequestFacts(s) PROVE BufferFits'
  <2>1. pc' = "analysis" /\ session_id' \in Session /\ UNCHANGED <<event_count, events>>
    BY <1>7 DEF RequestFacts
  <2> QED BY <2>1, BufferStays
<1>8. CASE RequestAnalysis
  <2>1. pc' = "advice" /\ session_id' \in Session /\ UNCHANGED <<event_count, events>>
    BY <1>8 DEF RequestAnalysis, EventsInv, BufferFits
  <2> QED BY <2>1, BufferStays
<1>9. CASE StoreResult \/ RequestFails \/ StoreAdviceRow \/ ReviewEnds
  <2>1. pc' = "idle" /\ UNCHANGED <<event_count, events>>
    BY <1>9 DEF StoreResult, RequestFails, StoreAdviceRow, ReviewEnds, locals
  <2> QED BY <2>1, BufferStays
<1> QED
  BY <1>1, <1>2, <1>3, <1>4, <1>5, <1>6, <1>7, <1>8, <1>9 DEF Next

LEMMA ResultsFitStep == EventsInv /\ [Next]_vars => ResultsFit'
<1> SUFFICES ASSUME EventsInv, [Next]_vars, NEW s \in Session, analysis_results'[s] # None
             PROVE  Prefix(s, analysis_results[s].scored)'
  BY DEF ResultsFit
<1>1. CASE analysis_results'[s] = analysis_results[s]
  <2>1. PICK q : q = analysis_results[s].scored /\ q = analysis_results'[s].scored
    BY <1>1
  <2>2. Prefix(s, q)
    BY <1>1, <2>1 DEF EventsInv, ResultsFit
  <2>3. Prefix(s, q)'
    BY <2>2, PrefixStays DEF EventsInv
  <2> QED BY <2>1, <2>3 DEF Prefix, PrefixTo
<1>2. CASE StoreResult /\ s = session_id
  <2>1. pc = "step" /\ analysis_results'[s] = AggregateRow
    BY <1>2 DEF StoreResult, StoreAnalysis, EventsInv, TableShape
  <2>2. PICK q : q = events /\ q = analysis_results'[s].scored
    BY <2>1 DEF AggregateRow
  <2>3. Prefix(s, q)
    BY <1>2, <2>1, <2>2 DEF EventsInv, BufferFits
  <2>4. Prefix(s, q)'
    BY <2>3, PrefixStays DEF EventsInv
  <2> QED BY <2>2, <2>4 DEF Prefix, PrefixTo
<1> QED
  BY <1>1, <1>2
  DEF Next, vars, tables, SelectVariant, BeginTake, RunSession, RecordSession, InsertSession,
      AppendEvent, AppendMidiEvent, AppendFails, EndTake, AskCount, Recount, Fetch, StoreStep,
      StoreAnalysisStep, StoreResult, StoreAnalysis, RequestFacts, RequestNotFound,
      RequestAnalysis, RequestFails, StoreAdviceRow, StoreAdvice, ReviewEnds, EventsInv, TableShape

LEMMA SelectionStep == EventsInv /\ [Next]_vars => SelectionFits'
<1> SUFFICES ASSUME EventsInv, [Next]_vars PROVE SelectionFits'
  OBVIOUS
<1>1. SelectionFits /\ TableShape
  BY DEF EventsInv
<1>2. ASSUME NEW text \in Variant \cup {LongText}, SelectVariant(text) PROVE SelectionFits'
  BY <1>1, <1>2 DEF SelectVariant, CopyText, SelectionFits, Texts, tables
<1>3. CASE RecordSession
  <2>1. recorder.take \in Takes
    BY <1>3 DEF RecordSession, EventsInv, RecorderFits
  <2>2. [take |-> recorder.take, variant |-> variant_id, wanted |-> wanted] \in SessionRows
    BY <1>1, <2>1 DEF SelectionFits, SessionRows
  <2> QED BY <1>1, <1>3, <2>2 DEF RecordSession, InsertSession, SelectionFits, recording, TableShape
<1>4. ASSUME UNCHANGED <<variant_id, wanted, practice_sessions>> PROVE SelectionFits'
  BY <1>1, <1>4 DEF SelectionFits
<1> QED
  BY <1>2, <1>3, <1>4
  DEF Next, vars, tables, recording, BeginTake, RunSession, AppendEvent, AppendMidiEvent,
      AppendFails, EndTake, AskCount, Recount, Fetch, StoreStep, StoreAnalysisStep, StoreResult,
      StoreAnalysis, RequestFacts, RequestNotFound, RequestAnalysis, RequestFails,
      StoreAdviceRow, StoreAdvice, ReviewEnds

LEMMA ShapeStep == TableShape /\ [Next]_vars => TableShape'
<1> SUFFICES ASSUME TableShape, [Next]_vars PROVE TableShape'
  OBVIOUS
<1>1. CASE UNCHANGED tables
  BY <1>1 DEF TableShape, tables
<1>2. CASE RecordSession \/ AppendEvent \/ StoreStep \/ StoreResult \/ StoreAdviceRow
  BY <1>2 DEF TableShape, RecordSession, AppendEvent, StoreStep, StoreResult, StoreAdviceRow,
              InsertSession, AppendMidiEvent, StoreAnalysisStep, StoreAnalysis, StoreAdvice
<1> QED
  BY <1>1, <1>2
  DEF Next, vars, SelectVariant, BeginTake, RunSession, AppendFails, EndTake, AskCount,
      Recount, Fetch, RequestFacts, RequestNotFound, RequestAnalysis, RequestFails, ReviewEnds

LEMMA EventsInvariance == Spec => []EventsInv
<1>1. EventsInv /\ [Next]_vars => EventsInv'
  BY ShapeStep, RecorderStep, RowsFitStep, ResultsFitStep, BufferStep, SelectionStep DEF EventsInv
<1> QED BY <1>1, EventsInit, PTL DEF Spec

\* The tables hold rows of their own kind, for every number of sessions, takes
\* and events, and the buffer has the length analysis was told.
THEOREM PipelineTypeCorrect == Spec => []TypeOK
<1>1. EventsInv => TypeOK
  <2> SUFFICES ASSUME EventsInv PROVE TypeOK
    OBVIOUS
  <2>1. ASSUME NEW s \in Session, NEW n \in 1 .. MaxNo
        PROVE  midi_events[s][n] = None \/ midi_events[s][n] \in EventRecords
    BY DEF EventsInv, RowsFit, StoredNos, Past
  <2>2. recorder.next \in 0 .. MaxNo + 1
    <3>1. CASE recorder = Idle
      <4>1. recorder.next = 0
        BY <3>1 DEF Idle
      <4> QED BY <4>1, Bounds
    <3>2. CASE recorder # Idle
      <4>1. recorder.next \in 1 .. MaxNo + 1
        BY <3>2 DEF EventsInv, RecorderFits
      <4> QED BY <4>1, Bounds
    <3> QED BY <3>1, <3>2
  <2> QED BY <2>1, <2>2 DEF EventsInv, SelectionFits, BufferFits, TypeOK
<1> QED BY <1>1, EventsInvariance, PTL

\* No zeroed record of the buffer is scored as a note, whatever the recorder
\* stores between the statements of the two ht_db_load_midi_events calls.
THEOREM LoadedEventsCorrect == Spec => []LoadedEventsAreRows
<1>1. EventsInv => LoadedEventsAreRows
  BY DEF EventsInv, BufferFits
<1> QED BY <1>1, EventsInvariance, PTL

\* The aggregate scored the first stored events by sequence_no, without a gap,
\* for every number of events and takes: the ORDER BY of load_midi_events, the
\* numbering of capture and INSERT OR REPLACE together leave no other way.
THEOREM ScoredPrefixCorrect == Spec => []ScoredIsStoredPrefix
<1>1. EventsInv => ScoredIsStoredPrefix
  BY DEF EventsInv, ResultsFit, Prefix, PrefixTo, Replaced, ScoredIsStoredPrefix
<1> QED BY <1>1, EventsInvariance, PTL
=============================================================================
