# Verification of hanon-trainer

TLA+ models, TLC runs and TLAPS proofs about the C library in `src/src`, its
private headers and its tools.  Paths below are relative to the repository's
`src/` directory; `PROJECT.json` maps every definition to the lines it models
and lists the hazards the properties are for.

## 1. The system

hanon-trainer records a pianist's MIDI stream, stores it in SQLite, scores it
against per-step overlays of a score, and shows the score and the results.  It
is a library of small components and two tools; the only concurrency is
between a client thread and the callback thread of the MIDI backend.

| Component | State | Operations | What is hard, and what makes it correct |
|---|---|---|---|
| MIDI HAL, WinMM (`src/midi_hal_winmm.c`) | ring of 256 raw events, ready event, connection, SysEx buffer, start time | connect, disconnect, poll, wait, list, driver callback | Two threads. Nothing crosses connections, order and times hold, the ready event agrees with the ring, calls return, the device is released. |
| MIDI HAL, CoreMIDI (`src/midi_hal_coremidi.c`) | the same ring, source, port, client | the same; one callback splits packets into messages | As WinMM without a ready event; the read procedure may outlive the source's connection. Notes are whole; a listed device is the one connected. |
| MIDI HAL, ALSA (`src/midi_hal_alsa.c`) | sequencer, port, descriptors | the same, without a callback | Partial failures of connect; events are stamped when they are polled. |
| MIDI HAL, fake (`src/midi_hal_fake.c`) | position in nine fixed events | the same | Deterministic double of the interface. |
| Decoder (`src/midi_decode.c`) | none | decode one message | Accepts exactly the well-formed messages; kinds agree with bytes. |
| Capture (`src/midi_capture.c`) | active, session id, next sequence number, HAL handle | open, close, list, start, poll, stop | Numbers without gaps, records of the right session, capture and backend agree on whether a stream runs. |
| Store (`src/sqlite_store.c`) | six tables | load and replace rows | Keys and foreign keys, replaced rows, two-statement reads, crashes between statements. No orphans; what is read was stored. |
| Analysis (`src/performance_analysis.c`) | local record; writes step rows and one aggregate | run a session | Each note counted once; optimal matching; the aggregate agrees with the step rows. |
| Advice (`src/advice_orchestrator.c`, `src/codex_cli_adapter.c`) | advice rows | build request, generate (stubbed) | Works with and without an analysis; nothing half filled on failure. |
| Session core (`src/session_core.c`) | variant, tempo, device | three setters | A refused value leaves the previous one or none. |
| Catalog and overlays (`src/content_catalog.c`, `src/overlay_store.c`) | records read from TSV | open, look up | Outcome of missing, empty, partial and corrupt files. |
| Score renderer (`src/score_renderer.c`), snapshot tool (`tools/ht_viewer_snapshot.c`) | none kept between calls | render one view | Rounding keeps rectangles inside the viewport; first failing stage names the outcome. |
| Probe (`tools/ht_midi_probe.c`) | deadline, stop flag, event count | list, capture, replay | Ends by its deadline or at the stop signal; no event left unread, nothing left open. |
| Guidance renderer, shared types | none | stub; enum names | – |

Interactions: the driver's callback shares the ring with the client under one
lock.  Capture calls the HAL and the decoder; a client stores the records it
polls.  Analysis reads session, events, catalog and overlays and writes two
tables, one statement at a time, without a transaction.  Advice reads the
aggregate.  The probe drives the HAL without capture.

## 2. Modules

| Module | Models | Role |
|---|---|---|
| `RawEventRing` | `queue`, `head`, `count` and the index arithmetic of the callback backends | operators; parameter `Capacity` |
| `EventFifo` | what a callback backend promises: a bounded queue with a ready flag | abstract specification |
| `MidiHalWinmm` | the WinMM backend and its driver | state machine over `RawEventRing`; implements `EventFifo` |
| `MidiHalCoreMidi` | the CoreMIDI backend and its read procedure | state machine over `RawEventRing`; implements `EventFifo` |
| `MidiHalAlsa`, `MidiHalFake` | the two backends without a callback | state and actions for `MidiProbe` |
| `MidiDecode` | which messages decode, and the record made of one | operators |
| `MidiCapture` | the capture handle over an `EventFifo` (`INSTANCE`) | state machine, composed with the abstract backend |
| `StepScoring` | window arithmetic, greedy match, statuses and counts | operators; parameters `StepNs`, `MsNs` |
| `PerformanceAnalysis` | `ht_analysis_run_session` with its reads, writes, failures and crashes | state machine over `StepScoring` |
| `SqliteStore` | five tables and the statements on them | state and actions for `TakePipeline` |
| `TakePipeline` | a recorder and a reviewer over one database, from the settings to the advice | state machine over `SqliteStore` |
| `ViewGeometry`, `CorpusFiles` | `fit_rect`, `project_rect` and the casts; what loading a corpus file gives | operators; parameter `MaxInt` |
| `ScoreView` | the renderer's stages, the snapshot tool and its exit code | state machine over the two |
| `MidiProbe` | the probe over ALSA or the fake keyboard | state machine composing the two backends |
| `RawEventRingTheorems`, `MidiHalWinmm_proofs`, `MidiHalCoreMidi_proofs`, `MidiCapture_proofs`, `PerformanceAnalysis_proofs`, `TakePipeline_proofs`, `ScoreView_proofs`, `MidiProbe_proofs` | – | lemmas and proofs |
| `MCMidiHalWinmm`, `MCMidiHalCoreMidi`, `MCMidiCapture`, `MCPerformanceAnalysis`, `MCTakePipeline`, `MCScoreView`, `MCMidiProbe` | – | inputs for TLC |

### WinMM backend

`MidiHalWinmm` keeps the fields of `struct ht_midi_hal` under names of their
own: `queue` is `queue`/`head`/`count`, `signalled` the manual-reset event,
`device` the input handle as WinMM sees it (`"stuck"` is a handle WinMM kept
after a failed close), `header` who owns the SysEx buffer.  `callback` and
`client` are the two threads' positions.  A step runs from one point where the
other thread can run to the next: `queue_raw_event` is `BuildEvent`, the
unlocked part that samples `event_ns`, and `QueueEvent`, the critical section;
connect and disconnect are a step per WinMM call and per critical section.

The driver is external.  The model assumes of it what the code relies on: one
callback at a time; callbacks only between a successful `midiInStart` and the
return of `midiInStop`, or from `midiInReset` returning the buffer; a close
that waits for the running callback and fails while the driver owns a buffer.
A SysEx buffer may come back from `midiInReset` with the part of a message
that had arrived, or empty.  There is one device: after it is stuck every
connect is refused, and going on with another is not modelled.  `take`, `made`, `received`, `lost` and `reported`
are history variables.

### CoreMIDI backend

`ReadProc` is handed a packet list, which the callback walks with `packet` and
`offset`.  `QueueEvent` cuts the next message out of the packet, from
`FirstByte` to `LastByte` with `MessageLength` for `midi_message_length`, and
pushes it into the ring; `NextPacket` goes on when the packet has none left.
The client may run between any two of these steps.  Every event carries, as
ghosts, the call, the packet and the place it was cut from, so that
`NotesAreWhole` can hold it against the bytes that were played; `made` counts
the messages of a connection.
`port` is the port's life; the client's connect is three steps, because the
read procedure runs as soon as the source is connected and before `connected`
is set, and disconnect is two.  `sources` is what CoreMIDI enumerates, which
may change (`Replug`) between a listing and a connect by device id.

CoreMIDI is external.  Assumed: one read procedure at a time, started only
while the source is connected; disposing of port and client returns when none
runs, which `ht_midi_hal_close` needs because it frees the handle next; a
unique id stays with its endpoint; and packets hold whole messages, of which
the last may be cut by the packet's end (`HoldsMessages`).  If CoreMIDI let a
read procedure run past `MIDIPortDispose`, the code would have nothing to
prevent the late write.  A real-time byte between a note's status and its data
would be taken for the data, since `midi_message_length` only counts; hence the
last assumption.  A SysEx longer than a raw event is truncated by the code,
which no property looks at, and is left whole here.

### ALSA and fake backends, probe

`MidiHalAlsa` has the connection call by call and two queues: the kernel's,
which the descriptors of `wait_event` watch, and the library's input buffer,
which they do not.  `AlsaTake` moves everything from the first to the second,
as `snd_seq_event_input` does.  A full kernel queue is an overrun, which the
next read reports.  `ConvertAlsaEvent` is the conversion with its clamps.
`MidiHalFake` has the nine events and the position in them.

`MidiProbe` is `main` over either backend (`backend` is constant): `Mode` is
`parse_options`, and the capture loop, with its test of deadline and stop flag,
the wait, the drain event by event and the last drain, is an action per place
where a signal, the deadline or an arrival can come in between.  Failures of
each call of connect, of wait, read and decode lead through the clean-up that
the code runs for them.

### Capture

`MidiCapture` splits start at the return of `ht_midi_hal_connect`, because the
callback may queue events before the session id is stored, and keeps every
other call atomic: the callback touches only the backend's queue.  The backend
is `EventFifo`, which both callback backends implement.  A message is its
bytes; `IsDecodable`, `DecodedKind` and `PublicRecord` follow the decoder's
switch and the record's assignments.

### Analysis

`PerformanceAnalysis` has one action per statement or loop iteration that
matters: the lookups with their early returns (`BeginRun`), failing reads
(`LoadFails`), a step found or missing, one event scored (`ScoreEvent`), the
write of a step row and of the aggregate, each of which may fail, and a
`Crash` between any two.  Times are scaled: `StepNs` units make a step and
`MsNs` a millisecond.  Between runs `ReplaceInputs` changes the session's
events, its status and the overlay, since nothing ties the stored results to
them.  The mean error is kept as its sum and its divisor.  Memory limits and
texts are left out.  `LoadedSteps` is what `ht_db_load_analysis_steps` returns
for a review: every row of the session, those above `step_count` included.

### Store, take and advice

`SqliteStore` has the tables as functions on their primary keys and one action
per writing statement: an INSERT OR REPLACE, refused without a session row
where the table has a foreign key.  SQLite is external: a statement is atomic,
and a statement that fails changes nothing.

`TakePipeline` runs two processes over it.  The recorder sets the variant
at any time (`ht_session_select_variant`, which erases the field when it
refuses an id),
numbers its records from 1 as capture does, and inserts and appends in any
order, because no code of the repository ties capture to the store; it may end
anywhere.  The reviewer is `ht_analysis_run_session` and
`ht_advice_generate_for_session`, a statement at a time: the session row, the
two counts and the fetch of `load_midi_events`, a step row each, the aggregate;
then the request and the advice row.  Advice needs the variant in the catalog
only (`HasVariant`), analysis an enabled overlay too (`Covered`).  The advice
row of the model keeps, as a ghost, the whole request it was made from; the
code stores the variant and a stub text.  Scoring is in `PerformanceAnalysis`; here
an aggregate is what it scored, for which passage, from which session row.
Two recorders at once are not modelled: capture has one active stream.

### Viewer

`ViewGeometry` has the arithmetic of `score_renderer.c` with the casts the
build's compilers give, over a word of `2 * (MaxInt + 1)` values.
`CorpusFiles` has the loaders: a table is its lines, a line its row and its
first fault.  `ScoreView` reads catalog, overlay metadata, overlay steps and
image one after the other, any of which an author may replace in between
(`Edit`), projects the step's region, and writes the output; `result` is
`ht_score_renderer_view_result` and `MapResultToExit` the tool's exit code.

## 3. Runs

| Run | Bounds | Shows |
|---|---|---|
| `Winmm` | 2 slots, 2 connections of 3 messages, clock to 2 | ranges, ready event, no stale events, no input left open, order and times, first events kept, refinement of `EventFifo`; with fair threads, no lost wakeup, calls return, queued events leave |
| `WinmmOverflow` | 1 connection, 3 messages | violation: an overflow is never reported |
| `WinmmRelease` | 1 connection, 1 message | violation: the device is not released |
| `CoreMidi` | 2 slots, 2 takes of 2 read procedures, 3 packet lists, 2 source lists, 1 listing | notes whole, first notes kept, no stale events, the listed device connected, refinement of `EventFifo` |
| `Capture` | 2 slots, 2 takes of 3 messages, 2 sessions; a driver mixes 4 messages, or repeats one of 12 status bytes with 0, 1 or 2 data bytes out of 3 | numbers without gaps, the right session, active exactly while connected, only malformed messages refused, columns agree |
| `AnalysisScoring` | takes of up to 3 events at the windows' edges, 6 overlays of up to 2 steps, 1 run | optimal match, balance of the counters, weak steps |
| `AnalysisReruns` | 3 runs with changing inputs, failures and crashes | the aggregate is written last and agrees with the rows of its run, the first of those loaded |
| `AnalysisStatus` | 1 run, every `capture_status` | violation: sessions that are not completed are scored |
| `Take` | 2 takes of 2 events, 2 session ids (symmetric), passages of 2 steps and of 1, 2 reviews | no orphans, only stored rows scored, advice about finished analyses, the chosen variant analysed |
| `Advice` | 1 session, 1 request, a variant without an overlay too | violation: a failed request is not zeroed |
| `Viewer` | 1 desk with every kind of file, edited during the run, and 225 scores and regions with viewports of every size from 1 to `MaxInt + 1`, `MaxInt` 7 | the score fits, the outline frames its step, the exit code tells the cause |
| `Probe` | kernel queue of 2, 3 events out of 12, 4 replay files, every set of options | nothing behind the wait, queued events printed, nothing left open; the capture ends |

Why the bounds are enough.

* Two slots and three messages fill a ring, wrap its head and lose an event;
  two connections are what it takes for an event to be stale, and every client
  call occurs in every position of the callback.
* CoreMIDI's packet lists are chosen for the splitter: messages of one, two and
  three bytes next to each other, a note cut by the end of its packet and its
  tail at the beginning of the next call, a SysEx over two calls, data bytes
  that belong to no message.  The source lists have an endpoint that is none,
  one with and one without a unique id.
* Three messages per take give accepted, refused, accepted, the shortest stream
  in which a gap can show; the second take shows a number that was not reset.
  The decoder looks at a message's class, its length and whether data exceed
  127; the run has every combination.
* Scoring sees three events on both sides of and on each window boundary,
  repeated pitches in both orders, and steps that expect nothing, one note and
  two equal or different notes.  Three runs are a successful one, one that
  breaks off, and one after it.
* Two takes may share a session id or not, and two reviews are an analysis
  beside or before another, or an analysis and the advice about it; two events
  make a count that grows between the statements.  Both passages of `Take` have
  overlays; a variant without one can only be advised on, and the theorems have
  any number of both.
* The viewer's stills have odd and even, wide and high scores, regions of every
  width at every place, and each viewport, the width that does not fit an int
  included; the edited desk has each fault a file can have.
* The third event finds the kernel's queue of two full.

The theorems of section 5 drop these bounds: every invariant, the action
property and both refinements that a passing run checks are proved there.

The three `Analysis` runs switch off the deadlock check because `MaxRuns`
bounds the calls, and `Probe` because the tool ends; elsewhere no state is
without a successor.

### Disagreements found

* `WinmmOverflow`: `queue_raw_event` drops the newest event and nobody is told;
  `docs/REVIEW-HANON-MIDI-HAL-PLAN.md` requires a status or a diagnostic.
* `WinmmRelease`: disconnecting in the middle of a SysEx lets the callback
  re-arm the buffer during `midiInReset`.  `midiInUnprepareHeader` and
  `midiInClose` then fail unnoticed, the handle is forgotten, and the "start
  again after stop" of `midi_capture.h` fails.
* `AnalysisStatus`: `capture_status` is never read, although
  `performance_analysis.h` speaks of a completed session and `ARCHITECTURE.md`
  wants incomplete ones skipped.
* `Advice`: when `ht_db_load_analysis` fails with anything but "not found",
  `ht_advice_build_request` (`advice_orchestrator.c:53`) returns with session
  and variant already written, although `advice_orchestrator.h:15-16` says that
  the request is zeroed on failure.

Seven things the properties had to allow, which no document of the repository
promises otherwise:

* An analysis deletes no step rows and the loader returns all the session has.
  After a run over a shorter passage a review shows, behind that run's rows,
  older ones that `weak_step_count` (the "Number of flagged steps" of
  `DATA_MODEL.md`) does not count; `RowsAgreeWithResult` speaks of the run's own.
* A second take under one session id replaces the events of the first one by
  one (`ScoredIsStoredPrefix`).
* An endpoint without a unique id is listed by an index that goes stale
  (`ConnectsTheListed`).
* A rectangle beyond an int is narrowed and another one is shown
  (`OverlayFramesItsStep` is about the narrowed one).
* A catalog that cannot be read ends the snapshot tool with the code of a failed
  write (`ExitNamesCause`).
* A viewport wider than `INT_MAX` is not fitted (`ViewFits` excludes it).
* The probe's drain goes on for as long as events arrive, past its deadline
  (`CaptureEnds` holds because `MaxEvents` bounds them).

## 4. Fairness

Only `Winmm` and `Probe` assume any.

In `Winmm`, weak fairness of the steps inside connect, disconnect and the
callback says that a running thread runs on and that WinMM calls return;
`DisconnectReset` and `DisconnectClose` are disabled while a callback runs, so
a lock held too long would still hang them.  Weak fairness of `WaitWakes` is
the operating system's promise about a signalled manual-reset event.  No wait
need time out, no message need arrive, no client need connect or disconnect.
Strong fairness of `PollEvent` is for the client: `capture_events` and
`drain_events` in the probe poll after every wait.

In `Probe`, weak fairness of the tool's own steps says that the process runs
and that calls return, and weak fairness of `Deadline` that time passes.
Nothing need arrive, no signal need come, no call need fail.

## 5. Proofs

TLAPS checks the following for every value of the constants that satisfies the
named assumptions; nothing else is assumed.

`RawEventRingTheorems` and `MidiHalWinmm_proofs`, from `CapacityAssumption` (at
least one slot) and `BoundsAssumption` (natural numbers):

* The ring of any capacity is the queue `Contents` says it is.  `ClearedRing`,
  `PushedRing` (with room and without) and `PoppedRing` are proved from one
  lemma about `%` (`Wrap`).
* `TypeCorrect`: `Spec => []TypeOK`.  Negative time stamps are in the type, so
  no ordering argument is needed here.
* `SignalCorrect` and `NoStaleEventCorrect`.  Neither is inductive.  `IInv`
  adds where the two threads can be together: which device states each client
  position allows (`ClientFitsDevice`), that a callback in progress implies a
  device that is running, stopping or being reset and carries the current
  connection's number (`CallbackFitsDevice`), and that the queue holds only
  that connection's events and is empty once it has been cleared
  (`QueueFitsDevice`).  The decisive step is `DisconnectClose`: it waits for the
  callback, so after it nothing can be queued before the final clear.
  `InvStep` has one step per action; actions that leave the queue, or that
  clear it, share the lemmas `SameQueue` and `ClearedQueue`.
* `Refinement`: `Spec => Fifo!Spec`.  `QueueEvent` maps to `Accept` or, when
  the ring is full, to a stutter; `PollEvent` to `Receive` or a stutter;
  clearing to `Discard`.  It needs `SignalCoherent` for the ready flag.
* `StreamInOrderCorrect` and `FirstEventsCorrect`, by `StreamInv`.  Both speak
  of events that were polled or are queued, while the step that can break them
  pushes an event that only the callback knows.  So the invariant orders driver,
  callback and stream: a built event is the newest message and was stamped after
  connect read the start time (`BuiltIsNewest`), everything in the stream was
  delivered before it and not stamped later (`StreamBehindCallback`), and the
  first `Capacity` messages delivered are all in the stream (`FirstDelivered`).

`MidiHalCoreMidi_proofs`, from `CapacityAssumption` and `CoreMidiAssumption`
(section 2: packets hold whole messages, a unique id stays with its endpoint),
all by `CoreMidiInv`:

* `TypeCorrect` and `NoStaleEventCorrect`.  The invariant says which port each
  client position allows (`ClientFitsPort`), that the read procedure walks the
  last list of this connection (`ReadingFits`), and that the queue holds this
  connection's messages, at most as many as were cut (`QueueFits`).
* `NotesWholeCorrect`.  Its core is `NextMessage`: what `QueueEvent` cuts starts
  at a status byte and ends in the packet, and if it is a channel message it has
  exactly its data, because `HoldsMessages` puts the next status byte behind
  them.  `HeldFits` carries that to every event still to be polled.
* `FirstNotesCorrect`.  `NextNote`: between the offset and the next message, and
  behind the last one, no whole note starts, so the read procedure passes none
  without queueing it.  `NotesHeld` says it of the set of held events, which a
  poll does not change; that this set is the stream's is `StreamSet`.
* `ConnectsTheListedCorrect`, by `ListingFits`: a listed entry is what some
  enumeration names so, the current one unless it has changed since.
* `Refinement`: `Spec => Fifo!Spec`, step by step as for WinMM.

`MidiCapture_proofs`, from `CaptureAssumption` and `SessionAssumption`, over the
abstract backend and hence for any implementation of it:

* `TypeCorrect` and `ActiveCorrect`, by one invariant, `CInv`.  It adds that
  only a connected backend has a queue and that a start in progress has one
  (`ClientFitsHandle`), and that the numbers given and the events queued do not
  exceed what the driver delivered (`Counted`), without which the range of
  `next_sequence_no` is not inductive.
* `RecordsCorrect`, by `OwnerInv`: the queue holds the current take's events
  only, and the id being started or stored is that take's (`TakeFits`).
* `NumbersCorrect`, by `NumberInv`: the next number is one more than the number
  of records of the current take, and the queue is in the driver's order behind
  them (`PlacesFit`).  The step that emits a record extends a finite set by one
  element; every other step keeps the records (`SameRecords`).
* `RecordsAgreeCorrect` and `NothingDroppedCorrect`, for every message of bytes.
  Together they are inductive (`PollInv`).  `ClassOfStatus` stands for the
  arithmetic of the decoder's status byte, and from it the accepted messages
  are exactly the well-formed ones, with a record whose columns agree.

`PerformanceAnalysis_proofs`, from `UnitsAssumption` (a step is an even number
of units, a millisecond at least one) and `InputsAssumption` (the shape of takes
and overlays), for every take, overlay and number of runs:

* `TypeCorrect`, with the counters' ranges (`TypeInv`).
* `ScanCorrect`: the greedy match finds as many matches as any can.  `ScanInv`
  says it of the part of the take that has been scanned, pitch by pitch: of each
  pitch as many slots are matched as were played or expected, whichever is less
  (`MatchesScan`), and the earliest onset is that of the window's first note
  (`OnsetScan`).  A note with a free slot adds a match of its pitch (`SlotOpen`),
  one without finds the pitch exhausted (`NoSlotOpen`).
* `RowsAgreeCorrect` and `WeakStepsCorrect`, by `RunInv`.  A running analysis has
  stored a row of its own for each step before `k` and counted the weak ones,
  and a row is weak unless the step was played as written (`RowsInv`); the
  latter is `RowTells`, from the scan's invariant at the window's end.  The rows
  it has not reached are of earlier runs (`RowDatesInv`), so that those it has
  stored are the first of what is loaded.
* `ResultStoredLastCorrect`, an action property, from the same invariant.
* `NotesBalanceCorrect`, by `BalanceInv`: expected plus extra notes are played
  plus missed ones, of the steps before `k`.  It rests on `WindowsMeet`: the
  steps' windows lie end to end from the start of the take, so that no note of
  theirs is counted twice or passed over.

`TakePipeline_proofs`, from `StoreAssumption` and `PipelineAssumption`; the
recorder's statements may come in any order:

* `NoOrphansCorrect`: `NoOrphans` is inductive once the tables are known to have
  a place for every key (`TableShape`); there is a lemma for each statement.
* `AnalysedVariantCorrect`: the id in the handle is the one last asked for or
  erased, hence also in the rows stored from it and in the row a running
  analysis has loaded, which is not erased (`VariantKept`).
* `AdviceCorrect`: `AdviceInv` says that every aggregate that is stored, quoted
  by a request or quoted by advice is `Finished`, and that a running analysis
  has stored the steps before `step_index` (`ReviewFits`).  `FinishedStays` is
  the reason: no statement takes back an aggregate or a step row.
* `PipelineTypeCorrect`, `LoadedEventsCorrect` and `ScoredPrefixCorrect`, by
  `EventsInv`: a take may grow, or be replaced by another under the same id,
  between the two counts and the fetch.  What is counted can only grow
  (`BufferFits`), since a row is replaced and never deleted, so the buffer is
  filled.  Every row was appended by a take that will not append its number
  again (`RowsFit`); hence what was scored stays a prefix of what is stored, up
  to rows that a later take has replaced (`Prefix`).  The statement's order by
  sequence number is `Rank`, whose lemmas count rows below a number.

`ScoreView_proofs`, from `MaxIntAssumption` (an int holds at least 1) and
`DesksAssumption` (the shape of corpus files), for every corpus, every edit of
it, every request and every int width, by `ViewInv`:

* `ViewFitsCorrect`: `FitRectFits` from the integer division, the casts, which
  keep an int (`Casts`), and the fact that a side scaled by the smaller ratio
  does not exceed its viewport (`ScaledSides`).
* `OverlayFramesCorrect`: `AxisFramed` compares a side's pixels with the score
  pixels they show; the projected edges bound those of the step's region, up to
  the rounding the property names.  The invariant's part `Sizes` ties the
  projection to the rows that were read, whatever the files hold by now.
* `ExitCodeCorrect`, by `Ends`: a run that goes on has met no problem, one that
  stopped reports the problem it met and has written no whole snapshot.
  `Problems` lists all there are, and the theorem goes through them.

`MidiProbe_proofs`, from `AlsaAssumption` (a kernel queue of at least one, event
fields that are integers), over either backend and from every set of options,
by `ProbeInv`:

* `NothingLeftCorrect`, by `Places`: which handles can be held where.
* `NoEventBehindWaitCorrect`, by `Queues`: the library's buffer is empty outside
  `drain_events`, which reads until a poll finds nothing.
* `QueuedIsPrintedCorrect`: what arrived is what was printed, followed by what
  still waits in the library and the kernel (`AlsaOrder`), the fake keyboard's
  output is its first events (`FakeOrder`), and the last drain ends behind what
  was due when it began, or at the event that does not decode (`Ends`).

Only model-checked: `WaitIsWoken`, `CallsReturn`, `QueuedLeaves` of WinMM and
`CaptureEnds` of the probe, which are liveness under fairness and outside the
prover's reach, as `ENABLED` is; and the four violations, which are facts about
one behaviour each.

## 6. Not modelled, and the plan

Every safety property a run checks has its theorem.  Next, in this order:

1. `ht_midi_hal_list_ports` of WinMM beside devices that come and go, as
   CoreMIDI's is modelled, with a property and a theorem like
   `ConnectsTheListed`.
2. A clock in `MidiHalAlsa`, whose time stamps are left out so far: events are
   stamped when they are polled, and how far an onset moves could be stated.
3. The store's `user_state` row with its readers, and the tempo and device
   setters of the session core, once code of the repository reads them.

Left out for good, because nothing the properties tell apart depends on it:
the colour of a pixel, number and text formatting, the prompt's texts, SDL,
SQLite, WinMM, CoreMIDI and ALSA beyond the calls made to them, the CLI adapter
and the guidance renderer (stubs that keep no state), enum names and record
layouts.
