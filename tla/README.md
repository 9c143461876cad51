# DogDB in TLA+

DogDB wraps a DB-API connection and lets "Dolly", a deterministic fault injector,
interfere with the calls that go through it. This directory holds TLA+ models of
its intervention engine, the TLC configurations that check them and proofs of the
main results. Paths below are relative to the repository; `core/` and `proxy/`
stand for `src/dogdb/core/` and `src/dogdb/proxy/`.

## The system

| Component | State | Operations | Talks to |
|---|---|---|---|
| Intervention engine (`proxy/connection.py`, `_InterventionEngine`) | logical tick | `execute`, `executemany`, `_begin_operation` | everything below |
| Fault engine (`core/faults.py`, `FaultEngine`) | none of its own | `before_execute`, `on_result` | decisions, log, house, schedule, statistics |
| Fault policy (`core/faults.py`) | probabilities, modes | selection by priority | mood multipliers |
| Decision engine (`core/decision.py`) | occurrences by template | `begin`, `decide`, `derive` | |
| Dog House (`core/house.py`) | treasures, location index, released templates | `add`, `return_treasure`, `return_all`, `consume_release`, `rebuild_house` | |
| Automatic returns (`core/auto_return.py`) | schedule, order, tick | `advance`, `schedule`, `cancel` | house, by treasure id |
| Mood (`core/mood.py`) | tick, mood | `advance`, `multiplier` | fault weights |
| Event log (`core/event_log.py`) | sequence number, events, file | `append`, `events`, reopening | |
| Statistics (`core/stats.py`) | counters | `record_*`, `snapshot` | |
| Dolly namespace (`DollyNamespace`) | | `return_treasure`, `return_all`, `house`, `log`, `stats` | house, schedule, log |
| Stale read cache (`core/stale_cache.py`) | entries, order by key | `history`, `add` | OLD_BONE |
| Surfaces (`CursorProxy`, `SQLiteProxy`, `DuckDBProxy`) | result, offset, row count | `execute`, `fetch*`, context manager | engine, adapter |
| Adapters (`adapters/base.py`, `materialize`) | the rows read so far | read a result in batches up to a cap | backend |
| Fingerprints (`core/fingerprints.py`) | none | `normalize_sql`, hashes | decisions, house, cache |
| SQL classification, configuration | | pure functions and I/O | engine |

One call is one thread of control, and the log allows a single writer. What is
hard is therefore not parallelism but the order of effects within a call and over
a long series of calls, and what is left behind when a call stops half way:

* an operation passes through up to six places that can raise (an injected error,
  a limit, an error of the backend, a failed write of an event, an assertion, a
  crash), each of them after some of the state has changed;
* the house, its index, the return schedule, the log and the mood are separate
  copies of related facts;
* a treasure may go home in three ways (by hand, all at once, by its time), and
  the release it leaves behind is consumed by a later read;
* two phases draw faults with keys of their own but may apply one in all;
* a session may be opened again on the log of an earlier one, and the file of the
  log may end in a line that was never completed;
* the stale read cache keeps one set of results in two dictionaries with a limit
  each, and what it replays was delivered before the house changed;
* several cursors fetch from results of their own through one engine, and keep
  them when a statement fails;
* a template is found by a scan of the text, in which quotes and comments nest
  in each other's shape.

What makes each component correct: the house holds one treasure per template and
its index agrees with it; the log can rebuild the house; the schedule covers
exactly the treasures and lets none overstay; the mood events form a chain; an
operation suffers one fault and has one verdict per phase; sequence numbers grow;
every call ends; a replay is a result the template was served before and never
shows a row that is in the house; a torn write costs one event and no more; a
cursor hands out each row of its own result once; a template is a fixed point of
the scan; and, seen by the client, hidden rows stay hidden and the first read
after a row came back hides none.

## Modules

The session and what it is composed of:

| Module | Models |
|---|---|
| `Vocabulary` | the sets the components share |
| `HouseLedger` | `HouseLedger` of `core/house.py` |
| `AutoReturn` | `AutoReturnScheduler` |
| `Mood` | `MoodEngine` |
| `EventLog` | `EventLog`, and `rebuild_house` as a function of the log |
| `StaleCache` | `StaleReadCache`: `add`, `_remove`, `history` over both dictionaries |
| `FaultPolicy` | priorities, weights, `select_candidate` |
| `FaultShapes` | what a fault does to the rows |
| `Session` | the engine composing all of these, with the client and crashes |
| `DogHouse` | the abstract promise to the client |
| `SessionProperties` | the properties, and the refinement mapping to `DogHouse` |
| `StaleProperties` | a history of what the client was given, and what OLD_BONE may replay of it |
| `OperationOrder` | a history of the operation each event was appended in, and the order of the events of one operation |
| `WithoutDebug` | a session with debug seen as the session it would be without: the refinement mapping |
| `DebugReplay` | two sessions of one seed on the same calls and draws, the second one with debug |
| `MCSession`, `MCStale`, `MCDebugReplay` | values of the constants for TLC |

The parts below and above it, each with an abstract specification:

| Module | Models |
|---|---|
| `EventLogFile` | the JSONL file of `core/event_log.py` line by line: openings, appends, writes that stop half way, processes that die |
| `Journal` | what that file promises its readers |
| `Materialize` | the loop of `adapters/base.py` that reads a result in batches |
| `CursorSurface` | `CursorProxy`, `DuckDBProxy` and its clones: statements that return or raise, `fetchone`, `fetchmany`, `fetchall` |
| `ResultSets` | what cursors promise a client |
| `Normalize` | `normalize_sql`, one action per branch of the scan |
| `Lexemes` | what an SQL text is made of, without a state: the reference for the scan |
| `MCEventLogFile`, `MCCursorSurface`, `MCNormalize` | values for TLC |

The proofs: `SessionProofs`, `HouseProofs`, `ScheduleProofs`, `DebugProofs`,
`StaleProofs`, `FileProofs`, `SurfaceProofs` and `NormalizeProofs`.

A component module declares the component's variables and one operator per
method; `Session` conjoins them in its actions. `pc` says where the client's call
stands, and one action is one phase of the code:

| `pc` | Code | Actions |
|---|---|---|
| `idle` | between calls | `Call`, `ReturnTreasure`, `ReturnAll` |
| `begin` | `_begin_operation` | `ReturnDue` (an iteration of the loop), `AdvanceMood`, `NoMood` |
| `dispatch` | `execute` up to `decisions.begin`, `executemany` | `Passthrough`, `BeginDecision` |
| `before` | `FaultEngine.before_execute` | `RaiseBefore`, `Delay`, `PassBefore` |
| `backend` | `adapter.execute` and the deferred debug event | `BackendRaises`, `ExceedCap`, `BackendReturns` |
| `result` | `FaultEngine.on_result` | `SkipOnResult`, `ExceedInterventionLimit`, `LoseResponse`, `HideTreasures`, `Stash`, `StashRefused`, `Replay`, `Reshape`, `DeliverWhole` |
| `returning` | the loop of `return_all` | `LogReturned` |

A step appends at most one event, because an append may raise: `Emit` either
records the event and goes on or takes the sequence number and ends the call.
`Crash` ends the process at any point; the session is opened again on its log
with `wrap()`.

Abstractions. A template is a model value with a record of what `classify_sql`
and the scope say of it. A hash that decides is a free choice within what its
range allows: a fault fires "never", "maybe" or "always" by template-independent
weight and mood, a hold is any number of its range. Rows are their indexes in the
backend's answer, so rows of equal value are told apart; a fault that changes
labels, values or the count leaves the rows. A treasure id stands for template,
occurrence and row. A backend may give any number of rows up to `MaxRows`, or
raise. The clock of SLOTH returns. The cache is part of a session; where OLD_BONE
has no probability the code creates none, and `StaleReads` assumes that the fault
never fires then. In `Session` a write appends a whole line or nothing;
`EventLogFile` is about the lines that are neither. There a line is the sequence
of what was written into it, an event or a fragment of one, and a reader skips a
line that is more than one event. `CursorSurface` tells rows by their position and
leaves the faults to `Session`: its engine delivers a result as it was read or
raises. `Normalize` tells characters by class: letters in both cases, digits and
the like as what the scan copies, each quote, the signs that make comments, line
ends and other white space. `Lexemes` defines when a set of positions are the starts of
a text's pieces (quoted texts with their doubled quotes, comments, white space, single
characters) by when each piece closes, with no scan and no recursion, and where a
template has each character that is kept.

## Model checking

Run a configuration with `tlc -config <name>.cfg <module>`.

| Run | Module | Outcome | Question |
|---|---|---|---|
| `house` | `MCSession` | holds | the house, its schedule and its log, without failures; debug only adds events |
| `limits` | `MCSession` | holds | one fault, one verdict, limits, debug, passthrough; the chain of moods, and returns before the other events of an operation |
| `failures` | `MCSession` | holds | failed writes, crashes, restarts, the order of the returns, and that calls end |
| `stale` | `MCStale` | holds | what the cache keeps, and what OLD_BONE may show |
| `logfile` | `MCEventLogFile` | holds | what readers see of a file with torn lines; it refines `Journal` |
| `surface` | `MCCursorSurface` | holds | whole results, caps, fetches; it refines `ResultSets` |
| `normalize` | `MCNormalize` | holds | the scan against the pieces of the text; tokens stay whole; templates are fixed points |
| `delay_skips_house` | `MCSession` | violated | does a hidden row stay hidden when SLOTH delays a read? |
| `restart_house` | `MCSession` | violated | is the house the projection of the log after a restart? |
| `failed_return` | `MCSession` | violated | does the clock assertion survive a failed write? |
| `failed_execute` | `MCCursorSurface` | violated | has a cursor nothing to fetch after a statement that failed? |
| `replay_mood` | `MCDebugReplay` | violated | do the same faults fire with and without debug? |

Bounds, and why they are enough for what is asked:

* `house`: three templates and a house of two, so that a full house refuses a
  row and the order of returns matters; the templates are alike and declared
  symmetric (no action or property tells one from another); two rows, so that
  hiding one leaves one; four calls, enough to stash, return, be spared and stash
  again (three), with one call for another template in between; holds of one to
  three operations, so that entries come due alone, together and out of
  scheduling order, and the house can fill. Returns by hand are not bounded: they
  end with the treasures. Debug is on, so that the same behaviours show what it
  adds to the log; no fault of before_execute has a weight, so that this phase is
  evaluated for the sake of debug alone.
* `limits`: a template of each kind of statement, one in scope with a page of two
  columns in no order, so that every candidate may be eligible, OLD_BONE
  included; four rows against an intervention limit of two and a result cap of
  three, so that below, at and above each limit occur; three calls and a mood
  epoch of one operation, so that the weights change between the operations: one
  mood leaves only BARK and NO_DROP to chance and makes SHUFFLE certain wherever it
  applies. Holds of one or two operations: an operation that returns a treasure
  and changes the mood may still have a verdict in each phase. Faults the engine
  treats alike are represented by one of them.
* `failures`: two templates, so that return_all can fail between two returns and
  leave an entry without its treasure; any event may fail and any step may be the
  last before a crash; four calls and crashes together, so that a session may
  stash, fail, restart and stash again under the same occurrence numbers. One row
  and one length of a hold are enough: which row and when is the matter of `house`.
* `stale`: two results per template and three in all, with five reads of two
  templates: either limit is the first to bite, the total one also evicts from
  the template that is not being read, and an entry is evicted again after a
  replay has entered it. One row, taken by STASH or doubled by ECHO, and an
  intervention limit of one that keeps doubled results out of the cache.
* `logfile`: two sessions, three openings and six appends, so that a torn line
  can be appended to by its own session, after a restart and by the other
  session, twice over.
* `surface`: batches of two and results of up to four rows: empty, less than a
  batch, one batch, a batch and a half, two; caps at a batch, past it and none;
  two cursors and five calls, so that each can run a statement, fetch, fail and
  fetch again; `fetchmany` with sizes from negative to past the end.
* `normalize`: every text of up to four characters of any class, and of six, seven
  and eight over the alphabets of quotes, line comments and block comments: the
  shortest texts in which a doubled quote, a comment in a quote, a quote in a
  comment and a comment that ends at the end of the text are followed by more.
* the violated runs have the least constants that reach the disagreement.

Definitions marked "Mutant" are what a plausible mistake would make of the
definition below them; `PROJECT.json` names the property each of them breaks.

All configurations switch the deadlock check off: a client may stop calling, and
the budget of calls makes it do so.

The five violated runs are disagreements between the code and what the
repository says of it.

* `delay_skips_house`: a read that SLOTH delays is not evaluated again, so a row in
  the house is delivered (`openspec/specs/dog-house/spec.md:10`).
* `restart_house`: a session that is opened again on its log, which `EventLog`
  supports by resuming the numbers, has an empty house while the log rebuilds a
  treasure (`openspec/specs/dog-house/spec.md:31`).
* `failed_return`: when the event of an automatic return cannot be written, the
  logical clock has moved and the mood has not: the assertion at
  `proxy/connection.py:281` fails in that and in every later call.
  `MoodTickAlwaysAgrees` proves that nothing else makes it fail.
* `failed_execute`: `CursorProxy.execute` replaces its result only when the engine
  returns (`proxy/connection.py:531`). After a statement that raised, the cursor
  hands out the rows of the statement before, which `sqlite3.Cursor`, its model
  (`openspec/specs/dbapi-proxy/spec.md:156`), does not.
* `replay_mood`: with debug, on_result is evaluated even when the mood rules every
  fault of the phase out (`proxy/connection.py:230`), and the evaluation uses up
  the release of a returned template (`core/faults.py:413`). The run without debug
  keeps the release, so a later STASH fires in one of the two, although the fault
  events of both shall be the same (`openspec/specs/event-log/spec.md:95`).
  `DebugAlwaysOnlyAddsEvents` proves that, where every write succeeds, only such a
  mood can make a difference; without a mood there is none.

`house` therefore checks the two house properties without SLOTH and without
restarts.

Three more observations have no run of their own. `docs/contract-v2.md:94` says
that a session's numbers have no gaps; a failed or torn write leaves one. A corrupt
line is skipped as the specification of the log says, but the event glued to a
torn line was written in full and is skipped with it (`TornWritesCostOneEvent`
bounds that loss). And `fetchmany(-1)` hands out all rows but the last, where
`sqlite3` hands out all of them; `KeepsResultSets` shows that no row is lost or
given twice even so.

Fairness. `FairSpec` adds `WF_vars(Progress)`: once a call is made, the code runs
to its end by itself. The backend is assumed to answer or to raise and the clock
to return; nothing is assumed of the client. `EveryCallEnds` shows that no phase
waits for something that need not come, for instance a due entry whose treasure
was returned by hand. `surface` assumes `WF(BackendAnswers)`, each fetch of a batch
is answered or raises, and weak fairness of the statement's return to its caller;
`StatementsEnd` shows that the loop over the batches then stops.

## Proofs

Check them with `tlapm SessionProofs.tla` and so on. Assumed are only the named
assumptions on the constants (`HouseLimitAssumption`, `HoldAssumption`,
`MoodAssumption`, `LogAssumption`, `StaleAssumption`, `StaleReads`,
`WeightAssumption`, `SessionAssumption`; `FileAssumption`;
`MaterializeAssumption`, `SurfaceAssumption` and `StatementsAssumption`), which the
validation in the code enforces or which bound an instance. Unless a theorem says
otherwise it covers failing writes and crashes, with any number of templates, rows
and calls. Five hypotheses occur, each where the theorem needs it:

* `~LogMayFail`, where a failing write is known to break the property;
* `~MayCrash`, where it is about one session: a restart numbers the occurrences from
  1 again, so that template and occurrence no longer name one operation, and
  starts with an empty house;
* `OldBoneOn`, where the property is about a cache that exists only with OLD_BONE;
* `NothingSkipsOnResult` of `HouseProofs`, a condition on weights and limits under
  which every read in scope comes to the house: SLOTH has no weight, a result past
  `max_intervention_rows` is an error or cannot occur, and on_result is evaluated in
  every mood. `delay_skips_house` shows what happens otherwise;
* `NoMoodDisarmsStash` of `WithoutDebug`: no mood that can be reached leaves on_result
  without a fault while STASH has a weight in another one, or the cache of OLD_BONE
  has the phase evaluated anyway. It holds of every session without a mood.
  `replay_mood` shows what happens otherwise.

The theorems, with what their invariants add to the properties:

* `TypeCorrect`: `TypeOK` is inductive, one lemma for each phase. A phase's lemma
  uses lemmas on how a call leaves it (`ExitWithNothing`, `ExitWithRows`,
  `ContinueTyped`) and on the events it builds.
* The house (`HouseProofs`): `NextIsHouseStep` shows that each of the session's
  actions does one of six things to the house. `HouseInv` is inductive over them:
  finitely many treasures, one per template, released templates bare, the index
  exact. Neither of the first two properties is inductive without the other facts:
  a second treasure is kept out by the empty `ActiveFor` under which a fault is
  chosen, and a return leaves the released template bare only because there was
  no second treasure; the index stays exact for the same reason.
* `SessionKeepsDogHousePromise`: each house step is a step of `DogHouse` or a
  stutter under the mapping of `SessionProperties`. That STASH needs a template
  without a release comes from `SelectionsAreEligible`; that there is room for
  the hidden row comes from an injection of hidden rows into treasures.
* `StashesAlwaysApart` (`~MayCrash`): after a stash its template has the treasure
  in the house, or is released, or has had an operation that is over
  (`SinceStash`). The release is used up only by an operation with a later
  occurrence than the stash, so the next stash comes one operation later still.
  Nothing is said of what the operation in between delivers: with STASH as the
  only fault, no failing write and no read that skips on_result, as in `house`, it
  is the whole result, but FALSE_EMPTY, a TAIL_CHASE or a debug event that cannot
  be written use the release up as well. The same holds of `Spare` in `DogHouse`.
* `StashedRowsAlwaysStayHidden` (`NothingSkipsOnResult`): `HiddenInv` adds
  that no operation of a read in scope is used up before its result comes, and
  that treasures belong to such reads. Every step then delivers nothing, keeps the
  last delivery while treasures only leave, or delivers rows without those in the
  house (`HiddenStep`); the lemmas on `HideRows` say that the rows left are those
  which no treasure names.
* `SequenceAlwaysGrows`: with the invariant that no number in the log exceeds the
  counter, which failed writes (the counter runs ahead) and reopening (it falls
  back to the largest number) both keep.
* `NothingScheduledOverstays`: with the invariant that the schedule's clock does
  not run ahead of the session's, and is the same where there are automatic returns.
* `ReturnsAlwaysOrdered`: both clauses need bounds that the property does not
  mention. No entry's place exceeds the scheduler's counter, and no treasure's number
  the log's counter, which a failed write advances as well and which a crash sets
  back only when it empties the house (`OrderInv`).
* `OneIsAlwaysNext` and `EveryStepShortensTheCall` are what `EveryCallEnds` rests on.
  The due entry of the next return is the least in two coordinates, which exists
  by the well-foundedness of `<` on the naturals and is one by the order above. The
  measure of a call counts the phases before it, the due entries and the returns
  not logged yet: every step of `Progress` lowers it, also a step whose
  write fails.
* `ScheduleAlwaysMatches` (`~LogMayFail`): `ScheduleInv` adds to the property that
  identities are unique in the house and in the schedule, that the due entries
  have left the schedule, and that the due and the returning sets are empty but
  in their phases; then a treasure and its entry go together.
* `ReturnsAlwaysComeFirst` (`~LogMayFail`): from `ScheduleInv` and `DeadlineInv`, which
  adds to `NoTreasureOverstays` that the schedule's clock is the session's; while a
  call is at its beginning only returns are recorded, and after it nothing is due.
* `HouseAlwaysProjection` (`~LogMayFail`, `~MayCrash`): every step leaves house and
  log alone, takes a treasure and logs its return, or adds one and logs its stash
  (`LedgerStep`). With `ScheduleInv` a return event is about one treasure only; a
  new treasure is about a template that has none.
* `MoodTickAlwaysAgrees` (`~LogMayFail`) and `MoodAlwaysProjection` (also
  `~MayCrash`): the two clocks move once in every call, so the assertion never
  ends a call between a change of mood and its event. The chain needs both ends: as
  long as no event of the mood is in the log the mood is CALM, and the first event
  starts from CALM.
* `OperationsAlwaysInOrder` (`Clocked`, `~MayCrash`): the clock names the operation
  of an event, so the theorem is about sessions with automatic returns or a mood.
  The place of an operation's last event is bounded by the phase of the call
  (`Reached`), and each event has a place past it or is one more return (`Advances`);
  the held back event of a capped read is why the bound depends on `op.slot` too.
  Writes may fail: the next operation has another number. No configuration checks
  it, for under its history TLC sees all actions of the session as one; by hand it
  was checked on the instance of `limits` and on one with two treasures due at once.
* `OneFaultAtMost`, `OneVerdictAtMost`, `InterruptedReadsStaySilent` (`~MayCrash`):
  none of the properties says what an operation still in progress has written.
  `VerdictInv` does: nothing before `before` is left, then at most one event, of
  before_execute, whose type is the one `op.slot` tells of, and none while the
  debug event of a capped read is held back. Occurrences only grow, so that a new
  operation has no events.
* `InterventionsAlwaysWithin`: an operation whose slot is not consumed has not been
  counted yet, so the count of its template is below its occurrences.
* `DebugAlwaysOnlyAddsEvents` (`~LogMayFail`, `NoMoodDisarmsStash`; `DebugProofs`): a
  session with debug refines `Session` itself with `Debug <- FALSE`. The mapping leaves
  the debug events out of the log and gives every event and treasure the number it
  would have without them; a decision made for debug alone is not made. Each action
  then is the same action of the session without debug, with two exceptions: a
  before_execute that passes may be a stutter, and a result that is looked at and
  delivered whole may be one that is not looked at. The mapping counts over the log,
  so the proof begins with how an append changes the ranks of positions
  (`LastingEventKept`, `DebugEventUnseen`). `DebugInv` adds to the house's invariant that
  the numbers in the log have no gap and each treasure bears the number of an event
  that lasts (`BookInv`), or the renumbering could swap the returns of return_all; that
  the slot is open before the backend; and that a house which no mood lets STASH
  fill is empty, so that an evaluation made for debug alone uses no release up
  (`PhaseInv`). A failing write has to be excluded: that of a debug event ends a call
  which goes on without debug. Every draw keeps its template, occurrence and phase, and
  with them its decision key, so what the hash decides is the same in both sessions.
  `house` checks the refinement on one instance. By hand it was also run with moods,
  restarts, caps and OLD_BONE, and TLC refutes it when `NoMoodDisarmsStash` fails.
* The cache (`StaleProofs`): `CacheInv` says that both dictionaries have the same
  entries under growing insertion numbers and within both limits; `StaleIndexesAgree`
  and `CacheIsBounded` are two of its conjuncts. `ReplaysAlwaysWereDelivered` adds
  that every entry is a past delivery and that a replay's event names its
  occurrence, over restarts.
* `OnlyTheOldestAreForgotten` (`OldBoneOn`, `~MayCrash`) and `ReplaysAlwaysAreRecent`
  (`~MayCrash`): entries are in the order of their deliveries, and of a template the
  latest are cached (`CacheFollowsHistory`), because an insertion evicts an entry
  only when as many newer ones stay as a limit allows. `ReplaysAreRecent` speaks of
  the results that the limit per template leaves (`Recent`). A replayed entry was in
  the cache, so fewer than `PerKey` results of its template came after it; and of
  the results of all templates that came after it and that `PerKey` leaves, each is
  cached too, because the total limit evicts the oldest first and the replayed entry,
  older than they are, is still there: they are entries beside it, so fewer than
  `Total`.
* The file (`FileProofs`): `FileInv` says what may be in a line, that only the last
  one may lack its newline, and counts torn writes against the events that were
  lost or still will be; each step of the file is a step of `Journal` or none.
* Results and cursors (`SurfaceProofs`): `ReadInv` relates what was read, the cap
  and what the backend has left; with `CursorInv` (offsets lie within their
  results) every fetch takes a prefix of what remains, negative sizes included.
  The lemmas on slices of sequences that this rests on come first.
* `RowsAreAlwaysAskedFor` and `EveryAnswerShortensTheRead` are what `StatementsEnd` rests
  on: the cap never makes the loop ask for no rows, which it would take for the
  end, and every answer ends it or leaves it fewer rows.
* `TemplatesAlwaysStand` (`NormalizeProofs`): a template is a fixed point of
  `normalize_sql`, for texts of any length. `TemplateInv` gives every character that
  the first scan has written the mode in which a scan would reach it (code, a gap,
  inside one of the quotes): a gap is one space between two texts, nothing in code
  opens a comment, and only a literal has upper case. The second scan passes through
  the same modes and copies every character. No text needs to be taken
  apart recursively: both scans are steps of the specification. `ScanTyped` is the
  type invariant this begins with.
* `AlwaysScansAsReference` and `TokensAlwaysStayWhole` (`NormalizeProofs`): the scan
  agrees with `Lexemes` on texts of any length. `LexInv` names a set of starts for
  what has been read and says three things of it. The scan is inside the last of its
  pieces or at a place where that one closes (`Stands`), where a quoted piece is open
  when its quotes are odd in number and a block is not closed by the star that opened
  it. A gap is pending when something is kept, but not what came last (`Leaves`).
  And what is written falls into pieces at the places of the kept ones, of which the
  last may end before the next character (`Mirrors`): two signs that meet in the
  template were neighbours in the text, so they make no comment there either. No
  recursion is needed because a step of the scan adds at most one start
  (`LexedOn`) and moves nothing that is written (`PlaceOn`). `OneLexing` shows that a
  text has no second such set, by the least position at which two would differ.

Only model-checked are `EveryCallEnds` and `StatementsEnd`: liveness under fairness is
beyond the prover, as is `ENABLED`. Their safety halves are proved, see above.

## Not modelled

* What `rowcount` tells: the events appended during a call decide it, with another
  call possible in between when the injected clock of SLOTH calls back.
* The context managers of the proxies with their commit and rollback, and the
  native passthrough of attributes: they hand a call on to the driver.
* Clones of a DuckDB connection used from several threads. The statements of
  `CursorSurface` run one after the other; that the log has a single writer
  (docs/contract-v2.md:107) is all the repository says about it.
* Values: which cell CHEW spoils, the labels of TANGLED_LEASH, the count of
  WRONG_COUNT, which permutation SHUFFLE makes, the rounding of `unit_interval`, and
  the hashes of templates and parameters. They are functions of a hash and of the
  data without control of their own; a permutation is any permutation here.
* The parsing of SQL, which sqlglot does, and that of settings, a set of field
  checks.
* Examples, benchmarks and scripts hold no logic of the library.

## What is left

1. `rowcount` with its window on the log, and a clock that calls back into the
   proxy while a call waits.
2. `FaultShapes`, completed: the Fisher-Yates derivation against the set of
   permutations, counts, columns and the choice of a cell, over bounded inputs.
3. A transaction around the calls: the context manager of `SQLiteProxy`, with a
   commit that fails and is rolled back.
4. `DebugReplay` follows the two sessions side by side under weights that leave
   nothing to chance; with a function of draws that both consult, it could show for
   any weights what `WithoutDebug` shows for one session.
