------------------------------- MODULE Session -------------------------------
(***************************************************************************)
(* One DogDB session: the intervention engine (proxy/connection.py) with   *)
(* its house, return schedule, mood, event log, stale read cache,          *)
(* decisions and statistics.                                               *)
(*                                                                         *)
(* A call runs in phases, one step each, because between them it may stop: *)
(* an injected error, an error of the backend, a failed write of the log,  *)
(* a crash.  Each step appends at most one event.                          *)
(*                                                                         *)
(*   idle -> begin -> dispatch -> before -> backend -> result -> idle      *)
(*   idle -> returning -> idle                       (dolly.return_all())  *)
(***************************************************************************)
EXTENDS HouseLedger, AutoReturn, Mood, EventLog, StaleCache, FaultPolicy, FaultShapes,
        Integers

CONSTANTS Query,                \* what classify_sql and the scope say of a template
          MaxRows,              \* bound: the rows a query of the backend returns
          OversizeRaises,       \* on_max_rows = "error"
          MaxResultRows,        \* max_result_rows, NoCap for None
          Debug,                \* debug
          StashRaises,          \* stash_mode = "error"
          TailChaseRaises,      \* tail_chase_mode = "error"
          MayCrash,             \* whether the process may end and be started again
          Calls,                \* the <<method, params>> of the client's calls
          MaxCalls              \* bound: calls and crashes of a behaviour

\* SQLKind, and whether OTHER is a transaction statement.
Kinds == {"SELECT", "OTHER", "UNKNOWN", "TRANSACTION"}

Methods == {"execute", "executemany"}
Params == {"positional", "mapping", "unsupported"}

NoCap == -1

\* wrap(): without a probability for OLD_BONE there is no stale read cache.
ASSUME StaleReads == ~OldBoneOn => \A m \in Moods : Weight[m]["OLD_BONE"] = "never"

ASSUME SessionAssumption ==
  /\ Query \in [Templates -> [kind: Kinds, scoped: BOOLEAN, ordered: BOOLEAN,
                              paged: BOOLEAN, columns: Nat]]
  /\ MaxRows \in Nat
  /\ MaxResultRows \in Nat \cup {NoCap}
  /\ Calls \subseteq Methods \X Params
  /\ MaxCalls \in Nat
  /\ {OversizeRaises, Debug, StashRaises, TailChaseRaises, MayCrash} \subseteq BOOLEAN

VARIABLES tick,           \* _logical_tick
          occurrence,     \* DecisionEngine._occurrences
          classified,     \* StatsTracker: executes of SELECT or unknown SQL, by template
          interventions,  \* StatsTracker: interventions, by template
          passthroughs,   \* StatsTracker: operations passed through, by reason
          pc,             \* where the call of the client stands
          op,             \* the operation in progress
          due,            \* due entries that _begin_operation has still to return
          returning,      \* treasures that return_all has still to log
          delivered,      \* what the last call gave the client
          calls           \* bound: calls and crashes so far

statsVars == <<classified, interventions, passthroughs>>
callVars == <<pc, op, due, returning, delivered, calls>>
vars == <<houseVars, scheduleVars, moodVars, logVars, staleVars, statsVars, callVars,
          tick, occurrence>>

Reasons == {"named_parameters", "unknown_sql", "transaction_statement",
            "unsupported_parameter_type", "executemany"}


\* slot: whether before_execute was evaluated for the operation, and whether
\* SLOTH used its one fault up.  rows: how many the backend returned.
Operation ==
  [method: Methods, params: Params, template: Templates, occurrence: Nat,
   slot: {"open", "evaluated", "consumed"}, rows: Nat]

NoOperation == [method |-> "none"]

\* The rows of a read that took part in the interventions, or nothing: an
\* error was raised, or the result was passed through as the backend gave it.
Nothing == [status |-> "nothing"]

Labels == {"idle", "begin", "dispatch", "before", "backend", "result", "returning"}

StatsTypeOK ==
  /\ classified \in [Templates -> Nat]
  /\ interventions \in [Templates -> Nat]
  /\ passthroughs \in [Reasons -> Nat]

CallTypeOK ==
  /\ pc \in Labels
  /\ op \in Operation \cup {NoOperation}
  /\ pc \notin {"idle", "returning"} => op \in Operation
  /\ due \subseteq ScheduleEntry
  /\ returning \subseteq Treasure
  /\ delivered.status \in {"nothing", "rows"}
  /\ delivered.status = "rows" => delivered.template \in Templates
  /\ calls \in Nat

TypeOK ==
  /\ HouseTypeOK /\ ScheduleTypeOK /\ MoodTypeOK /\ LogTypeOK /\ StaleTypeOK
  /\ StatsTypeOK /\ CallTypeOK
  /\ tick \in Nat
  /\ occurrence \in [Templates -> Nat]

Init ==
  /\ HouseInit /\ ScheduleInit /\ MoodInit /\ LogInit /\ StaleInit
  /\ tick = 0
  /\ occurrence = [t \in Templates |-> 0]
  /\ classified = [t \in Templates |-> 0]
  /\ interventions = [t \in Templates |-> 0]
  /\ passthroughs = [r \in Reasons |-> 0]
  /\ pc = "idle"
  /\ op = NoOperation
  /\ due = {}
  /\ returning = {}
  /\ delivered = Nothing
  /\ calls = 0

-----------------------------------------------------------------------------
(* Leaving a phase *)

Goto(label) ==
  /\ pc' = label
  /\ UNCHANGED <<op, due, returning, delivered, calls, staleVars>>

Continue(label, operation) ==
  /\ pc' = label
  /\ op' = operation
  /\ UNCHANGED <<due, returning, delivered, calls, staleVars>>

\* The call returns or raises: its local variables are gone.
Leave(delivery) ==
  /\ pc' = "idle"
  /\ op' = NoOperation
  /\ due' = {}
  /\ returning' = {}
  /\ delivered' = delivery
  /\ UNCHANGED calls

Exit(delivery) == Leave(delivery) /\ UNCHANGED staleVars

Scoped == Query[op.template].scoped
ScopedSelect == Scoped /\ Query[op.template].kind = "SELECT"

Delivery(rows) == [status |-> "rows", template |-> op.template, rows |-> rows]

\* Rows of the backend, each named by its index.
BackendRows == [i \in 1 .. op.rows |-> i - 1]

\* Mutant: the cache is given what the backend returned.
DeliverCachingBackend(rows) ==
  /\ Leave(Delivery(rows))
  /\ IF OldBoneOn /\ ScopedSelect
       THEN StaleAdd(op.template, op.occurrence, BackendRows)
       ELSE UNCHANGED staleVars

\* What is returned, by whichever way, goes into the cache, if there is one;
\* so does the result that OLD_BONE replays.
Deliver(rows) ==
  /\ Leave(Delivery(rows))
  /\ IF OldBoneOn /\ ScopedSelect
       THEN StaleAdd(op.template, op.occurrence, rows)
       ELSE UNCHANGED staleVars

\* An event is appended, or the write fails and its error ends the call.
Emit(event, proceed) == \/ Record(event) /\ proceed
                        \/ RecordFails /\ Exit(Nothing)

CountIntervention ==
  interventions' = [interventions EXCEPT ![op.template] = @ + 1]

\* _event(): the statistics are told once the event is written.
Inject(event, proceed) ==
  \/ Record(event) /\ CountIntervention /\ proceed
  \/ RecordFails /\ UNCHANGED interventions /\ Exit(Nothing)

OperationEventOf(type, name, phase) ==
  [type |-> type, name |-> name, phase |-> phase, template |-> op.template,
   occurrence |-> op.occurrence, seq |-> NextSeq]

Injected(fault, phase) == OperationEventOf("fault_injected", fault, phase)
LimitExceeded(limit) == OperationEventOf("limit_exceeded", limit, "on_result")
DecisionEvaluated(phase) == OperationEventOf("decision_evaluated", "DECISION", phase)

\* Mutant: the event gives the position of the row from 1 on.
PositionEventOf(type, name, phase, t) ==
  [type |-> type, name |-> name, phase |-> phase, template |-> t.template,
   occurrence |-> t.occurrence, row |-> t.row + 1, seq |-> NextSeq]

TreasureEventOf(type, name, phase, t) ==
  [type |-> type, name |-> name, phase |-> phase, template |-> t.template,
   occurrence |-> t.occurrence, row |-> t.row, seq |-> NextSeq]

StaleEventOf(entry) ==
  [type |-> "fault_injected", name |-> "OLD_BONE", phase |-> "on_result",
   template |-> op.template, occurrence |-> op.occurrence, stale |-> entry.occurrence,
   seq |-> NextSeq]

Returned(t, phase) == TreasureEventOf("treasure_returned", "RETURN", phase, t)

\* _debug_decision: recorded only under debug.
Debugged(phase, proceed) ==
  IF Debug THEN Emit(DecisionEvaluated(phase), proceed)
           ELSE proceed /\ UNCHANGED logVars

-----------------------------------------------------------------------------
(* _begin_operation *)

Clocked == MoodOn \/ AutoReturnOn

Call(method, params, template) ==
  /\ pc = "idle"
  /\ calls < MaxCalls
  /\ calls' = calls + 1
  /\ op' = [method |-> method, params |-> params, template |-> template,
            occurrence |-> 0, slot |-> "open", rows |-> 0]
  /\ delivered' = Nothing
  /\ pc' = "begin"
  /\ tick' = IF Clocked THEN tick + 1 ELSE tick
  /\ IF AutoReturnOn
       THEN due' = Due(tick + 1) /\ ScheduleAdvance(tick + 1)
       ELSE UNCHANGED <<due, scheduleVars>>
  /\ UNCHANGED <<houseVars, moodVars, logVars, staleVars, statsVars, returning, occurrence>>

\* Mutant: a due treasure is expected to be in the house.
ReturnDueHeld(entry) ==
  /\ pc = "begin"
  /\ entry \in due
  /\ \A other \in due \ {entry} : Sooner(entry, other)
  /\ \E t \in Holding(entry.id) :
       /\ HouseReturn(t)
       /\ Emit(Returned(t, "auto_return"),
               /\ due' = due \ {entry}
               /\ UNCHANGED <<pc, op, returning, delivered, calls, staleVars>>)
  /\ UNCHANGED <<scheduleVars, moodVars, statsVars, tick, occurrence>>

\* The next due treasure goes home; one that was returned by hand is gone.
ReturnDue(entry) ==
  /\ pc = "begin"
  /\ entry \in due
  /\ \A other \in due \ {entry} : Sooner(entry, other)
  /\ LET proceed == /\ due' = due \ {entry}
                    /\ UNCHANGED <<pc, op, returning, delivered, calls, staleVars>>
     IN  \/ \E t \in Holding(entry.id) :
              HouseReturn(t) /\ Emit(Returned(t, "auto_return"), proceed)
         \/ Holding(entry.id) = {} /\ proceed /\ UNCHANGED <<houseVars, logVars>>
  /\ UNCHANGED <<scheduleVars, moodVars, statsVars, tick, occurrence>>

MoodChanged(next) ==
  [type |-> "mood_changed", name |-> "MOOD", from |-> mood, to |-> next,
   seq |-> NextSeq]

\* Mutant: the mood moves on before the due treasures go home.
AdvanceMoodFirst ==
  /\ pc = "begin"
  /\ MoodOn
  /\ \/ /\ moodTick + 1 = tick
        /\ \E next \in Moods :
             /\ MoodAdvance(next)
             /\ IF next = mood THEN Goto("begin") /\ UNCHANGED logVars
                               ELSE Emit(MoodChanged(next), Goto("begin"))
     \/ moodTick = tick /\ due = {} /\ Goto("dispatch") /\ UNCHANGED <<moodVars, logVars>>
  /\ UNCHANGED <<houseVars, scheduleVars, statsVars, tick, occurrence>>

\* Mutant: the state is set before it is compared, so that no change is seen.
AdvanceMoodUnseen ==
  /\ pc = "begin"
  /\ due = {}
  /\ MoodOn
  /\ \E next \in Moods : MoodAdvance(next)
  /\ Goto("dispatch")
  /\ UNCHANGED <<houseVars, scheduleVars, logVars, statsVars, tick, occurrence>>

\* Once nothing is due the mood moves on, if there is one.  The assertion that
\* follows ends the call if the two clocks have come apart.
AdvanceMood ==
  /\ pc = "begin"
  /\ due = {}
  /\ MoodOn
  /\ \E next \in Moods :
       /\ MoodAdvance(next)
       /\ \/ moodTick + 1 # tick /\ Exit(Nothing) /\ UNCHANGED logVars
          \/ moodTick + 1 = tick /\ next = mood /\ Goto("dispatch") /\ UNCHANGED logVars
          \/ /\ moodTick + 1 = tick /\ next # mood
             /\ Emit(MoodChanged(next), Goto("dispatch"))
  /\ UNCHANGED <<houseVars, scheduleVars, statsVars, tick, occurrence>>

NoMood ==
  /\ pc = "begin"
  /\ due = {}
  /\ ~MoodOn
  /\ Goto("dispatch")
  /\ UNCHANGED <<houseVars, scheduleVars, moodVars, logVars, statsVars, tick, occurrence>>

-----------------------------------------------------------------------------
(* execute and executemany, up to the backend *)

Kind == Query[op.template].kind

\* The first reason that applies, in the order of the code.
PassthroughReason ==
  CASE op.method = "executemany" -> "executemany"
    [] op.params = "mapping" -> "named_parameters"
    [] Kind = "UNKNOWN" -> "unknown_sql"
    [] Kind = "TRANSACTION" -> "transaction_statement"
    [] op.params = "unsupported" -> "unsupported_parameter_type"
    [] OTHER -> "none"

\* record_classification: only execute() counts, before it looks further; the
\* kind of a template never changes, so one counter serves both kinds.
CountClassified ==
  classified' = IF op.method = "execute" /\ Kind \in {"SELECT", "UNKNOWN"}
               THEN [classified EXCEPT ![op.template] = @ + 1]
               ELSE classified

\* The statement goes to the backend, or on_passthrough refuses it; DogDB
\* keeps nothing but the count.
Passthrough ==
  /\ pc = "dispatch"
  /\ CountClassified
  /\ \E reason \in Reasons :
       /\ reason = PassthroughReason
       /\ passthroughs' = [passthroughs EXCEPT ![reason] = @ + 1]
  /\ Exit(Nothing)
  /\ UNCHANGED <<houseVars, scheduleVars, moodVars, logVars, interventions, tick, occurrence>>

CappedRead == MaxResultRows # NoCap /\ ScopedSelect

EvaluateBefore ==
  Scoped /\ (Debug \/ HasEffectiveWeight(BeforeExecutePriority, mood))

BeginDecision ==
  /\ pc = "dispatch"
  /\ PassthroughReason = "none"
  /\ CountClassified
  /\ occurrence' = [occurrence EXCEPT ![op.template] = @ + 1]
  /\ Continue(IF EvaluateBefore THEN "before" ELSE "backend",
              [op EXCEPT !.occurrence = occurrence[op.template] + 1])
  /\ UNCHANGED <<houseVars, scheduleVars, moodVars, logVars, interventions,
                 passthroughs, tick>>

BeforeSelections ==
  Selections(BeforeExecutePriority, Members(BeforeExecutePriority), mood)

\* BARK, GUARD_BOWL, IGNORE: the call raises and the backend never runs.
RaiseBefore(fault) ==
  /\ pc = "before"
  /\ fault \in BeforeSelections \cap BeforeExecuteErrors
  /\ Inject(Injected(fault, "before_execute"), Exit(Nothing))
  /\ UNCHANGED <<houseVars, scheduleVars, moodVars, classified, passthroughs, tick, occurrence>>

\* SLOTH: the delay is recorded, the clock waits, and the slot is used up.
Delay ==
  /\ pc = "before"
  /\ "SLOTH" \in BeforeSelections
  /\ Inject(Injected("SLOTH", "before_execute"),
            Continue("backend", [op EXCEPT !.slot = "consumed"]))
  /\ UNCHANGED <<houseVars, scheduleVars, moodVars, classified, passthroughs, tick, occurrence>>

\* Mutant: a capped read records its debug event before it has completed.
PassBeforeAtOnce ==
  /\ pc = "before"
  /\ "none" \in BeforeSelections
  /\ Debugged("before_execute", Continue("backend", [op EXCEPT !.slot = "evaluated"]))
  /\ UNCHANGED <<houseVars, scheduleVars, moodVars, statsVars, tick, occurrence>>

\* Mutant: a decision made for debug uses the slot up.
PassBeforeConsuming ==
  /\ pc = "before"
  /\ "none" \in BeforeSelections
  /\ LET slot == IF Debug THEN "consumed" ELSE "evaluated"
         proceed == Continue("backend", [op EXCEPT !.slot = slot])
     IN  IF CappedRead THEN proceed /\ UNCHANGED logVars
                       ELSE Debugged("before_execute", proceed)
  /\ UNCHANGED <<houseVars, scheduleVars, moodVars, statsVars, tick, occurrence>>

\* Nothing fires; a capped read keeps its debug event until it has completed.
PassBefore ==
  /\ pc = "before"
  /\ "none" \in BeforeSelections
  /\ LET proceed == Continue("backend", [op EXCEPT !.slot = "evaluated"])
     IN  IF CappedRead THEN proceed /\ UNCHANGED logVars
                       ELSE Debugged("before_execute", proceed)
  /\ UNCHANGED <<houseVars, scheduleVars, moodVars, statsVars, tick, occurrence>>

-----------------------------------------------------------------------------
(* The backend *)

BackendRaises ==
  /\ pc = "backend"
  /\ Exit(Nothing)
  /\ UNCHANGED <<houseVars, scheduleVars, moodVars, logVars, statsVars, tick, occurrence>>

\* RowCapExceeded: reading stopped past max_result_rows.
ExceedCap ==
  /\ pc = "backend"
  /\ CappedRead
  /\ MaxResultRows < MaxRows
  /\ Emit(LimitExceeded("max_result_rows"), Exit(Nothing))
  /\ UNCHANGED <<houseVars, scheduleVars, moodVars, statsVars, tick, occurrence>>

\* Mutant: the debug event of a capped read is recorded for any slot.
BackendReturnsAnySlot(rows) ==
  /\ pc = "backend"
  /\ CappedRead => rows <= MaxResultRows
  /\ LET proceed == Continue("result", [op EXCEPT !.rows = rows])
     IN  IF CappedRead THEN Debugged("before_execute", proceed)
                       ELSE proceed /\ UNCHANGED logVars
  /\ UNCHANGED <<houseVars, scheduleVars, moodVars, statsVars, tick, occurrence>>

BackendReturns(rows) ==
  /\ pc = "backend"
  /\ CappedRead => rows <= MaxResultRows
  /\ LET proceed == Continue("result", [op EXCEPT !.rows = rows])
     IN  IF CappedRead /\ op.slot = "evaluated"
           THEN Debugged("before_execute", proceed)
           ELSE proceed /\ UNCHANGED logVars
  /\ UNCHANGED <<houseVars, scheduleVars, moodVars, statsVars, tick, occurrence>>

-----------------------------------------------------------------------------
(* on_result *)

Oversized == op.rows > MaxInterventionRows

\* Mutant: a slot that SLOTH used up is evaluated a second time.
EvaluateAgain ==
  ScopedSelect /\ (Debug \/ Oversized \/ OldBoneOn
                   \/ HasEffectiveWeight(OnResultPriority, mood))

EvaluateOnResult ==
  /\ ScopedSelect
  /\ op.slot # "consumed"
  /\ Debug \/ Oversized \/ OldBoneOn \/ HasEffectiveWeight(OnResultPriority, mood)

\* The phase is skipped: what the backend gave is delivered as it is.
SkipOnResult ==
  /\ pc = "result"
  /\ ~EvaluateOnResult
  /\ Deliver(BackendRows)
  /\ UNCHANGED <<houseVars, scheduleVars, moodVars, logVars, statsVars, tick, occurrence>>

\* Too many rows to intervene in: nothing else of the phase takes place.
ExceedInterventionLimit ==
  /\ pc = "result"
  /\ EvaluateOnResult
  /\ Oversized
  /\ Emit(LimitExceeded("max_intervention_rows"),
          IF OversizeRaises THEN Exit(Nothing) ELSE Deliver(BackendRows))
  /\ UNCHANGED <<houseVars, scheduleVars, moodVars, statsVars, tick, occurrence>>

NoDropSelections == Selections(OnResultPriority, {"NO_DROP"}, mood)

LoseResponse ==
  /\ pc = "result"
  /\ EvaluateOnResult /\ ~Oversized
  /\ "NO_DROP" \in NoDropSelections
  /\ Inject(Injected("NO_DROP", "on_result"), Exit(Nothing))
  /\ UNCHANGED <<houseVars, scheduleVars, moodVars, classified, passthroughs, tick, occurrence>>

PastNoDrop ==
  /\ pc = "result"
  /\ EvaluateOnResult /\ ~Oversized
  /\ "none" \in NoDropSelections

\* A treasure of the template is in the house: its row stays away.
HideTreasures ==
  /\ PastNoDrop
  /\ ActiveFor(op.template) # {}
  /\ Deliver(HideRows(BackendRows, {t.row : t \in ActiveFor(op.template)}))
  /\ CountIntervention
  /\ UNCHANGED <<houseVars, scheduleVars, moodVars, logVars, classified,
                 passthroughs, tick, occurrence>>

\* Mutant: STASH is a candidate whether or not the template was released.
CandidatesDespiteRelease(chewable) ==
  LET some(n, faults) == IF op.rows >= n THEN faults ELSE {}
  IN  some(1, {"STASH", "FALSE_EMPTY", "TAIL_CHASE", "ECHO"}) \cup {"WRONG_COUNT"}

\* The faults that may be tried on this result.  Whether a value is there for
\* CHEW to spoil depends on the data.
Candidates(chewable) ==
  LET some(n, faults) == IF op.rows >= n THEN faults ELSE {}
      only(condition, faults) == IF condition THEN faults ELSE {}
  IN  only(op.template \notin released, some(1, {"STASH"}))
      \cup some(1, {"FALSE_EMPTY", "TAIL_CHASE", "ECHO"})
      \cup only(~Query[op.template].ordered, some(2, {"SHUFFLE"}))
      \cup only(Query[op.template].paged, some(1, {"PAGE_HOLE"}))
      \cup only(Query[op.template].columns > 1, {"TANGLED_LEASH"})
      \cup only(chewable, some(1, {"CHEW"}))
      \cup only(History(op.template) # {}, {"OLD_BONE"})
      \cup {"WRONG_COUNT"}

\* Mutant: the choice comes before the treasures are looked for.
ChooseFirst(fault) ==
  /\ PastNoDrop
  /\ \E chewable \in BOOLEAN :
       fault \in Selections(OnResultPriority, Candidates(chewable), mood)
  /\ HouseConsumeRelease(op.template)

\* The phase comes to the choice of a fault: a release, if there is one, is
\* used up before anything is chosen.
Choose(fault) ==
  /\ PastNoDrop
  /\ ActiveFor(op.template) = {}
  /\ \E chewable \in BOOLEAN :
       fault \in Selections(OnResultPriority, Candidates(chewable), mood)
  /\ HouseConsumeRelease(op.template)

\* Mutant: a row position that starts at 1 is assumed.
TreasureBefore(row) ==
  [template |-> op.template, row |-> row - 1, occurrence |-> op.occurrence, seq |-> NextSeq]

NewTreasure(row) ==
  [template |-> op.template, row |-> row, occurrence |-> op.occurrence, seq |-> NextSeq]

Stash(row) ==
  LET t == NewTreasure(row)
  IN  /\ Choose("STASH")
      /\ row < op.rows
      /\ HouseAdd(t)
      /\ IF AutoReturnOn
           THEN \E hold \in MinHold .. MaxHold : Schedule(TreasureId(t), hold)
           ELSE UNCHANGED scheduleVars
      /\ Inject(TreasureEventOf("fault_injected", "STASH", "on_result", t),
                IF StashRaises THEN Exit(Nothing)
                               ELSE Deliver(WithoutRow(BackendRows, row + 1)))
      /\ UNCHANGED <<moodVars, classified, passthroughs, tick, occurrence>>

\* The house does not take the row: nothing is recorded, nothing is tried
\* in its place.
StashRefused(row) ==
  /\ Choose("STASH")
  /\ row < op.rows
  /\ ~HouseAccepts(NewTreasure(row))
  /\ Deliver(BackendRows)
  /\ UNCHANGED <<treasures, occupied, scheduleVars, moodVars, logVars, statsVars,
                 tick, occurrence>>

\* OLD_BONE: a result of the cache is delivered again.
Replay(entry) ==
  /\ Choose("OLD_BONE")
  /\ entry \in History(op.template)
  /\ Inject(StaleEventOf(entry), Deliver(entry.rows))
  /\ UNCHANGED <<treasures, occupied, scheduleVars, moodVars, classified, passthroughs,
                 tick, occurrence>>

Reshape(fault) ==
  /\ fault \notin {"STASH", "OLD_BONE"}
  /\ Choose(fault)
  /\ Inject(Injected(fault, "on_result"),
            IF fault = "TAIL_CHASE" /\ TailChaseRaises THEN Exit(Nothing)
            ELSE \E rows \in Shapes(fault, BackendRows) : Deliver(rows))
  /\ UNCHANGED <<treasures, occupied, scheduleVars, moodVars, classified, passthroughs,
                 tick, occurrence>>

DeliverWhole ==
  /\ Choose("none")
  /\ Debugged("on_result", Deliver(BackendRows))
  /\ UNCHANGED <<treasures, occupied, scheduleVars, moodVars, statsVars, tick, occurrence>>

-----------------------------------------------------------------------------
(* DollyNamespace *)

\* return_treasure(): the schedule forgets the id even if the house lacks it.
ReturnTreasure(id) ==
  /\ pc = "idle"
  /\ IF AutoReturnOn THEN ScheduleCancel(id) ELSE UNCHANGED scheduleVars
  /\ \/ \E t \in Holding(id) :
          HouseReturn(t) /\ Emit(Returned(t, "manual_return"), Exit(delivered))
     \/ Holding(id) = {} /\ UNCHANGED <<houseVars, logVars, staleVars, callVars>>
  /\ UNCHANGED <<moodVars, statsVars, tick, occurrence>>

\* return_all(): the house is emptied first, then each return is logged.
ReturnAll ==
  /\ pc = "idle"
  /\ treasures # {}
  /\ HouseReturnAll
  /\ returning' = treasures
  /\ pc' = "returning"
  /\ UNCHANGED <<scheduleVars, moodVars, logVars, staleVars, statsVars, op, due,
                 delivered, calls, tick, occurrence>>

LogReturned(t) ==
  /\ pc = "returning"
  /\ t \in returning
  /\ \A u \in returning \ {t} : t.seq < u.seq
  /\ IF AutoReturnOn THEN ScheduleCancel(TreasureId(t)) ELSE UNCHANGED scheduleVars
  /\ Emit(Returned(t, "manual_return"),
          /\ returning' = returning \ {t}
          /\ pc' = IF returning = {t} THEN "idle" ELSE "returning"
          /\ UNCHANGED <<op, due, delivered, calls, staleVars>>)
  /\ UNCHANGED <<houseVars, moodVars, statsVars, tick, occurrence>>

\* The process ends at any point and the same session is opened on its log:
\* only the log is left.
Crash ==
  /\ MayCrash
  /\ calls < MaxCalls
  /\ calls' = calls + 1
  /\ treasures' = {} /\ occupied' = {} /\ released' = {}
  /\ scheduled' = {} /\ nextOrder' = 0 /\ currentTick' = 0
  /\ mood' = Calm /\ moodTick' = 0
  /\ LogReopen
  /\ entries' = {} /\ byKey' = {} /\ added' = 0
  /\ tick' = 0
  /\ occurrence' = [t \in Templates |-> 0]
  /\ classified' = [t \in Templates |-> 0]
  /\ interventions' = [t \in Templates |-> 0]
  /\ passthroughs' = [r \in Reasons |-> 0]
  /\ pc' = "idle" /\ op' = NoOperation /\ due' = {} /\ returning' = {}
  /\ delivered' = Nothing

-----------------------------------------------------------------------------
Begin ==
  \/ \E entry \in due : ReturnDue(entry)
  \/ AdvanceMood
  \/ NoMood

Dispatch == Passthrough \/ BeginDecision

Before == (\E fault \in BeforeExecuteErrors : RaiseBefore(fault)) \/ Delay \/ PassBefore

Backend == BackendRaises \/ ExceedCap \/ \E rows \in 0 .. MaxRows : BackendReturns(rows)

OnResult ==
  \/ SkipOnResult \/ ExceedInterventionLimit \/ LoseResponse \/ HideTreasures
  \/ \E row \in 0 .. (MaxRows - 1) : Stash(row) \/ StashRefused(row)
  \/ \E fault \in Members(OnResultPriority) : Reshape(fault)
  \/ \E entry \in entries : Replay(entry)
  \/ DeliverWhole

\* The steps DogDB takes by itself once a call has been made.
Progress ==
  Begin \/ Dispatch \/ Before \/ Backend \/ OnResult
  \/ \E t \in returning : LogReturned(t)

\* What the client does.
Client ==
  \/ \E call \in Calls, template \in Templates : Call(call[1], call[2], template)
  \/ \E id \in {TreasureId(t) : t \in treasures} \cup {s.id : s \in scheduled} :
       ReturnTreasure(id)
  \/ ReturnAll

Next == Progress \/ Client \/ Crash

Spec == Init /\ [][Next]_vars

\* A call runs to its end: the backend answers and the clock returns.
FairSpec == Spec /\ WF_vars(Progress)

=============================================================================
