---------------------------- MODULE SessionProofs ----------------------------
(***************************************************************************)
(* Proofs about a session, for every value of its constants: its types,    *)
(* what its two phases record of an operation, and its statistics.         *)
(***************************************************************************)
EXTENDS SessionProperties, TLAPS

-----------------------------------------------------------------------------
(* Lemmas about the operators *)

\* Only an eligible fault is ever selected (faults.py, select_candidate).
LEMMA SelectionsAreEligible ==
  ASSUME NEW priority, NEW eligible, NEW m, NEW f \in Selections(priority, eligible, m)
  PROVE  f \in eligible \cup {"none"}
BY DEF Selections

\* The faults of both phases have events named after them.
LEMMA FaultsHaveNames ==
  /\ \A f \in Members(OnResultPriority) : f \in EventNames
  /\ \A f \in BeforeExecuteErrors : f \in EventNames
BY DEF Members, OnResultPriority, BeforeExecuteErrors, EventNames

\* Appending an event of the right type, or failing to, leaves a typed log.
LEMMA EmitKeepsLogType ==
  ASSUME LogTypeOK, NEW event \in Event, Record(event) \/ RecordFails
  PROVE  LogTypeOK'
BY DEF LogTypeOK, Record, RecordFails, NextSeq

\* An operation in progress gives rise to typed events.
LEMMA OperationEventsTyped ==
  ASSUME op \in Operation, seq \in Nat,
         NEW type \in {"fault_injected", "limit_exceeded", "decision_evaluated"},
         NEW name \in EventNames, NEW phase \in Phases
  PROVE  OperationEventOf(type, name, phase) \in Event
BY DEF OperationEventOf, Operation, Event, OperationEvent, NextSeq

\* A treasure gives rise to typed events.
LEMMA TreasureEventsTyped ==
  ASSUME seq \in Nat, NEW t \in Treasure,
         NEW type \in {"fault_injected", "treasure_returned"},
         NEW name \in {"STASH", "RETURN"}, NEW phase \in Phases
  PROVE  TreasureEventOf(type, name, phase, t) \in Event
BY DEF TreasureEventOf, Treasure, Event, TreasureEvent, NextSeq

\* A replay gives rise to a typed event.
LEMMA StaleEventsTyped ==
  ASSUME op \in Operation, seq \in Nat, StaleTypeOK, NEW entry \in entries
  PROVE  StaleEventOf(entry) \in Event
BY DEF StaleEventOf, Operation, StaleTypeOK, Index, Event, StaleEvent, Phases, NextSeq

\* The cache stays typed whatever is added to it.
LEMMA StaleAddTyped ==
  ASSUME StaleTypeOK, NEW key \in Templates, NEW o \in Nat, NEW rows, StaleAdd(key, o, rows)
  PROVE  StaleTypeOK'
<1>1. CASE UNCHANGED staleVars
  BY <1>1 DEF staleVars, StaleTypeOK
<1>2. CASE Insert(key, o, rows)
  <2> DEFINE evicted == OfKey(key, byKey) \ Newest(OfKey(key, byKey), PerKey - 1)
             entry == [key |-> key, occurrence |-> o, rows |-> rows, at |-> added + 1]
  <2>1. Index(entry) \in [key: Templates, occurrence: Nat, at: Nat]
    BY DEF Index, StaleTypeOK
  <2>2. entries' \subseteq entries \cup {entry} /\ byKey' \subseteq byKey \cup {Index(entry)}
    BY <1>2 DEF Insert
  <2>3. added' \in Nat
    BY <1>2 DEF Insert, StaleTypeOK
  <2> HIDE DEF evicted, entry
  <2> QED
    BY <2>1, <2>2, <2>3 DEF StaleTypeOK
<1> QED
  BY <1>1, <1>2 DEF StaleAdd

\* A call that leaves with an error or a passed-through result.
LEMMA ExitWithNothing ==
  ASSUME CallTypeOK, StaleTypeOK, Exit(Nothing)
  PROVE  CallTypeOK' /\ StaleTypeOK'
BY DEF CallTypeOK, Exit, Leave, Nothing, Labels, staleVars, StaleTypeOK

\* A call that delivers rows.
LEMMA ExitWithRows ==
  ASSUME CallTypeOK, StaleTypeOK, op \in Operation, NEW rows, Deliver(rows)
  PROVE  CallTypeOK' /\ StaleTypeOK'
<1>1. CallTypeOK'
  BY DEF CallTypeOK, Deliver, Delivery, Leave, Labels, Operation
<1>2. StaleTypeOK'
  BY StaleAddTyped DEF Deliver, Operation, staleVars, StaleTypeOK
<1> QED
  BY <1>1, <1>2

\* A call that goes on to another phase with a typed operation.
LEMMA ContinueTyped ==
  ASSUME CallTypeOK, StaleTypeOK, NEW label \in Labels, NEW o \in Operation, Continue(label, o)
  PROVE  CallTypeOK' /\ StaleTypeOK'
BY DEF CallTypeOK, Continue, staleVars, StaleTypeOK

\* An intervention is counted.
LEMMA CountTyped ==
  ASSUME StatsTypeOK, op \in Operation,
         CountIntervention \/ UNCHANGED interventions, UNCHANGED <<classified, passthroughs>>
  PROVE  StatsTypeOK'
BY DEF StatsTypeOK, CountIntervention, Operation

\* A return keeps the house typed.
LEMMA HouseReturnTyped ==
  ASSUME HouseTypeOK, NEW t \in treasures, HouseReturn(t)
  PROVE  HouseTypeOK'
BY DEF HouseTypeOK, HouseReturn, Treasure

-----------------------------------------------------------------------------
(* Type correctness *)

LEMMA InitTyped == Init => TypeOK
<1> SUFFICES ASSUME Init PROVE TypeOK
  OBVIOUS
<1>1. HouseTypeOK /\ ScheduleTypeOK /\ MoodTypeOK
  BY MoodAssumption DEF Init, HouseInit, ScheduleInit, MoodInit, HouseTypeOK, ScheduleTypeOK, MoodTypeOK
<1>2. LogTypeOK
  BY DEF Init, LogInit, LogTypeOK
<1>3. StatsTypeOK /\ CallTypeOK /\ StaleTypeOK
  BY DEF Init, StatsTypeOK, CallTypeOK, Nothing, Labels, StaleInit, StaleTypeOK
<1> QED
  BY <1>1, <1>2, <1>3 DEF Init, TypeOK

LEMMA BeginTyped == TypeOK /\ Begin => TypeOK'
<1> SUFFICES ASSUME TypeOK, Begin PROVE TypeOK'
  OBVIOUS
<1> USE DEF TypeOK
<1>1. ASSUME NEW entry \in due, ReturnDue(entry) PROVE TypeOK'
  <2>1. UNCHANGED <<scheduleVars, moodVars, statsVars, tick, occurrence>>
    BY <1>1 DEF ReturnDue
  <2>2. ScheduleTypeOK' /\ MoodTypeOK' /\ StatsTypeOK'
    BY <2>1 DEF scheduleVars, moodVars, statsVars, ScheduleTypeOK, MoodTypeOK, StatsTypeOK
  <2> DEFINE proceed == /\ due' = due \ {entry}
                        /\ UNCHANGED <<pc, op, returning, delivered, calls, staleVars>>
  <2>3. ASSUME proceed PROVE CallTypeOK' /\ StaleTypeOK'
    BY <2>3 DEF CallTypeOK, staleVars, StaleTypeOK
  <2>4. CASE \E t \in Holding(entry.id) :
               HouseReturn(t) /\ Emit(Returned(t, "auto_return"), proceed)
    <3> PICK t \in Holding(entry.id) :
               HouseReturn(t) /\ Emit(Returned(t, "auto_return"), proceed)
      BY <2>4
    <3>1. t \in treasures /\ t \in Treasure
      BY DEF Holding, HouseTypeOK
    <3>2. Returned(t, "auto_return") \in Event
      BY <3>1, TreasureEventsTyped DEF Returned, Phases, LogTypeOK
    <3>3. LogTypeOK'
      BY <3>2, EmitKeepsLogType DEF Emit
    <3>4. CallTypeOK' /\ StaleTypeOK'
      BY <2>3, ExitWithNothing DEF Emit
    <3> QED
      BY <2>1, <2>2, <3>1, <3>3, <3>4, HouseReturnTyped
  <2>5. CASE Holding(entry.id) = {} /\ proceed /\ UNCHANGED <<houseVars, logVars>>
    BY <2>1, <2>2, <2>3, <2>5 DEF houseVars, logVars, HouseTypeOK, LogTypeOK
  <2> QED
    BY <1>1, <2>4, <2>5 DEF ReturnDue
<1>2. ASSUME AdvanceMood PROVE TypeOK'
  <2>1. PICK next \in Moods :
          /\ MoodAdvance(next)
          /\ \/ Exit(Nothing) /\ UNCHANGED logVars
             \/ Goto("dispatch") /\ UNCHANGED logVars
             \/ Emit(MoodChanged(next), Goto("dispatch"))
    BY <1>2 DEF AdvanceMood
  <2>2. UNCHANGED <<houseVars, scheduleVars, statsVars, tick, occurrence>> /\ pc = "begin"
    BY <1>2 DEF AdvanceMood
  <2>3. HouseTypeOK' /\ ScheduleTypeOK' /\ StatsTypeOK'
    BY <2>2 DEF houseVars, scheduleVars, statsVars, HouseTypeOK, ScheduleTypeOK, StatsTypeOK
  <2>4. MoodTypeOK'
    BY <2>1 DEF MoodAdvance, MoodTypeOK
  <2>5. MoodChanged(next) \in Event
    BY <2>1 DEF MoodChanged, MoodTypeOK, LogTypeOK, Event, MoodEvent, NextSeq
  <2>6. LogTypeOK'
    BY <2>1, <2>5, EmitKeepsLogType DEF Emit, logVars, LogTypeOK
  <2>7. Goto("dispatch") => CallTypeOK' /\ StaleTypeOK'
    BY <2>2 DEF Goto, CallTypeOK, Labels, staleVars, StaleTypeOK
  <2>8. CallTypeOK' /\ StaleTypeOK'
    BY <2>1, <2>7, ExitWithNothing DEF Emit
  <2> QED
    BY <2>2, <2>3, <2>4, <2>6, <2>8
<1>3. ASSUME NoMood PROVE TypeOK'
  BY <1>3 DEF NoMood, Goto, houseVars, scheduleVars, moodVars, logVars, statsVars,
       staleVars, StaleTypeOK, HouseTypeOK, ScheduleTypeOK, MoodTypeOK, LogTypeOK, StatsTypeOK, CallTypeOK, Labels
<1> QED
  BY <1>1, <1>2, <1>3 DEF Begin

LEMMA DispatchTyped == TypeOK /\ Dispatch => TypeOK'
<1> SUFFICES ASSUME TypeOK, Dispatch PROVE TypeOK'
  OBVIOUS
<1> USE DEF TypeOK
<1>1. pc = "dispatch" /\ op \in Operation
  BY DEF Dispatch, Passthrough, BeginDecision, CallTypeOK
<1>2. CountClassified => classified' \in [Templates -> Nat]
  BY <1>1 DEF CountClassified, StatsTypeOK, Operation
<1>3. CASE Passthrough
  <2>1. StatsTypeOK'
    BY <1>2, <1>3 DEF Passthrough, StatsTypeOK
  <2>2. CallTypeOK' /\ StaleTypeOK'
    BY <1>3, ExitWithNothing DEF Passthrough
  <2> QED
    BY <1>3, <2>1, <2>2 DEF Passthrough, houseVars, scheduleVars, moodVars, logVars,
         HouseTypeOK, ScheduleTypeOK, MoodTypeOK, LogTypeOK
<1>4. CASE BeginDecision
  <2>1. StatsTypeOK'
    BY <1>2, <1>4 DEF BeginDecision, StatsTypeOK
  <2>2. occurrence' \in [Templates -> Nat]
    BY <1>1, <1>4 DEF BeginDecision, Operation
  <2>3. [op EXCEPT !.occurrence = occurrence[op.template] + 1] \in Operation
    BY <1>1 DEF Operation
  <2>4. (IF EvaluateBefore THEN "before" ELSE "backend") \in Labels
    BY DEF Labels
  <2>5. CallTypeOK' /\ StaleTypeOK'
    BY <1>4, <2>3, <2>4, ContinueTyped DEF BeginDecision
  <2> QED
    BY <1>4, <2>1, <2>2, <2>5 DEF BeginDecision, houseVars, scheduleVars, moodVars, logVars,
         HouseTypeOK, ScheduleTypeOK, MoodTypeOK, LogTypeOK
<1> QED
  BY <1>3, <1>4 DEF Dispatch

\* Phases that leave the house, the schedule, the mood and the clock alone.
LEMMA QuietTyped ==
  ASSUME TypeOK, UNCHANGED <<houseVars, scheduleVars, moodVars, tick, occurrence>>,
         LogTypeOK', StatsTypeOK', CallTypeOK', StaleTypeOK'
  PROVE  TypeOK'
BY DEF TypeOK, houseVars, scheduleVars, moodVars, HouseTypeOK, ScheduleTypeOK, MoodTypeOK

LEMMA BeforeTyped == TypeOK /\ Before => TypeOK'
<1> SUFFICES ASSUME TypeOK, Before PROVE TypeOK'
  OBVIOUS
<1> USE DEF TypeOK
<1>1. pc = "before" /\ op \in Operation
  BY DEF Before, RaiseBefore, Delay, PassBefore, CallTypeOK
<1>2. UNCHANGED <<houseVars, scheduleVars, moodVars, classified, passthroughs, tick, occurrence>>
  BY DEF Before, RaiseBefore, Delay, PassBefore, statsVars
<1>3. \A slot \in {"evaluated", "consumed"} : [op EXCEPT !.slot = slot] \in Operation
  BY <1>1 DEF Operation
<1>4. ASSUME NEW fault \in BeforeExecuteErrors, RaiseBefore(fault) PROVE TypeOK'
  <2>1. Injected(fault, "before_execute") \in Event
    BY <1>1, FaultsHaveNames, OperationEventsTyped DEF Injected, Phases, LogTypeOK
  <2>2. LogTypeOK'
    BY <1>4, <2>1, EmitKeepsLogType DEF RaiseBefore, Inject
  <2>3. StatsTypeOK'
    BY <1>1, <1>2, <1>4, CountTyped DEF RaiseBefore, Inject
  <2>4. CallTypeOK' /\ StaleTypeOK'
    BY <1>4, ExitWithNothing DEF RaiseBefore, Inject
  <2> QED
    BY <1>2, <2>2, <2>3, <2>4, QuietTyped
<1>5. CASE Delay
  <2>1. Injected("SLOTH", "before_execute") \in Event
    BY <1>1, OperationEventsTyped DEF Injected, Phases, LogTypeOK, EventNames
  <2>2. LogTypeOK'
    BY <1>5, <2>1, EmitKeepsLogType DEF Delay, Inject
  <2>3. StatsTypeOK'
    BY <1>1, <1>2, <1>5, CountTyped DEF Delay, Inject
  <2>4. CallTypeOK' /\ StaleTypeOK'
    BY <1>3, <1>5, ExitWithNothing, ContinueTyped DEF Delay, Inject, Labels
  <2> QED
    BY <1>2, <2>2, <2>3, <2>4, QuietTyped
<1>6. CASE PassBefore
  <2> DEFINE proceed == Continue("backend", [op EXCEPT !.slot = "evaluated"])
  <2>1. DecisionEvaluated("before_execute") \in Event
    BY <1>1, OperationEventsTyped DEF DecisionEvaluated, Phases, LogTypeOK, EventNames
  <2>2. \/ Emit(DecisionEvaluated("before_execute"), proceed)
        \/ proceed /\ UNCHANGED logVars
    BY <1>6 DEF PassBefore, Debugged
  <2>3. LogTypeOK'
    BY <2>1, <2>2, EmitKeepsLogType DEF Emit, logVars, LogTypeOK
  <2>4. proceed => CallTypeOK' /\ StaleTypeOK'
    BY <1>3, ContinueTyped DEF Labels
  <2>5. CallTypeOK' /\ StaleTypeOK'
    BY <2>2, <2>4, ExitWithNothing DEF Emit
  <2>6. StatsTypeOK'
    BY <1>6 DEF PassBefore, statsVars, StatsTypeOK
  <2> QED
    BY <1>2, <2>3, <2>5, <2>6, QuietTyped
<1> QED
  BY <1>4, <1>5, <1>6 DEF Before

LEMMA BackendTyped == TypeOK /\ Backend => TypeOK'
<1> SUFFICES ASSUME TypeOK, Backend PROVE TypeOK'
  OBVIOUS
<1> USE DEF TypeOK
<1>1. pc = "backend" /\ op \in Operation
  BY DEF Backend, BackendRaises, ExceedCap, BackendReturns, CallTypeOK
<1>2. UNCHANGED <<houseVars, scheduleVars, moodVars, tick, occurrence>> /\ UNCHANGED statsVars
  BY DEF Backend, BackendRaises, ExceedCap, BackendReturns
<1>3. StatsTypeOK'
  BY <1>2 DEF statsVars, StatsTypeOK
<1>4. ASSUME BackendRaises PROVE TypeOK'
  BY <1>2, <1>3, <1>4, ExitWithNothing, QuietTyped DEF BackendRaises, logVars, LogTypeOK
<1>5. ASSUME ExceedCap PROVE TypeOK'
  <2>1. LimitExceeded("max_result_rows") \in Event
    BY <1>1, OperationEventsTyped DEF LimitExceeded, Phases, LogTypeOK, EventNames
  <2>2. LogTypeOK' /\ CallTypeOK' /\ StaleTypeOK'
    BY <1>5, <2>1, EmitKeepsLogType, ExitWithNothing DEF ExceedCap, Emit
  <2> QED
    BY <1>2, <1>3, <2>2, QuietTyped
<1>6. ASSUME NEW rows \in 0 .. MaxRows, BackendReturns(rows) PROVE TypeOK'
  <2> DEFINE proceed == Continue("result", [op EXCEPT !.rows = rows])
  <2>1. DecisionEvaluated("before_execute") \in Event
    BY <1>1, OperationEventsTyped DEF DecisionEvaluated, Phases, LogTypeOK, EventNames
  <2>2. \/ Emit(DecisionEvaluated("before_execute"), proceed)
        \/ proceed /\ UNCHANGED logVars
    BY <1>6 DEF BackendReturns, Debugged
  <2>3. LogTypeOK'
    BY <2>1, <2>2, EmitKeepsLogType DEF Emit, logVars, LogTypeOK
  <2>4. [op EXCEPT !.rows = rows] \in Operation
    BY <1>1, SessionAssumption DEF Operation
  <2>5. proceed => CallTypeOK' /\ StaleTypeOK'
    BY <2>4, ContinueTyped DEF Labels
  <2>6. CallTypeOK' /\ StaleTypeOK'
    BY <2>2, <2>5, ExitWithNothing DEF Emit
  <2> QED
    BY <1>2, <1>3, <2>3, <2>6, QuietTyped
<1> QED
  BY <1>4, <1>5, <1>6 DEF Backend

LEMMA OnResultTyped == TypeOK /\ OnResult => TypeOK'
<1> SUFFICES ASSUME TypeOK, OnResult PROVE TypeOK'
  OBVIOUS
<1> USE DEF TypeOK
<1>1. pc = "result" /\ op \in Operation
  BY DEF OnResult, SkipOnResult, ExceedInterventionLimit, LoseResponse, HideTreasures,
     PastNoDrop, Choose, Stash, StashRefused, Reshape, Replay, DeliverWhole, CallTypeOK
<1>2. \A rows : Deliver(rows) => CallTypeOK' /\ StaleTypeOK'
  BY <1>1, ExitWithRows
<1>3. ASSUME SkipOnResult PROVE TypeOK'
  BY <1>2, <1>3, QuietTyped
     DEF SkipOnResult, logVars, LogTypeOK, statsVars, StatsTypeOK
<1>4. ASSUME ExceedInterventionLimit PROVE TypeOK'
  <2>1. LimitExceeded("max_intervention_rows") \in Event
    BY <1>1, OperationEventsTyped DEF LimitExceeded, Phases, LogTypeOK, EventNames
  <2>2. LogTypeOK' /\ CallTypeOK' /\ StaleTypeOK'
    BY <1>2, <1>4, <2>1, EmitKeepsLogType, ExitWithNothing DEF ExceedInterventionLimit, Emit
  <2> QED
    BY <1>4, <2>2, QuietTyped DEF ExceedInterventionLimit, statsVars, StatsTypeOK
<1>5. ASSUME LoseResponse PROVE TypeOK'
  <2>1. Injected("NO_DROP", "on_result") \in Event
    BY <1>1, OperationEventsTyped DEF Injected, Phases, LogTypeOK, EventNames
  <2>2. LogTypeOK' /\ CallTypeOK' /\ StaleTypeOK'
    BY <1>5, <2>1, EmitKeepsLogType, ExitWithNothing DEF LoseResponse, Inject
  <2>3. StatsTypeOK'
    BY <1>1, <1>5, CountTyped DEF LoseResponse, Inject
  <2> QED
    BY <1>5, <2>2, <2>3, QuietTyped DEF LoseResponse
<1>6. ASSUME HideTreasures PROVE TypeOK'
  <2>1. StatsTypeOK' /\ CallTypeOK' /\ StaleTypeOK'
    BY <1>1, <1>2, <1>6, CountTyped DEF HideTreasures
  <2> QED
    BY <1>6, <2>1, QuietTyped DEF HideTreasures, logVars, LogTypeOK
<1>7. ASSUME NEW row \in 0 .. (MaxRows - 1), Stash(row) PROVE TypeOK'
  <2> DEFINE t == NewTreasure(row)
  <2>1. t \in Treasure
    BY <1>1, SessionAssumption DEF NewTreasure, Treasure, Operation, LogTypeOK, NextSeq
  <2>2. HouseTypeOK'
    BY <1>7, <2>1 DEF Stash, Choose, HouseAdd, HouseConsumeRelease, HouseTypeOK, Location, Treasure
  <2>3. ScheduleTypeOK'
    <3>1. CASE AutoReturnOn
      <4>1. PICK hold \in MinHold .. MaxHold : Schedule(TreasureId(t), hold)
        BY <1>7, <3>1 DEF Stash
      <4>2. TreasureId(t) \in Templates \X Nat \X Nat
        BY <2>1 DEF TreasureId, Treasure
      <4>3. hold \in Nat
        BY HoldAssumption
      <4> QED
        BY <4>1, <4>2, <4>3 DEF Schedule, ScheduleTypeOK, ScheduleEntry, Without
    <3>2. CASE ~AutoReturnOn
      BY <1>7, <3>2 DEF Stash, scheduleVars, ScheduleTypeOK
    <3> QED
      BY <3>1, <3>2
  <2>4. TreasureEventOf("fault_injected", "STASH", "on_result", t) \in Event
    BY <2>1, TreasureEventsTyped DEF Phases, LogTypeOK
  <2>5. LogTypeOK' /\ CallTypeOK' /\ StaleTypeOK'
    BY <1>2, <1>7, <2>4, EmitKeepsLogType, ExitWithNothing DEF Stash, Inject
  <2>6. StatsTypeOK'
    BY <1>1, <1>7, CountTyped DEF Stash, Inject
  <2> QED
    BY <1>7, <2>2, <2>3, <2>5, <2>6 DEF Stash, moodVars, MoodTypeOK
<1>8. ASSUME NEW row \in 0 .. (MaxRows - 1), StashRefused(row) PROVE TypeOK'
  BY <1>2, <1>8 DEF StashRefused, Choose, HouseConsumeRelease, HouseTypeOK, scheduleVars,
     ScheduleTypeOK, moodVars, MoodTypeOK, logVars, LogTypeOK, statsVars, StatsTypeOK
<1>9. ASSUME NEW fault \in Members(OnResultPriority), Reshape(fault) PROVE TypeOK'
  <2>1. Injected(fault, "on_result") \in Event
    BY <1>1, FaultsHaveNames, OperationEventsTyped DEF Injected, Phases, LogTypeOK
  <2>2. LogTypeOK' /\ CallTypeOK' /\ StaleTypeOK'
    BY <1>2, <1>9, <2>1, EmitKeepsLogType, ExitWithNothing DEF Reshape, Inject
  <2>3. StatsTypeOK'
    BY <1>1, <1>9, CountTyped DEF Reshape, Inject
  <2> QED
    BY <1>9, <2>2, <2>3 DEF Reshape, Choose, HouseConsumeRelease, HouseTypeOK, scheduleVars,
       ScheduleTypeOK, moodVars, MoodTypeOK
<1>10. ASSUME NEW entry \in entries, Replay(entry) PROVE TypeOK'
  <2>1. StaleEventOf(entry) \in Event
    BY <1>1, StaleEventsTyped DEF LogTypeOK
  <2>2. LogTypeOK' /\ CallTypeOK' /\ StaleTypeOK'
    BY <1>2, <1>10, <2>1, EmitKeepsLogType, ExitWithNothing DEF Replay, Inject
  <2>3. StatsTypeOK'
    BY <1>1, <1>10, CountTyped DEF Replay, Inject
  <2> QED
    BY <1>10, <2>2, <2>3 DEF Replay, Choose, HouseConsumeRelease, HouseTypeOK, scheduleVars,
       ScheduleTypeOK, moodVars, MoodTypeOK
<1>11. ASSUME DeliverWhole PROVE TypeOK'
  <2>1. DecisionEvaluated("on_result") \in Event
    BY <1>1, OperationEventsTyped DEF DecisionEvaluated, Phases, LogTypeOK, EventNames
  <2>2. LogTypeOK' /\ CallTypeOK' /\ StaleTypeOK'
    BY <1>2, <1>11, <2>1, EmitKeepsLogType, ExitWithNothing
       DEF DeliverWhole, Debugged, Emit, logVars, LogTypeOK
  <2> QED
    BY <1>11, <2>2 DEF DeliverWhole, Choose, HouseConsumeRelease, HouseTypeOK, scheduleVars,
       ScheduleTypeOK, moodVars, MoodTypeOK, statsVars, StatsTypeOK
<1> QED
  BY <1>3, <1>4, <1>5, <1>6, <1>7, <1>8, <1>9, <1>10, <1>11 DEF OnResult

LEMMA ClientTyped == TypeOK /\ Client => TypeOK'
<1> SUFFICES ASSUME TypeOK, Client PROVE TypeOK'
  OBVIOUS
<1> USE DEF TypeOK
<1>1. ASSUME NEW method \in Methods, NEW params \in Params, NEW template \in Templates,
             Call(method, params, template)
      PROVE  TypeOK'
  <2>1. op' \in Operation
    BY <1>1 DEF Call, Operation
  <2>2. due' \subseteq ScheduleEntry /\ ScheduleTypeOK'
    BY <1>1 DEF Call, Due, ScheduleAdvance, scheduleVars, ScheduleTypeOK, CallTypeOK
  <2>3. CallTypeOK'
    BY <1>1, <2>1, <2>2 DEF Call, CallTypeOK, Nothing, Labels
  <2> QED
    BY <1>1, <2>2, <2>3 DEF Call, houseVars, HouseTypeOK, moodVars, MoodTypeOK,
       staleVars, StaleTypeOK, logVars, LogTypeOK, statsVars, StatsTypeOK
<1>2. ASSUME NEW id, ReturnTreasure(id) PROVE TypeOK'
  <2>1. ScheduleTypeOK'
    BY <1>2 DEF ReturnTreasure, ScheduleCancel, Without, scheduleVars, ScheduleTypeOK
  <2>2. MoodTypeOK' /\ StatsTypeOK'
    BY <1>2 DEF ReturnTreasure, moodVars, MoodTypeOK, statsVars, StatsTypeOK
  <2>3. CASE Holding(id) = {} /\ UNCHANGED <<houseVars, logVars, staleVars, callVars>>
    BY <1>2, <2>1, <2>2, <2>3 DEF ReturnTreasure, houseVars, HouseTypeOK, logVars,
       LogTypeOK, staleVars, StaleTypeOK, callVars, CallTypeOK
  <2>4. CASE \E t \in Holding(id) :
               HouseReturn(t) /\ Emit(Returned(t, "manual_return"), Exit(delivered))
    <3> PICK t \in Holding(id) :
               HouseReturn(t) /\ Emit(Returned(t, "manual_return"), Exit(delivered))
      BY <2>4
    <3>1. t \in treasures /\ t \in Treasure
      BY DEF Holding, HouseTypeOK
    <3>2. Returned(t, "manual_return") \in Event
      BY <3>1, TreasureEventsTyped DEF Returned, Phases, LogTypeOK
    <3>3. LogTypeOK'
      BY <3>2, EmitKeepsLogType DEF Emit
    <3>4. CallTypeOK' /\ StaleTypeOK'
      BY DEF Emit, Exit, Leave, Nothing, CallTypeOK, Labels, staleVars, StaleTypeOK
    <3> QED
      BY <1>2, <2>1, <2>2, <3>1, <3>3, <3>4, HouseReturnTyped DEF ReturnTreasure
  <2> QED
    BY <1>2, <2>3, <2>4 DEF ReturnTreasure
<1>3. ASSUME ReturnAll PROVE TypeOK'
  BY <1>3 DEF ReturnAll, HouseReturnAll, HouseTypeOK, Treasure, CallTypeOK, Labels,
     scheduleVars, ScheduleTypeOK, moodVars, MoodTypeOK, logVars, LogTypeOK,
     staleVars, StaleTypeOK, statsVars, StatsTypeOK
<1> QED
  BY <1>1, <1>2, <1>3, SessionAssumption DEF Client

LEMMA LogReturnedTyped ==
  ASSUME TypeOK, NEW t \in returning, LogReturned(t)
  PROVE  TypeOK'
<1> USE DEF TypeOK
<1>1. ScheduleTypeOK'
  BY DEF LogReturned, ScheduleCancel, Without, scheduleVars, ScheduleTypeOK
<1>2. Returned(t, "manual_return") \in Event
  BY TreasureEventsTyped DEF Returned, Phases, LogTypeOK, CallTypeOK
<1>3. LogTypeOK'
  BY <1>2, EmitKeepsLogType DEF LogReturned, Emit
<1>4. CallTypeOK' /\ StaleTypeOK'
  BY ExitWithNothing DEF LogReturned, Emit, CallTypeOK, Labels, staleVars, StaleTypeOK
<1> QED
  BY <1>1, <1>3, <1>4 DEF LogReturned, houseVars, HouseTypeOK, moodVars, MoodTypeOK,
     statsVars, StatsTypeOK

LEMMA CrashTyped == TypeOK /\ Crash => TypeOK'
<1> SUFFICES ASSUME TypeOK, Crash PROVE TypeOK'
  OBVIOUS
<1> USE DEF TypeOK
<1>1. \A i \in DOMAIN log : log[i].seq \in Nat
  BY DEF LogTypeOK, Event, OperationEvent, TreasureEvent, StaleEvent, MoodEvent
<1>2. LogTypeOK'
  BY <1>1 DEF Crash, LogReopen, LogTypeOK
<1>3. HouseTypeOK' /\ ScheduleTypeOK' /\ MoodTypeOK'
  BY MoodAssumption DEF Crash, HouseTypeOK, ScheduleTypeOK, MoodTypeOK
<1>4. StatsTypeOK' /\ CallTypeOK' /\ StaleTypeOK'
  BY DEF Crash, StatsTypeOK, CallTypeOK, Nothing, Labels, StaleTypeOK
<1> QED
  BY <1>2, <1>3, <1>4 DEF Crash

LEMMA NextTyped == TypeOK /\ [Next]_vars => TypeOK'
<1> SUFFICES ASSUME TypeOK, [Next]_vars PROVE TypeOK'
  OBVIOUS
<1>1. CASE Next
  BY <1>1, BeginTyped, DispatchTyped, BeforeTyped, BackendTyped, OnResultTyped, ClientTyped,
     LogReturnedTyped, CrashTyped DEF Next, Progress
<1>2. CASE UNCHANGED vars
  BY <1>2 DEF vars, TypeOK, houseVars, HouseTypeOK, scheduleVars, ScheduleTypeOK, moodVars,
     MoodTypeOK, logVars, LogTypeOK, staleVars, StaleTypeOK, statsVars, StatsTypeOK,
     callVars, CallTypeOK
<1> QED
  BY <1>1, <1>2

\* Every variable of a session keeps its type, through failed writes, crashes
\* and restarts as well (all of Session's actions).
THEOREM TypeCorrect == Spec => []TypeOK
BY InitTyped, NextTyped, PTL DEF Spec

-----------------------------------------------------------------------------
(***************************************************************************)
(* The two phases of an operation agree on what befalls it.  A restart     *)
(* numbers the occurrences of a template from 1 again, so these facts are  *)
(* about one session: ~MayCrash.                                           *)
(***************************************************************************)

\* Two events of one operation, the first written before the second.
Compatible(d, e) ==
  /\ d.phase # e.phase
  /\ ~(d.type = "fault_injected" /\ e.type = "fault_injected")
  /\ ~(d.name = "max_result_rows" /\ e.type = "decision_evaluated")
  /\ ~(e.name = "max_result_rows" /\ d.type = "decision_evaluated")

\* The events of the operation in progress.
Own == {i \in OperationEvents : SameOperation(log[i], op)}

\* What before_execute leaves behind for the rest of the operation: nothing
\* while its debug event is held back, else the event that the slot tells of.
OwnVerdict(d) ==
  /\ op.slot # "open"
  /\ ~(pc = "backend" /\ CappedRead /\ op.slot = "evaluated")
  /\ d.phase = "before_execute"
  /\ d.name # "max_result_rows"
  /\ d.type = IF op.slot = "consumed" THEN "fault_injected" ELSE "decision_evaluated"

OccurrencesCounted == \A i \in OperationEvents : log[i].occurrence <= occurrence[log[i].template]

Agreeing ==
  /\ \A i, j \in OperationEvents :
       i # j /\ SameOperation(log[i], log[j]) => Compatible(log[i], log[j])
  /\ \A i \in OperationEvents :
       ~(log[i].name = "max_result_rows" /\ log[i].type = "decision_evaluated")

Running == pc \in {"before", "backend", "result"}

VerdictInv ==
  /\ OccurrencesCounted
  /\ Agreeing
  /\ Running => op.occurrence = occurrence[op.template]
  /\ pc \in {"begin", "dispatch", "before"} => op.slot = "open"
  /\ pc = "before" => Own = {}
  /\ Running => \A i \in Own : OwnVerdict(log[i])

-----------------------------------------------------------------------------
(* The log *)

OperationTypes == {"fault_injected", "limit_exceeded", "decision_evaluated"}

LEMMA OperationEventsHaveTemplates ==
  ASSUME LogTypeOK, NEW i \in OperationEvents
  PROVE  i \in DOMAIN log /\ log[i].template \in Templates /\ log[i].occurrence \in Nat
BY DEF LogTypeOK, OperationEvents, Event, OperationEvent, TreasureEvent, StaleEvent, MoodEvent

\* What an append adds to the operation events.
LEMMA AppendOperationEvent ==
  ASSUME LogTypeOK, NEW e, log' = Append(log, e)
  PROVE  /\ \A i \in OperationEvents : log'[i] = log[i] /\ i \in OperationEvents'
         /\ \A i \in OperationEvents' : i \in OperationEvents \/ i = Len(log) + 1
         /\ Len(log) + 1 \notin OperationEvents
         /\ log'[Len(log) + 1] = e
         /\ Len(log) + 1 \in OperationEvents' <=> e.type \in OperationTypes
<1>1. DOMAIN log = 1 .. Len(log) /\ Len(log) \in Nat
  BY DEF LogTypeOK
<1>2. DOMAIN log' = 1 .. (Len(log) + 1)
  BY DEF LogTypeOK
<1>3. \A i \in DOMAIN log : log'[i] = log[i]
  BY DEF LogTypeOK
<1>4. log'[Len(log) + 1] = e
  BY DEF LogTypeOK
<1> QED
  BY <1>1, <1>2, <1>3, <1>4 DEF OperationEvents, OperationTypes

\* An operation that had no event has the one that is appended at most.
LEMMA OwnOfAppend ==
  ASSUME LogTypeOK, Own = {}, NEW e, log' = Append(log, e),
         op'.template = op.template, op'.occurrence = op.occurrence
  PROVE  \A i \in Own' : log'[i] = e
<1> SUFFICES ASSUME NEW i \in Own', log'[i] # e PROVE FALSE
  OBVIOUS
<1>1. i \in OperationEvents' /\ SameOperation(log'[i], op')
  BY DEF Own, SameOperation
<1>2. i \in OperationEvents /\ log'[i] = log[i]
  BY <1>1, AppendOperationEvent
<1> QED
  BY <1>1, <1>2 DEF Own, SameOperation

\* An event that is compatible with those its operation has keeps the log in
\* agreement.
LEMMA AppendKeepsAgreeing ==
  ASSUME LogTypeOK, OccurrencesCounted, Agreeing,
         UNCHANGED occurrence,
         NEW e, log' = Append(log, e),
         e.occurrence <= occurrence[e.template],
         ~(e.name = "max_result_rows" /\ e.type = "decision_evaluated"),
         \A i \in OperationEvents : SameOperation(log[i], e) => Compatible(log[i], e)
  PROVE  OccurrencesCounted' /\ Agreeing'
<1> DEFINE last == Len(log) + 1
<1>1. \A i \in OperationEvents' : \/ i \in OperationEvents /\ log'[i] = log[i]
                                  \/ i = last /\ log'[i] = e
  BY AppendOperationEvent
<1>2. log'[last] = e
  BY DEF LogTypeOK
<1> HIDE DEF last
<1>3. OccurrencesCounted'
  BY <1>1 DEF OccurrencesCounted
<1>4. ASSUME NEW i \in OperationEvents', NEW j \in OperationEvents',
             i # j, SameOperation(log'[i], log'[j])
      PROVE  Compatible(log'[i], log'[j])
  <2>1. CASE i = last
    <3>1. j \in OperationEvents /\ log'[j] = log[j] /\ log'[i] = e
      BY <1>1, <1>2, <1>4, <2>1
    <3>2. SameOperation(log[j], e)
      BY <1>4, <3>1 DEF SameOperation
    <3>3. Compatible(log[j], e)
      BY <3>1, <3>2
    <3>4. Compatible(e, log[j])
      BY <3>3 DEF Compatible
    <3> QED
      BY <3>1, <3>4
  <2>2. CASE j = last
    <3>1. i \in OperationEvents /\ log'[i] = log[i] /\ log'[j] = e
      BY <1>1, <1>2, <1>4, <2>2
    <3>2. SameOperation(log[i], e)
      BY <1>4, <3>1
    <3>3. Compatible(log[i], e)
      BY <3>1, <3>2
    <3> QED
      BY <3>1, <3>3
  <2>3. CASE i # last /\ j # last
    <3>1. /\ i \in OperationEvents /\ log'[i] = log[i]
          /\ j \in OperationEvents /\ log'[j] = log[j]
      BY <1>1, <2>3
    <3> QED
      BY <1>4, <3>1 DEF Agreeing
  <2> QED
    BY <2>1, <2>2, <2>3
<1>5. \A i \in OperationEvents' :
        ~(log'[i].name = "max_result_rows" /\ log'[i].type = "decision_evaluated")
  BY <1>1 DEF Agreeing
<1> QED
  BY <1>3, <1>4, <1>5 DEF Agreeing, SameOperation, Compatible

-----------------------------------------------------------------------------
(* The steps of a session, as the verdicts see them *)

\* A step that writes no event of an operation and is not within a phase: a
\* call, a return, a change of mood, the silent or failing end of an operation.
Aside ==
  /\ UNCHANGED occurrence
  /\ pc' \notin {"before", "backend", "result"}
  /\ pc' \in {"begin", "dispatch"} => op'.slot = "open" \/ (pc = "begin" /\ UNCHANGED op)
  /\ \/ UNCHANGED log
     \/ \E e : e.type \notin OperationTypes /\ log' = Append(log, e)

\* The operation takes its occurrence.
Opens ==
  /\ pc = "dispatch"
  /\ pc' \in {"before", "backend"}
  /\ op' = [op EXCEPT !.occurrence = occurrence[op.template] + 1]
  /\ occurrence' = [occurrence EXCEPT ![op.template] = @ + 1]
  /\ UNCHANGED log

\* An event of the operation, which it ends with.
EndsWith(e) ==
  /\ UNCHANGED occurrence
  /\ pc' = "idle"
  /\ log' = Append(log, e)
  /\ SameOperation(e, op)
  /\ ~(e.name = "max_result_rows" /\ e.type = "decision_evaluated")
  /\ \/ pc = "before"
     \/ pc = "backend" /\ CappedRead /\ e.phase = "on_result" /\ e.type = "limit_exceeded"
     \/ pc = "result" /\ op.slot # "consumed" /\ e.phase = "on_result"
        /\ e.name # "max_result_rows"

\* before_execute lets the operation go on.
PassesBefore ==
  /\ pc = "before" /\ pc' = "backend"
  /\ UNCHANGED occurrence
  /\ \/ op' = [op EXCEPT !.slot = "consumed"]
        /\ log' = Append(log, Injected("SLOTH", "before_execute"))
     \/ op' = [op EXCEPT !.slot = "evaluated"] /\ UNCHANGED log
     \/ op' = [op EXCEPT !.slot = "evaluated"] /\ ~CappedRead
        /\ log' = Append(log, DecisionEvaluated("before_execute"))

\* The backend answers.
PassesBackend ==
  /\ pc = "backend" /\ pc' = "result"
  /\ UNCHANGED occurrence
  /\ \E n : op' = [op EXCEPT !.rows = n]
  /\ \/ UNCHANGED log
     \/ CappedRead /\ op.slot = "evaluated"
        /\ log' = Append(log, DecisionEvaluated("before_execute"))

VerdictStep ==
  \/ Aside \/ Opens \/ PassesBefore \/ PassesBackend
  \/ \E e : EndsWith(e)
  \/ UNCHANGED <<log, op, pc, occurrence>>

LEMMA NextIsVerdictStep ==
  ASSUME ~MayCrash, TypeOK, [Next]_vars
  PROVE  VerdictStep
<1> USE DEF Emit, Inject, Record, RecordFails, Exit, Leave
<1>1. ASSUME Begin PROVE VerdictStep
  <2>1. ASSUME NEW entry, ReturnDue(entry) PROVE Aside \/ UNCHANGED <<log, op, pc, occurrence>>
    BY <2>1 DEF ReturnDue, Returned, TreasureEventOf, Aside, OperationTypes, logVars
  <2>2. ASSUME AdvanceMood PROVE Aside
    BY <2>2 DEF AdvanceMood, MoodChanged, Goto, Aside, OperationTypes, logVars
  <2>3. ASSUME NoMood PROVE Aside
    BY <2>3 DEF NoMood, Goto, Aside, logVars
  <2> QED
    BY <1>1, <2>1, <2>2, <2>3 DEF Begin, VerdictStep
<1>2. ASSUME Dispatch PROVE VerdictStep
  <2>1. ASSUME Passthrough PROVE Aside
    BY <2>1 DEF Passthrough, Aside, logVars
  <2>2. ASSUME BeginDecision PROVE Opens
    BY <2>2 DEF BeginDecision, Opens, Continue, logVars
  <2> QED
    BY <1>2, <2>1, <2>2 DEF Dispatch, VerdictStep
<1>3. ASSUME Before PROVE VerdictStep
  <2>1. ASSUME NEW fault \in BeforeExecuteErrors, RaiseBefore(fault)
        PROVE  Aside \/ EndsWith(Injected(fault, "before_execute"))
    BY <2>1 DEF RaiseBefore, Injected, OperationEventOf, Aside, EndsWith, SameOperation
  <2>2. ASSUME Delay PROVE Aside \/ PassesBefore
    BY <2>2 DEF Delay, Continue, Aside, PassesBefore
  <2>3. ASSUME PassBefore PROVE Aside \/ PassesBefore
    BY <2>3 DEF PassBefore, Continue, Debugged, Aside, PassesBefore, logVars
  <2> QED
    BY <1>3, <2>1, <2>2, <2>3 DEF Before, VerdictStep
<1>4. ASSUME Backend PROVE VerdictStep
  <2>1. ASSUME BackendRaises PROVE Aside
    BY <2>1 DEF BackendRaises, Aside, logVars
  <2>2. ASSUME ExceedCap PROVE Aside \/ EndsWith(LimitExceeded("max_result_rows"))
    BY <2>2 DEF ExceedCap, LimitExceeded, OperationEventOf, Aside, EndsWith, SameOperation
  <2>3. ASSUME NEW rows, BackendReturns(rows) PROVE Aside \/ PassesBackend
    BY <2>3 DEF BackendReturns, Continue, Debugged, Aside, PassesBackend, logVars
  <2> QED
    BY <1>4, <2>1, <2>2, <2>3 DEF Backend, VerdictStep
<1>5. ASSUME OnResult PROVE VerdictStep
  <2> USE DEF Deliver
  <2>1. ASSUME SkipOnResult \/ HideTreasures PROVE Aside
    BY <2>1 DEF SkipOnResult, HideTreasures, Aside, logVars
  <2>2. ASSUME ExceedInterventionLimit
        PROVE  Aside \/ EndsWith(LimitExceeded("max_intervention_rows"))
    BY <2>2 DEF ExceedInterventionLimit, LimitExceeded, OperationEventOf, EvaluateOnResult,
       Aside, EndsWith, SameOperation
  <2>3. ASSUME LoseResponse PROVE Aside \/ EndsWith(Injected("NO_DROP", "on_result"))
    BY <2>3 DEF LoseResponse, Injected, OperationEventOf, EvaluateOnResult,
       Aside, EndsWith, SameOperation
  <2>4. ASSUME NEW row, Stash(row)
        PROVE  Aside \/ EndsWith(TreasureEventOf("fault_injected", "STASH", "on_result",
                                                 NewTreasure(row)))
    BY <2>4 DEF Stash, Choose, PastNoDrop, NewTreasure, TreasureEventOf, EvaluateOnResult,
       Aside, EndsWith, SameOperation
  <2>5. ASSUME NEW row, StashRefused(row) PROVE Aside
    BY <2>5 DEF StashRefused, Aside, logVars
  <2>6. ASSUME NEW fault \in Members(OnResultPriority), Reshape(fault)
        PROVE  Aside \/ EndsWith(Injected(fault, "on_result"))
    <3>1. fault # "max_result_rows"
      BY DEF Members, OnResultPriority
    <3> QED
      BY <2>6, <3>1 DEF Reshape, Choose, PastNoDrop, Injected, OperationEventOf,
         EvaluateOnResult, Aside, EndsWith, SameOperation
  <2>7. ASSUME NEW entry, Replay(entry) PROVE Aside \/ EndsWith(StaleEventOf(entry))
    BY <2>7 DEF Replay, Choose, PastNoDrop, StaleEventOf, EvaluateOnResult,
       Aside, EndsWith, SameOperation
  <2>8. ASSUME DeliverWhole PROVE Aside \/ EndsWith(DecisionEvaluated("on_result"))
    BY <2>8 DEF DeliverWhole, Choose, PastNoDrop, Debugged, DecisionEvaluated,
       OperationEventOf, EvaluateOnResult, Aside, EndsWith, SameOperation, logVars
  <2> HIDE DEF Emit, Inject, Record, RecordFails, Exit, Leave, Deliver
  <2> QED
    BY <1>5, <2>1, <2>2, <2>3, <2>4, <2>5, <2>6, <2>7, <2>8 DEF OnResult, VerdictStep
<1>6. ASSUME NEW t, LogReturned(t) PROVE VerdictStep
  <2>1. Aside
    BY <1>6 DEF LogReturned, Returned, TreasureEventOf, Aside, OperationTypes
  <2> QED
    BY <2>1 DEF VerdictStep
<1>7. ASSUME Client PROVE VerdictStep
  <2>1. ASSUME NEW method, NEW params, NEW template, Call(method, params, template)
        PROVE  Aside
    BY <2>1 DEF Call, Aside, logVars
  <2>2. ASSUME NEW id, ReturnTreasure(id) PROVE Aside
    BY <2>2 DEF ReturnTreasure, Returned, TreasureEventOf, Aside, OperationTypes, logVars,
       callVars
  <2>3. ASSUME ReturnAll PROVE Aside
    BY <2>3 DEF ReturnAll, Aside, logVars
  <2> QED
    BY <1>7, <2>1, <2>2, <2>3 DEF Client, VerdictStep
<1>8. ASSUME UNCHANGED vars PROVE VerdictStep
  BY <1>8 DEF vars, logVars, callVars, VerdictStep
<1> QED
  BY <1>1, <1>2, <1>3, <1>4, <1>5, <1>6, <1>7, <1>8 DEF Next, Progress, Crash

-----------------------------------------------------------------------------
(* The invariant *)

\* An event of another kind leaves the verdicts alone.
LEMMA AsideKeepsVerdictInv ==
  ASSUME LogTypeOK, VerdictInv, Aside
  PROVE  VerdictInv'
<1>1. pc' \in {"begin", "dispatch"} => op'.slot = "open"
  BY DEF Aside, VerdictInv
<1>2. OccurrencesCounted' /\ Agreeing'
  <2>1. CASE UNCHANGED log
    BY <2>1 DEF Aside, VerdictInv, OccurrencesCounted, Agreeing, OperationEvents, SameOperation, Compatible
  <2>2. ASSUME NEW e, e.type \notin OperationTypes, log' = Append(log, e)
        PROVE  OccurrencesCounted' /\ Agreeing'
    <3>1. \A i \in OperationEvents' : i \in OperationEvents /\ log'[i] = log[i]
      BY <2>2, AppendOperationEvent
    <3> QED
      BY <3>1 DEF Aside, VerdictInv, OccurrencesCounted, Agreeing, SameOperation, Compatible
  <2> QED
    BY <2>1, <2>2 DEF Aside
<1> QED
  BY <1>1, <1>2 DEF Aside, VerdictInv, Running

\* The occurrence an operation takes is one no event carries yet.
LEMMA OpeningKeepsVerdictInv ==
  ASSUME TypeOK, VerdictInv, Opens
  PROVE  VerdictInv'
<1>1. op \in Operation /\ op.template \in Templates /\ op.slot = "open"
  BY DEF TypeOK, CallTypeOK, Opens, Operation, VerdictInv
<1>2. /\ op'.template = op.template /\ op'.slot = "open"
      /\ op'.occurrence = occurrence[op.template] + 1
      /\ op'.occurrence = occurrence'[op'.template]
  BY <1>1 DEF Opens, Operation, TypeOK
<1>3. OperationEvents' = OperationEvents /\ \A i \in OperationEvents : log'[i] = log[i]
  BY DEF Opens, OperationEvents
<1>4. \A i \in OperationEvents : /\ log[i].template \in Templates
                                 /\ log[i].occurrence \in Nat
                                 /\ occurrence[log[i].template] \in Nat
                                 /\ log[i].occurrence <= occurrence[log[i].template]
  BY OperationEventsHaveTemplates DEF TypeOK, VerdictInv, OccurrencesCounted
<1>5. OccurrencesCounted'
  BY <1>1, <1>3, <1>4 DEF Opens, OccurrencesCounted, TypeOK
<1>6. Agreeing'
  BY <1>3 DEF Opens, VerdictInv, Agreeing, SameOperation, Compatible
<1>7. Own' = {}
  BY <1>2, <1>3, <1>4 DEF Own, SameOperation
<1> QED
  BY <1>2, <1>5, <1>6, <1>7 DEF Opens, VerdictInv, Running

\* The event an operation ends with is compatible with what it has written.
LEMMA EndingKeepsVerdictInv ==
  ASSUME TypeOK, VerdictInv, NEW e, EndsWith(e)
  PROVE  VerdictInv'
<1>1. Running /\ op \in Operation
  BY DEF TypeOK, CallTypeOK, EndsWith, Running
<1>2. e.occurrence <= occurrence[e.template]
  BY <1>1 DEF VerdictInv, EndsWith, SameOperation, TypeOK, Operation
<1>3. ASSUME NEW i \in OperationEvents, SameOperation(log[i], e)
      PROVE  Compatible(log[i], e)
  <2>1. i \in Own
    BY <1>3 DEF EndsWith, SameOperation, Own
  <2>2. OwnVerdict(log[i]) /\ pc # "before"
    BY <1>1, <2>1 DEF VerdictInv
  <2>3. op.slot \in {"evaluated", "consumed"}
    BY <1>1, <2>2 DEF OwnVerdict, Operation
  <2> QED
    BY <2>2, <2>3 DEF OwnVerdict, EndsWith, Compatible
<1>4. OccurrencesCounted' /\ Agreeing'
  BY <1>2, <1>3, AppendKeepsAgreeing DEF EndsWith, VerdictInv, TypeOK
<1> QED
  BY <1>4 DEF EndsWith, VerdictInv, Running

\* before_execute writes the one event that the slot tells of, or none.
LEMMA BeforeKeepsVerdictInv ==
  ASSUME TypeOK, VerdictInv, PassesBefore
  PROVE  VerdictInv'
<1>1. /\ op \in Operation /\ Own = {} /\ op.slot = "open"
      /\ op.occurrence = occurrence[op.template]
  BY DEF TypeOK, CallTypeOK, PassesBefore, VerdictInv, Running
<1>2. op'.template = op.template /\ op'.occurrence = op.occurrence
  BY <1>1 DEF PassesBefore, Operation
<1>3. CASE UNCHANGED log
  <2>1. Own' = {} /\ OccurrencesCounted' /\ Agreeing'
    BY <1>1, <1>2, <1>3 DEF PassesBefore, Own, OperationEvents, SameOperation, VerdictInv,
       OccurrencesCounted, Agreeing, Compatible
  <2> QED
    BY <1>1, <1>2, <2>1 DEF PassesBefore, VerdictInv, Running
<1>4. ASSUME NEW e, log' = Append(log, e), SameOperation(e, op), e.phase = "before_execute",
             e.name # "max_result_rows",
             \/ op' = [op EXCEPT !.slot = "consumed"] /\ e.type = "fault_injected"
             \/ op' = [op EXCEPT !.slot = "evaluated"] /\ e.type = "decision_evaluated"
                /\ ~CappedRead
      PROVE  VerdictInv'
  <2>1. e.occurrence <= occurrence[e.template]
    BY <1>1, <1>4 DEF SameOperation, TypeOK, Operation
  <2>2. \A i \in OperationEvents : ~SameOperation(log[i], e)
    BY <1>1, <1>4 DEF Own, SameOperation
  <2>3. OccurrencesCounted' /\ Agreeing'
    BY <1>4, <2>1, <2>2, AppendKeepsAgreeing DEF PassesBefore, VerdictInv, TypeOK
  <2>4. \A i \in Own' : log'[i] = e
    BY <1>1, <1>2, <1>4, OwnOfAppend DEF TypeOK
  <2>5. OwnVerdict(e)'
    BY <1>1, <1>2, <1>4 DEF OwnVerdict, PassesBefore, CappedRead, ScopedSelect, Scoped, Operation
  <2> QED
    BY <1>1, <1>2, <2>3, <2>4, <2>5 DEF PassesBefore, VerdictInv, Running, OwnVerdict
<1> QED
  BY <1>3, <1>4 DEF PassesBefore, Injected, DecisionEvaluated, OperationEventOf, SameOperation

\* The backend's answer releases the debug event that was held back.
LEMMA BackendKeepsVerdictInv ==
  ASSUME TypeOK, VerdictInv, PassesBackend
  PROVE  VerdictInv'
<1>1. /\ op \in Operation /\ Running /\ Running'
      /\ op.occurrence = occurrence[op.template]
  BY DEF TypeOK, CallTypeOK, PassesBackend, VerdictInv, Running
<1>2. op'.template = op.template /\ op'.occurrence = op.occurrence /\ op'.slot = op.slot
  BY <1>1 DEF PassesBackend, Operation
<1>3. CASE UNCHANGED log
  <2>1. Own' = Own /\ OccurrencesCounted' /\ Agreeing'
    BY <1>2, <1>3 DEF PassesBackend, Own, OperationEvents, SameOperation, VerdictInv,
       OccurrencesCounted, Agreeing, Compatible
  <2>2. \A i \in Own : OwnVerdict(log[i])'
    BY <1>1, <1>2, <1>3 DEF VerdictInv, OwnVerdict, PassesBackend
  <2> QED
    BY <1>1, <1>2, <1>3, <2>1, <2>2 DEF PassesBackend, VerdictInv, OwnVerdict
<1>4. ASSUME CappedRead, op.slot = "evaluated",
             NEW e, log' = Append(log, e), SameOperation(e, op), e.phase = "before_execute",
             e.type = "decision_evaluated", e.name # "max_result_rows"
      PROVE  VerdictInv'
  <2>1. Own = {}
    BY <1>1, <1>4 DEF VerdictInv, OwnVerdict, PassesBackend
  <2>2. e.occurrence <= occurrence[e.template]
    BY <1>1, <1>4 DEF SameOperation, TypeOK, Operation
  <2>3. OccurrencesCounted' /\ Agreeing'
    BY <1>4, <2>1, <2>2, AppendKeepsAgreeing
       DEF PassesBackend, VerdictInv, TypeOK, Own, SameOperation
  <2>4. \A i \in Own' : log'[i] = e
    BY <1>2, <1>4, <2>1, OwnOfAppend DEF TypeOK
  <2>5. OwnVerdict(e)'
    BY <1>2, <1>4 DEF OwnVerdict, PassesBackend
  <2> QED
    BY <1>1, <1>2, <2>3, <2>4, <2>5 DEF PassesBackend, VerdictInv, OwnVerdict
<1> QED
  BY <1>3, <1>4 DEF PassesBackend, DecisionEvaluated, OperationEventOf, SameOperation

LEMMA VerdictInvInit == Init => VerdictInv
BY DEF Init, LogInit, VerdictInv, OccurrencesCounted, Agreeing, Running, OperationEvents, Own

LEMMA VerdictInvStep ==
  ASSUME ~MayCrash, TypeOK, VerdictInv, [Next]_vars
  PROVE  VerdictInv'
<1>1. CASE Aside
  BY <1>1, AsideKeepsVerdictInv DEF TypeOK
<1>2. CASE Opens
  BY <1>2, OpeningKeepsVerdictInv
<1>3. CASE PassesBefore
  BY <1>3, BeforeKeepsVerdictInv
<1>4. CASE PassesBackend
  BY <1>4, BackendKeepsVerdictInv
<1>5. ASSUME NEW e, EndsWith(e) PROVE VerdictInv'
  BY <1>5, EndingKeepsVerdictInv
<1>6. CASE UNCHANGED <<log, op, pc, occurrence>>
  BY <1>6 DEF VerdictInv, OccurrencesCounted, Agreeing, Running, Own, OwnVerdict, OperationEvents,
     SameOperation, Compatible, CappedRead, ScopedSelect, Scoped
<1> QED
  BY <1>1, <1>2, <1>3, <1>4, <1>5, <1>6, NextIsVerdictStep DEF VerdictStep

LEMMA VerdictInvariant ==
  ASSUME ~MayCrash
  PROVE  Spec => []VerdictInv
<1>1. TypeOK /\ VerdictInv /\ [Next]_vars => VerdictInv'
  BY VerdictInvStep
<1> QED
  BY <1>1, TypeCorrect, VerdictInvInit, PTL DEF Spec

-----------------------------------------------------------------------------
\* One operation suffers one fault at most, whatever its two phases draw and
\* whichever writes fail (faults.py, before_execute and on_result).
THEOREM OneFaultAtMost ==
  ASSUME ~MayCrash
  PROVE  Spec => []OneFaultPerOperation
<1>1. VerdictInv => OneFaultPerOperation
  BY DEF VerdictInv, Agreeing, Compatible, OneFaultPerOperation
<1> QED
  BY <1>1, VerdictInvariant, PTL

\* No phase of an operation has two verdicts (faults.py, _event and
\* _debug_decision; connection.py, the debug event held back for a capped read).
THEOREM OneVerdictAtMost ==
  ASSUME ~MayCrash
  PROVE  Spec => []OneVerdictPerPhase
<1>1. VerdictInv => OneVerdictPerPhase
  BY DEF VerdictInv, Agreeing, Compatible, OneVerdictPerPhase
<1> QED
  BY <1>1, VerdictInvariant, PTL

\* A read that max_result_rows cut short tells of no evaluation
\* (connection.py:198-200).
THEOREM InterruptedReadsStaySilent ==
  ASSUME ~MayCrash
  PROVE  Spec => []InterruptedReadsLeaveNoDecision
<1>1. VerdictInv => InterruptedReadsLeaveNoDecision
  BY DEF VerdictInv, Agreeing, Compatible, InterruptedReadsLeaveNoDecision
<1> QED
  BY <1>1, VerdictInvariant, PTL

-----------------------------------------------------------------------------
(* The statistics *)

\* An operation that has not used its fault up has not been counted yet.
CountInv ==
  /\ InterventionsWithinOccurrences
  /\ pc \in {"begin", "dispatch", "before"} => op.slot = "open"
  /\ Running /\ op.slot # "consumed" => interventions[op.template] < occurrence[op.template]

\* The steps of a session, as its statistics see them: outside the phases, an
\* operation opens, goes on or is counted, and a restart forgets all.
CountAside ==
  /\ UNCHANGED <<occurrence, interventions>>
  /\ ~Running'
  /\ pc' \in {"begin", "dispatch"} => op'.slot = "open" \/ (pc = "begin" /\ UNCHANGED op)

CountOpens == Opens /\ UNCHANGED interventions

CountGoesOn ==
  /\ UNCHANGED <<occurrence, interventions>>
  /\ Running /\ pc' \in {"backend", "result"}
  /\ op'.template = op.template
  /\ op.slot = "consumed" => (op'.slot = "consumed" \/ pc = "before")

Counted ==
  /\ UNCHANGED occurrence
  /\ CountIntervention
  /\ \/ pc = "result" /\ op.slot # "consumed" /\ pc' = "idle"
     \/ pc = "before" /\ pc' = "idle"
     \/ pc = "before" /\ pc' = "backend" /\ op'.slot = "consumed"

CountForgets ==
  /\ pc' = "idle"
  /\ occurrence' = [t \in Templates |-> 0]
  /\ interventions' = [t \in Templates |-> 0]

CountStep ==
  \/ CountAside \/ CountOpens \/ CountGoesOn \/ Counted \/ CountForgets
  \/ UNCHANGED <<op, pc, occurrence, interventions>>

LEMMA NextIsCountStep ==
  ASSUME TypeOK, [Next]_vars
  PROVE  CountStep
<1> USE DEF Emit, Inject, RecordFails, Exit, Leave, Running, CountStep
<1>1. ASSUME Begin PROVE CountStep
  <2>1. ASSUME NEW entry, ReturnDue(entry)
        PROVE  CountAside \/ UNCHANGED <<op, pc, occurrence, interventions>>
    BY <2>1 DEF ReturnDue, CountAside, statsVars
  <2>2. ASSUME AdvanceMood \/ NoMood PROVE CountAside
    BY <2>2 DEF AdvanceMood, NoMood, Goto, CountAside, statsVars
  <2> QED
    BY <1>1, <2>1, <2>2 DEF Begin
<1>2. ASSUME Dispatch PROVE CountStep
  <2>1. ASSUME Passthrough PROVE CountAside
    BY <2>1 DEF Passthrough, CountAside
  <2>2. ASSUME BeginDecision PROVE CountOpens
    BY <2>2 DEF BeginDecision, CountOpens, Opens, Continue, logVars
  <2> QED
    BY <1>2, <2>1, <2>2 DEF Dispatch
<1>3. ASSUME Before PROVE CountStep
  <2>1. op \in Operation \/ ~Running
    BY DEF TypeOK, CallTypeOK
  <2>2. ASSUME NEW fault, RaiseBefore(fault) PROVE CountAside \/ Counted
    BY <2>2 DEF RaiseBefore, CountAside, Counted
  <2>3. ASSUME Delay PROVE CountAside \/ Counted
    BY <2>1, <2>3 DEF Delay, Continue, CountAside, Counted, Operation
  <2>4. ASSUME PassBefore PROVE CountAside \/ CountGoesOn
    BY <2>1, <2>4 DEF PassBefore, Continue, Debugged, CountAside, CountGoesOn, Operation, statsVars
  <2> QED
    BY <1>3, <2>2, <2>3, <2>4 DEF Before
<1>4. ASSUME Backend PROVE CountStep
  <2>1. op \in Operation \/ ~Running
    BY DEF TypeOK, CallTypeOK
  <2>2. ASSUME BackendRaises \/ ExceedCap PROVE CountAside
    BY <2>2 DEF BackendRaises, ExceedCap, CountAside, statsVars
  <2>3. ASSUME NEW rows, BackendReturns(rows) PROVE CountAside \/ CountGoesOn
    BY <2>1, <2>3 DEF BackendReturns, Continue, Debugged, CountAside, CountGoesOn, Operation,
       statsVars
  <2> QED
    BY <1>4, <2>2, <2>3 DEF Backend
<1>5. ASSUME OnResult PROVE CountStep
  <2> USE DEF Deliver
  <2>1. ASSUME SkipOnResult \/ ExceedInterventionLimit PROVE CountAside
    BY <2>1 DEF SkipOnResult, ExceedInterventionLimit, CountAside, statsVars
  <2>2. ASSUME LoseResponse \/ HideTreasures PROVE CountAside \/ Counted
    BY <2>2 DEF LoseResponse, HideTreasures, PastNoDrop, EvaluateOnResult, CountAside, Counted
  <2>3. ASSUME NEW row, Stash(row) PROVE CountAside \/ Counted
    BY <2>3 DEF Stash, Choose, PastNoDrop, EvaluateOnResult, CountAside, Counted
  <2>4. ASSUME NEW row, StashRefused(row) PROVE CountAside
    BY <2>4 DEF StashRefused, CountAside, statsVars
  <2>5. ASSUME NEW fault, Reshape(fault) PROVE CountAside \/ Counted
    BY <2>5 DEF Reshape, Choose, PastNoDrop, EvaluateOnResult, CountAside, Counted
  <2>6. ASSUME NEW entry, Replay(entry) PROVE CountAside \/ Counted
    BY <2>6 DEF Replay, Choose, PastNoDrop, EvaluateOnResult, CountAside, Counted
  <2>7. ASSUME DeliverWhole PROVE CountAside
    BY <2>7 DEF DeliverWhole, Debugged, CountAside, statsVars
  <2> HIDE DEF Emit, Inject, RecordFails, Exit, Leave, Deliver
  <2> QED
    BY <1>5, <2>1, <2>2, <2>3, <2>4, <2>5, <2>6, <2>7 DEF OnResult
<1>6. ASSUME NEW t, LogReturned(t) PROVE CountAside
  BY <1>6 DEF LogReturned, CountAside, statsVars
<1>7. ASSUME Client PROVE CountStep
  <2>1. ASSUME NEW method, NEW params, NEW template, Call(method, params, template)
        PROVE  CountAside
    BY <2>1 DEF Call, CountAside, statsVars
  <2>2. ASSUME NEW id, ReturnTreasure(id) PROVE CountAside
    BY <2>2 DEF ReturnTreasure, CountAside, statsVars, callVars
  <2>3. ASSUME ReturnAll PROVE CountAside
    BY <2>3 DEF ReturnAll, CountAside, statsVars
  <2> QED
    BY <1>7, <2>1, <2>2, <2>3 DEF Client
<1>8. ASSUME Crash PROVE CountForgets
  BY <1>8 DEF Crash, CountForgets
<1>9. ASSUME UNCHANGED vars PROVE CountStep
  BY <1>9 DEF vars, callVars, statsVars
<1> QED
  BY <1>1, <1>2, <1>3, <1>4, <1>5, <1>6, <1>7, <1>8, <1>9 DEF Next, Progress

LEMMA CountInvStep ==
  ASSUME TypeOK, CountInv, CountStep
  PROVE  CountInv'
<1>1. /\ \A t \in Templates : interventions[t] \in Nat /\ occurrence[t] \in Nat
      /\ Running \/ pc = "dispatch" => op \in Operation /\ op.template \in Templates
  BY DEF TypeOK, StatsTypeOK, CallTypeOK, Running, Operation
<1> USE <1>1 DEF CountInv, InterventionsWithinOccurrences, Running
<1>2. CASE CountAside
  BY <1>2 DEF CountAside
<1>3. CASE CountOpens
  <2>1. op'.template = op.template
    BY <1>3 DEF CountOpens, Opens, Operation
  <2> QED
    BY <1>3, <2>1 DEF CountOpens, Opens, TypeOK
<1>4. CASE CountGoesOn
  BY <1>4 DEF CountGoesOn
<1>5. CASE Counted
  BY <1>5 DEF Counted, CountIntervention, TypeOK, StatsTypeOK
<1>6. CASE CountForgets
  BY <1>6 DEF CountForgets
<1>7. CASE UNCHANGED <<op, pc, occurrence, interventions>>
  BY <1>7
<1> QED
  BY <1>2, <1>3, <1>4, <1>5, <1>6, <1>7 DEF CountStep

\* The statistics never tell of more interventions in a template than it had
\* operations, over restarts too (statistics.py; faults.py, on_result).
THEOREM InterventionsAlwaysWithin == Spec => []InterventionsWithinOccurrences
<1>1. Init => CountInv
  BY DEF Init, CountInv, InterventionsWithinOccurrences, Running
<1>2. TypeOK /\ CountInv /\ [Next]_vars => CountInv'
  BY NextIsCountStep, CountInvStep
<1>3. CountInv => InterventionsWithinOccurrences
  BY DEF CountInv
<1> QED
  BY <1>1, <1>2, <1>3, TypeCorrect, PTL DEF Spec

=============================================================================
