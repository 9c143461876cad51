---------------------------- MODULE ScheduleProofs ----------------------------
(***************************************************************************)
(* Proofs about the event log and the return schedule of a session, and    *)
(* that the copies a session keeps of one fact agree where every write of  *)
(* the log succeeds: the house and the schedule, the house and the log,    *)
(* the mood and the log.                                                   *)
(***************************************************************************)
EXTENDS SessionProofs, OperationOrder, FiniteSetTheorems, WellFoundedInduction

-----------------------------------------------------------------------------
(* The sequence numbers *)

\* The four ways a step may treat the log.
LogStep ==
  \/ UNCHANGED logVars
  \/ \E event : event.seq = NextSeq /\ Record(event)
  \/ RecordFails
  \/ LogReopen /\ Crash

\* No event of the log carries a number that is still to be given.
LogInv ==
  /\ SequenceGrows
  /\ \A i \in DOMAIN log : log[i].seq <= seq

LEMMA EventsCarryNextSeq ==
  /\ \A type, name, phase : OperationEventOf(type, name, phase).seq = NextSeq
  /\ \A type, name, phase, t : TreasureEventOf(type, name, phase, t).seq = NextSeq
  /\ \A next : MoodChanged(next).seq = NextSeq
  /\ \A entry : StaleEventOf(entry).seq = NextSeq
BY DEF OperationEventOf, TreasureEventOf, MoodChanged, StaleEventOf

LEMMA NextIsLogStep == [Next]_vars => LogStep
<1> SUFFICES ASSUME [Next]_vars PROVE LogStep
  OBVIOUS
<1> USE EventsCarryNextSeq DEF LogStep, Emit, Inject
<1>1. ASSUME Begin PROVE LogStep
  <2>1. ASSUME NEW entry, ReturnDue(entry) PROVE LogStep
    BY <2>1 DEF ReturnDue, Returned
  <2>2. ASSUME AdvanceMood PROVE LogStep
    BY <2>2 DEF AdvanceMood
  <2>3. ASSUME NoMood PROVE LogStep
    BY <2>3 DEF NoMood
  <2> QED
    BY <1>1, <2>1, <2>2, <2>3 DEF Begin
<1>2. ASSUME Dispatch PROVE LogStep
  BY <1>2 DEF Dispatch, Passthrough, BeginDecision
<1>3. ASSUME Before PROVE LogStep
  BY <1>3 DEF Before, RaiseBefore, Delay, PassBefore, Debugged, Injected, DecisionEvaluated
<1>4. ASSUME Backend PROVE LogStep
  BY <1>4 DEF Backend, BackendRaises, ExceedCap, BackendReturns, Debugged,
     LimitExceeded, DecisionEvaluated
<1>5. ASSUME OnResult PROVE LogStep
  <2>1. ASSUME SkipOnResult \/ HideTreasures PROVE LogStep
    BY <2>1 DEF SkipOnResult, HideTreasures
  <2>2. ASSUME ExceedInterventionLimit PROVE LogStep
    BY <2>2 DEF ExceedInterventionLimit, LimitExceeded
  <2>3. ASSUME LoseResponse PROVE LogStep
    BY <2>3 DEF LoseResponse, Injected
  <2>4. ASSUME NEW row, Stash(row) PROVE LogStep
    BY <2>4 DEF Stash
  <2>5. ASSUME NEW row, StashRefused(row) PROVE LogStep
    BY <2>5 DEF StashRefused
  <2>6. ASSUME NEW fault, Reshape(fault) PROVE LogStep
    BY <2>6 DEF Reshape, Injected
  <2>7. ASSUME NEW entry, Replay(entry) PROVE LogStep
    BY <2>7 DEF Replay
  <2>8. ASSUME DeliverWhole PROVE LogStep
    BY <2>8 DEF DeliverWhole, Debugged, DecisionEvaluated
  <2> QED
    BY <1>5, <2>1, <2>2, <2>3, <2>4, <2>5, <2>6, <2>7, <2>8 DEF OnResult
<1>6. ASSUME NEW t, LogReturned(t) PROVE LogStep
  BY <1>6 DEF LogReturned, Returned
<1>7. ASSUME Client PROVE LogStep
  BY <1>7 DEF Client, Call, ReturnTreasure, ReturnAll, Returned
<1>8. ASSUME Crash PROVE LogStep
  <2>1. LogReopen
    BY <1>8 DEF Crash
  <2> QED
    BY <1>8, <2>1
<1>9. ASSUME UNCHANGED vars PROVE LogStep
  BY <1>9 DEF vars
<1> QED
  BY <1>1, <1>2, <1>3, <1>4, <1>5, <1>6, <1>7, <1>8, <1>9 DEF Next, Progress

LEMMA LogInvStep ==
  ASSUME LogTypeOK, LogInv, LogStep
  PROVE  LogInv'
<1> USE DEF LogInv, SequenceGrows
<1>1. CASE UNCHANGED logVars
  BY <1>1 DEF logVars
<1>2. ASSUME NEW event, event.seq = NextSeq, Record(event) PROVE LogInv'
  <2>1. DOMAIN log = 1 .. Len(log) /\ Len(log) \in Nat
    BY DEF LogTypeOK
  <2>2. DOMAIN log' = 1 .. (Len(log) + 1)
    BY <1>2 DEF Record, LogTypeOK
  <2>3. \A i \in DOMAIN log : log'[i] = log[i] /\ log[i].seq \in Nat
    BY <1>2 DEF Record, LogTypeOK, Event, OperationEvent, TreasureEvent, StaleEvent, MoodEvent
  <2>4. log'[Len(log) + 1].seq = seq + 1 /\ seq' = seq + 1
    BY <1>2 DEF Record, LogTypeOK, NextSeq
  <2> QED
    BY <2>1, <2>2, <2>3, <2>4 DEF LogTypeOK
<1>3. CASE RecordFails
  <2>1. \A i \in DOMAIN log : log[i].seq \in Nat
    BY DEF LogTypeOK, Event, OperationEvent, TreasureEvent, StaleEvent, MoodEvent
  <2> QED
    BY <1>3, <2>1 DEF RecordFails, NextSeq, LogTypeOK
<1>4. CASE LogReopen
  BY <1>4 DEF LogReopen
<1> QED
  BY <1>1, <1>2, <1>3, <1>4 DEF LogStep

\* The sequence numbers of a session's log grow along it, whatever writes fail
\* and however often the session is opened again on it (event_log.py, __init__,
\* append and next_seq).
THEOREM SequenceAlwaysGrows == Spec => []SequenceGrows
<1>1. Init => LogInv
  BY DEF Init, LogInit, LogInv, SequenceGrows
<1>2. TypeOK /\ LogInv /\ [Next]_vars => LogInv'
  BY NextIsLogStep, LogInvStep DEF TypeOK
<1>3. LogInv => SequenceGrows
  BY DEF LogInv
<1> QED
  BY <1>1, <1>2, <1>3, TypeCorrect, PTL DEF Spec

-----------------------------------------------------------------------------
(* The deadlines of the schedule *)

\* What a step may do to the schedule.
ScheduleStep ==
  \/ UNCHANGED scheduleVars /\ tick' \in (IF AutoReturnOn THEN {tick} ELSE {tick, tick + 1})
  \/ ScheduleAdvance(tick + 1) /\ tick' = tick + 1
  \/ \E id : \E hold \in MinHold .. MaxHold : Schedule(id, hold) /\ UNCHANGED tick
  \/ \E id : ScheduleCancel(id) /\ UNCHANGED tick
  \/ scheduled' = {} /\ currentTick' = 0 /\ tick' = 0

\* The clock of the schedule is the session's, and never runs ahead of it.
DeadlineInv ==
  /\ NoTreasureOverstays
  /\ currentTick <= tick
  /\ AutoReturnOn => currentTick = tick

LEMMA NextIsScheduleStep == [Next]_vars => ScheduleStep
<1> SUFFICES ASSUME [Next]_vars PROVE ScheduleStep
  OBVIOUS
<1> USE DEF ScheduleStep
<1>1. ASSUME Begin \/ Dispatch \/ Before \/ Backend PROVE ScheduleStep
  BY <1>1 DEF Begin, ReturnDue, AdvanceMood, NoMood, Dispatch, Passthrough, BeginDecision,
     Before, RaiseBefore, Delay, PassBefore, Backend, BackendRaises, ExceedCap, BackendReturns
<1>2. ASSUME OnResult PROVE ScheduleStep
  <2>1. ASSUME NEW row, Stash(row) PROVE ScheduleStep
    BY <2>1 DEF Stash
  <2> QED
    BY <1>2, <2>1 DEF OnResult, SkipOnResult, ExceedInterventionLimit, LoseResponse,
       HideTreasures, StashRefused, Reshape, Replay, DeliverWhole
<1>3. ASSUME NEW method, NEW params, NEW template, Call(method, params, template)
      PROVE  ScheduleStep
  BY <1>3 DEF Call, Clocked
<1>4. ASSUME NEW id, ReturnTreasure(id) PROVE ScheduleStep
  BY <1>4 DEF ReturnTreasure
<1>5. ASSUME ReturnAll PROVE ScheduleStep
  BY <1>5 DEF ReturnAll
<1>6. ASSUME NEW t, LogReturned(t) PROVE ScheduleStep
  BY <1>6 DEF LogReturned
<1>7. ASSUME Crash PROVE ScheduleStep
  BY <1>7 DEF Crash
<1>8. ASSUME UNCHANGED vars PROVE ScheduleStep
  BY <1>8 DEF vars
<1> QED
  BY <1>1, <1>2, <1>3, <1>4, <1>5, <1>6, <1>7, <1>8 DEF Next, Progress, Client

LEMMA DeadlineInvStep ==
  ASSUME ScheduleTypeOK, tick \in Nat, DeadlineInv, ScheduleStep
  PROVE  DeadlineInv'
<1> USE HoldAssumption DEF DeadlineInv, NoTreasureOverstays, ScheduleTypeOK, ScheduleEntry
<1>1. CASE UNCHANGED scheduleVars /\ tick' \in (IF AutoReturnOn THEN {tick} ELSE {tick, tick + 1})
  BY <1>1 DEF scheduleVars
<1>2. CASE ScheduleAdvance(tick + 1) /\ tick' = tick + 1
  <2>1. \A s \in scheduled' : s \in scheduled /\ ~(s.due <= tick + 1)
    BY <1>2 DEF ScheduleAdvance, Due
  <2> QED
    BY <1>2, <2>1 DEF ScheduleAdvance
<1>3. ASSUME NEW id, NEW hold \in MinHold .. MaxHold, Schedule(id, hold), UNCHANGED tick
      PROVE  DeadlineInv'
  <2>1. \A s \in scheduled' : s \in scheduled \/ s.due = currentTick + hold
    BY <1>3 DEF Schedule, Without
  <2> QED
    BY <1>3, <2>1 DEF Schedule
<1>4. ASSUME NEW id, ScheduleCancel(id), UNCHANGED tick PROVE DeadlineInv'
  BY <1>4 DEF ScheduleCancel, Without
<1>5. CASE scheduled' = {} /\ currentTick' = 0 /\ tick' = 0
  BY <1>5
<1> QED
  BY <1>1, <1>2, <1>3, <1>4, <1>5 DEF ScheduleStep

\* Whatever is scheduled comes due after the current operation and at most
\* max_operations after it, through returns by hand, failed writes and restarts
\* (auto_return.py, advance and schedule).
THEOREM NothingScheduledOverstays == Spec => []NoTreasureOverstays
<1>1. Init => DeadlineInv
  BY DEF Init, ScheduleInit, DeadlineInv, NoTreasureOverstays
<1>2. TypeOK /\ DeadlineInv /\ [Next]_vars => DeadlineInv'
  BY NextIsScheduleStep, DeadlineInvStep DEF TypeOK
<1>3. DeadlineInv => NoTreasureOverstays
  BY DEF DeadlineInv
<1> QED
  BY <1>1, <1>2, <1>3, TypeCorrect, PTL DEF Spec

-----------------------------------------------------------------------------
(* The order of the returns, and the steps a call has left *)

Entries == scheduled \cup due

\* The treasures of the house, and those on their way out of it.
Kept == treasures \cup returning

\* What is due is returned before anything else, and return_all ends with its
\* last treasure.
PhasesInv ==
  /\ pc # "begin" => due = {}
  /\ pc # "returning" => returning = {}

OrderInv ==
  /\ PhasesInv
  /\ IsFiniteSet(Entries) /\ IsFiniteSet(Kept)
  /\ \A s \in Entries : s.order <= nextOrder
  /\ \A t \in Kept : t.seq <= seq
  /\ ReturnsAreOrdered

\* What a step may do to the entries: drop some, add one, or lose them all.
EntriesStep ==
  \/ Entries' \subseteq Entries /\ UNCHANGED nextOrder
  \/ \E e : /\ e.order = nextOrder + 1 /\ nextOrder' = nextOrder + 1
            /\ Entries' \subseteq Entries \cup {e}
  \/ Entries' = {}

\* What a step may do to the treasures.
KeptStep ==
  \/ Kept' \subseteq Kept /\ seq' \in {seq, NextSeq}
  \/ \E t : t.seq = NextSeq /\ seq' = NextSeq /\ Kept' = Kept \cup {t}
  \/ Kept' = {}

LEMMA NextKeepsPhases == PhasesInv /\ [Next]_vars => PhasesInv'
<1> SUFFICES ASSUME PhasesInv, [Next]_vars PROVE PhasesInv'
  OBVIOUS
<1> USE DEF PhasesInv, Emit, Inject, Debugged, Exit, Leave, Goto, Continue
<1>1. CASE Begin
  BY <1>1 DEF Begin, ReturnDue, AdvanceMood, NoMood
<1>2. CASE Dispatch
  BY <1>2 DEF Dispatch, Passthrough, BeginDecision
<1>3. CASE Before
  BY <1>3 DEF Before, RaiseBefore, Delay, PassBefore
<1>4. CASE Backend
  BY <1>4 DEF Backend, BackendRaises, ExceedCap, BackendReturns
<1>5. CASE OnResult
  BY <1>5 DEF OnResult, SkipOnResult, ExceedInterventionLimit, LoseResponse, HideTreasures,
     Stash, StashRefused, Reshape, Replay, DeliverWhole, Deliver
<1>6. ASSUME NEW t, LogReturned(t) PROVE PhasesInv'
  BY <1>6 DEF LogReturned
<1>7. CASE Client
  BY <1>7 DEF Client, Call, ReturnTreasure, ReturnAll, callVars
<1>8. CASE Crash
  BY <1>8 DEF Crash
<1>9. CASE UNCHANGED vars
  BY <1>9 DEF vars, callVars
<1> QED
  BY <1>1, <1>2, <1>3, <1>4, <1>5, <1>6, <1>7, <1>8, <1>9 DEF Next, Progress

LEMMA NextIsEntriesStep == PhasesInv /\ [Next]_vars => EntriesStep
<1> SUFFICES ASSUME PhasesInv, [Next]_vars PROVE EntriesStep
  OBVIOUS
<1>1. ASSUME UNCHANGED scheduleVars, due' \subseteq due PROVE EntriesStep
  BY <1>1 DEF scheduleVars, EntriesStep, Entries
<1>2. CASE Begin \/ Dispatch \/ Before \/ Backend
  <2>1. UNCHANGED scheduleVars
    BY <1>2 DEF Begin, ReturnDue, AdvanceMood, NoMood, Dispatch, Passthrough, BeginDecision,
       Before, RaiseBefore, Delay, PassBefore, Backend, BackendRaises, ExceedCap, BackendReturns
  <2>2. due' \subseteq due
    BY <1>2 DEF Begin, ReturnDue, AdvanceMood, NoMood, Dispatch, Passthrough, BeginDecision,
       Before, RaiseBefore, Delay, PassBefore, Backend, BackendRaises, ExceedCap, BackendReturns,
       Emit, Inject, Debugged, Exit, Leave, Goto, Continue
  <2> QED
    BY <1>1, <2>1, <2>2
<1>3. ASSUME OnResult, ~\E row : Stash(row) PROVE EntriesStep
  <2>1. UNCHANGED scheduleVars
    BY <1>3 DEF OnResult, SkipOnResult, ExceedInterventionLimit, LoseResponse,
       HideTreasures, StashRefused, Reshape, Replay, DeliverWhole
  <2>2. due' \subseteq due
    BY <1>3 DEF OnResult, SkipOnResult, ExceedInterventionLimit, LoseResponse,
       HideTreasures, StashRefused, Reshape, Replay, DeliverWhole, Inject, Emit, Debugged,
       Exit, Deliver, Leave
  <2> QED
    BY <1>1, <2>1, <2>2
<1>4. ASSUME NEW row, Stash(row) PROVE EntriesStep
  <2>1. due' = {}
    BY <1>4 DEF Stash, Inject, Exit, Deliver, Leave
  <2>2. CASE UNCHANGED scheduleVars
    BY <1>1, <2>1, <2>2
  <2>3. ASSUME NEW id, NEW hold, Schedule(id, hold) PROVE EntriesStep
    <3> DEFINE e == [id |-> id, due |-> currentTick + hold, order |-> nextOrder + 1]
    <3>1. scheduled' \subseteq scheduled \cup {e} /\ nextOrder' = nextOrder + 1
          /\ e.order = nextOrder + 1
      BY <2>3 DEF Schedule, Without
    <3> HIDE DEF e
    <3> QED
      BY <2>1, <3>1 DEF EntriesStep, Entries
  <2> QED
    BY <1>4, <2>2, <2>3 DEF Stash
<1>5. ASSUME NEW method, NEW params, NEW template, Call(method, params, template)
      PROVE  EntriesStep
  <2>1. Entries' \subseteq Entries /\ UNCHANGED nextOrder
    BY <1>5 DEF Call, ScheduleAdvance, Due, scheduleVars, Entries
  <2> QED
    BY <2>1 DEF EntriesStep
<1>6. ASSUME (\E id : ReturnTreasure(id)) \/ (\E t : LogReturned(t)) PROVE EntriesStep
  <2>1. due' \subseteq due
    BY <1>6 DEF ReturnTreasure, LogReturned, Emit, Exit, Leave, callVars
  <2>2. scheduled' \subseteq scheduled /\ UNCHANGED nextOrder
    BY <1>6 DEF ReturnTreasure, LogReturned, ScheduleCancel, Without, scheduleVars
  <2> QED
    BY <2>1, <2>2 DEF EntriesStep, Entries
<1>7. CASE ReturnAll
  BY <1>1, <1>7 DEF ReturnAll
<1>8. CASE Crash
  BY <1>8 DEF Crash, EntriesStep, Entries
<1>9. CASE UNCHANGED vars
  BY <1>1, <1>9 DEF vars, callVars
<1> QED
  BY <1>2, <1>3, <1>4, <1>5, <1>6, <1>7, <1>8, <1>9 DEF Next, Progress, Client

LEMMA NextIsKeptStep == PhasesInv /\ [Next]_vars => KeptStep
<1> SUFFICES ASSUME PhasesInv, [Next]_vars PROVE KeptStep
  OBVIOUS
<1>1. seq' \in {seq, NextSeq} \/ Crash
  <2>1. CASE Crash
    BY <2>1
  <2>2. CASE ~Crash
    <3>1. LogStep
      BY NextIsLogStep
    <3> QED
      BY <2>2, <3>1 DEF LogStep, Record, RecordFails, logVars
  <2> QED
    BY <2>1, <2>2
<1>2. ASSUME Kept' \subseteq Kept PROVE KeptStep
  <2>1. CASE Crash
    BY <2>1 DEF Crash, KeptStep, Kept
  <2> QED
    BY <1>1, <1>2, <2>1 DEF KeptStep
<1>3. CASE Begin \/ Dispatch \/ Before \/ Backend
  <2>1. treasures' \subseteq treasures
    BY <1>3 DEF Begin, ReturnDue, HouseReturn, AdvanceMood, NoMood, Dispatch, Passthrough,
       BeginDecision, Before, RaiseBefore, Delay, PassBefore, Backend, BackendRaises, ExceedCap,
       BackendReturns, houseVars
  <2>2. returning' \subseteq returning
    BY <1>3 DEF Begin, ReturnDue, AdvanceMood, NoMood, Dispatch, Passthrough, BeginDecision,
       Before, RaiseBefore, Delay, PassBefore, Backend, BackendRaises, ExceedCap, BackendReturns,
       Emit, Inject, Debugged, Exit, Leave, Goto, Continue
  <2> QED
    BY <1>2, <2>1, <2>2 DEF Kept
<1>4. ASSUME OnResult, ~\E row : Stash(row) PROVE KeptStep
  <2>1. UNCHANGED treasures
    BY <1>4 DEF OnResult, SkipOnResult, ExceedInterventionLimit, LoseResponse,
       HideTreasures, StashRefused, Reshape, Replay, DeliverWhole, houseVars
  <2>2. returning' \subseteq returning
    BY <1>4 DEF OnResult, SkipOnResult, ExceedInterventionLimit, LoseResponse,
       HideTreasures, StashRefused, Reshape, Replay, DeliverWhole, Inject, Emit, Debugged,
       Exit, Deliver, Leave
  <2> QED
    BY <1>2, <2>1, <2>2 DEF Kept
<1>5. ASSUME NEW row, Stash(row) PROVE KeptStep
  <2> DEFINE t == NewTreasure(row)
  <2>1. returning = {} /\ returning' = {} /\ seq' = NextSeq
    BY <1>5 DEF Stash, Choose, PastNoDrop, PhasesInv, Inject, Record, RecordFails, Exit,
       Deliver, Leave
  <2>2. t.seq = NextSeq
    BY DEF NewTreasure
  <2>3. treasures' = treasures \cup {t}
    BY <1>5 DEF Stash, HouseAdd
  <2> HIDE DEF t
  <2> QED
    BY <2>1, <2>2, <2>3 DEF KeptStep, Kept
<1>6. ASSUME NEW t, LogReturned(t) PROVE KeptStep
  <2>1. returning' \subseteq returning /\ treasures' = treasures
    BY <1>6 DEF LogReturned, Emit, Exit, Leave, houseVars
  <2> QED
    BY <1>2, <2>1 DEF Kept
<1>7. ASSUME NEW method, NEW params, NEW template, Call(method, params, template)
      PROVE  KeptStep
  BY <1>2, <1>7 DEF Call, houseVars, Kept
<1>8. ASSUME NEW id, ReturnTreasure(id) PROVE KeptStep
  <2>1. treasures' \subseteq treasures
    BY <1>8 DEF ReturnTreasure, HouseReturn, houseVars
  <2>2. returning' \subseteq returning
    BY <1>8 DEF ReturnTreasure, Emit, Exit, Leave, callVars
  <2> QED
    BY <1>2, <2>1, <2>2 DEF Kept
<1>9. CASE ReturnAll
  BY <1>2, <1>9 DEF ReturnAll, HouseReturnAll, Kept
<1>10. CASE Crash
  BY <1>10 DEF Crash, KeptStep, Kept
<1>11. CASE UNCHANGED vars
  BY <1>2, <1>11 DEF vars, houseVars, callVars, Kept
<1> QED
  BY <1>3, <1>4, <1>5, <1>6, <1>7, <1>8, <1>9, <1>10, <1>11 DEF Next, Progress, Client

LEMMA OrderInvStep ==
  ASSUME TypeOK, TypeOK', OrderInv, [Next]_vars
  PROVE  OrderInv'
<1>1. PhasesInv'
  BY NextKeepsPhases DEF OrderInv
<1>2. /\ seq \in Nat /\ nextOrder \in Nat /\ nextOrder' \in Nat /\ seq' \in Nat
      /\ \A s \in Entries : s.order \in Nat
      /\ \A t \in Kept : t.seq \in Nat
  BY DEF TypeOK, LogTypeOK, ScheduleTypeOK, HouseTypeOK, CallTypeOK, ScheduleEntry, Treasure,
     Entries, Kept
<1>3. /\ IsFiniteSet(Entries') /\ \A s \in Entries' : s.order <= nextOrder'
      /\ \A s, u \in Entries' : s # u => s.order # u.order
  <2>0. /\ IsFiniteSet(Entries) /\ \A s \in Entries : s.order <= nextOrder
        /\ \A s, u \in Entries : s # u => s.order # u.order
    BY DEF OrderInv, ReturnsAreOrdered, Entries
  <2>1. CASE Entries' \subseteq Entries /\ UNCHANGED nextOrder
    BY <2>0, <2>1, FS_Subset
  <2>2. ASSUME NEW e, e.order = nextOrder + 1, nextOrder' = nextOrder + 1,
               Entries' \subseteq Entries \cup {e}
        PROVE  /\ IsFiniteSet(Entries') /\ \A s \in Entries' : s.order <= nextOrder'
               /\ \A s, u \in Entries' : s # u => s.order # u.order
    <3>1. IsFiniteSet(Entries \cup {e})
      BY <2>0, FS_AddElement
    <3>2. IsFiniteSet(Entries')
      BY <2>2, <3>1, FS_Subset
    <3>3. \A s \in Entries : s.order < e.order /\ s.order <= nextOrder'
      BY <1>2, <2>0, <2>2
    <3>4. \A s \in Entries : s.order # e.order
      BY <1>2, <2>2, <3>3
    <3>5. e.order <= nextOrder'
      BY <1>2, <2>2
    <3> QED
      BY <2>0, <2>2, <3>2, <3>3, <3>4, <3>5
  <2>3. CASE Entries' = {}
    BY <2>3, FS_EmptySet
  <2>4. EntriesStep
    BY NextIsEntriesStep DEF OrderInv
  <2> QED
    BY <2>1, <2>2, <2>3, <2>4 DEF EntriesStep
<1>4. /\ IsFiniteSet(Kept') /\ \A t \in Kept' : t.seq <= seq'
      /\ \A t, u \in Kept' : t # u => t.seq # u.seq
  <2>0. /\ IsFiniteSet(Kept) /\ \A t \in Kept : t.seq <= seq
        /\ \A t, u \in Kept : t # u => t.seq # u.seq
    BY DEF OrderInv, ReturnsAreOrdered, Kept
  <2>1. CASE Kept' \subseteq Kept /\ seq' \in {seq, NextSeq}
    <3>1. \A t \in Kept : t.seq <= seq'
      BY <1>2, <2>0, <2>1 DEF NextSeq
    <3> QED
      BY <2>0, <2>1, <3>1, FS_Subset
  <2>2. ASSUME NEW e, e.seq = NextSeq, seq' = NextSeq, Kept' = Kept \cup {e}
        PROVE  /\ IsFiniteSet(Kept') /\ \A t \in Kept' : t.seq <= seq'
               /\ \A t, u \in Kept' : t # u => t.seq # u.seq
    <3>1. IsFiniteSet(Kept')
      BY <2>0, <2>2, FS_AddElement
    <3>2. \A t \in Kept : t.seq < e.seq /\ t.seq <= seq'
      BY <1>2, <2>0, <2>2 DEF NextSeq
    <3>3. e.seq <= seq' /\ \A t \in Kept : t.seq # e.seq
      BY <1>2, <2>2, <3>2 DEF NextSeq
    <3> QED
      BY <2>0, <2>2, <3>1, <3>2, <3>3
  <2>3. CASE Kept' = {}
    BY <2>3, FS_EmptySet
  <2>4. KeptStep
    BY NextIsKeptStep DEF OrderInv
  <2> QED
    BY <2>1, <2>2, <2>3, <2>4 DEF KeptStep
<1> QED
  BY <1>1, <1>3, <1>4 DEF OrderInv, ReturnsAreOrdered, Entries, Kept

LEMMA OrderInvariant == Spec => []OrderInv
<1>1. Init => OrderInv
  BY FS_EmptySet DEF Init, ScheduleInit, HouseInit, OrderInv, PhasesInv, ReturnsAreOrdered,
     Entries, Kept
<1>2. TypeOK /\ TypeOK' /\ OrderInv /\ [Next]_vars => OrderInv'
  BY OrderInvStep
<1> QED
  BY <1>1, <1>2, TypeCorrect, PTL DEF Spec

\* The order of the returns is a total one, whatever writes fail and however
\* often the session is opened again (auto_return.py, schedule and advance;
\* event_log.py, append; faults.py, _stash).
THEOREM ReturnsAlwaysOrdered == Spec => []ReturnsAreOrdered
<1>1. OrderInv => ReturnsAreOrdered
  BY DEF OrderInv
<1> QED
  BY <1>1, OrderInvariant, PTL

LEMMA LeastNatural ==
  ASSUME NEW T, T \subseteq Nat, T # {}
  PROVE  \E x \in T : \A y \in T : x <= y
<1> DEFINE R == OpToRel(<, Nat)
<1>1. IsWellFoundedOn(R, Nat)
  BY NatLessThanWellFounded
<1>2. \A x, y \in Nat : y < x => <<y, x>> \in R
  BY DEF OpToRel
<1> HIDE DEF R
<1>3. PICK x \in T : \A y \in T : <<y, x>> \notin R
  BY <1>1, WFMin
<1>4. ASSUME NEW y \in T PROVE x <= y
  <2>1. x \in Nat /\ y \in Nat
    OBVIOUS
  <2>2. <<y, x>> \notin R
    BY <1>3
  <2>3. ~(y < x)
    BY <1>2, <2>1, <2>2
  <2> QED
    BY <2>1, <2>3
<1> QED
  BY <1>4

\* While something is due, or still to be logged, one of it is next.
OneIsNext ==
  /\ due # {} => \E entry \in due : \A other \in due \ {entry} : Sooner(entry, other)
  /\ returning # {} => \E t \in returning : \A u \in returning \ {t} : t.seq < u.seq

\* Neither loop of returns is ever stuck: there is an entry that ReturnDue, or
\* a treasure that LogReturned, goes on with (connection.py, _begin_operation
\* and return_all).
THEOREM OneIsAlwaysNext == Spec => []OneIsNext
<1>1. ASSUME TypeOK, ReturnsAreOrdered PROVE OneIsNext
  <2>1. ASSUME due # {}
        PROVE  \E entry \in due : \A other \in due \ {entry} : Sooner(entry, other)
    <3>1. \A s \in due : s.due \in Nat /\ s.order \in Nat
      BY <1>1 DEF TypeOK, CallTypeOK, ScheduleEntry
    <3>2. PICK s \in due : \A u \in due : s.due <= u.due
      <4> DEFINE T == {u.due : u \in due}
      <4>1. T \subseteq Nat /\ T # {}
        BY <2>1, <3>1
      <4> HIDE DEF T
      <4>2. PICK x \in T : \A y \in T : x <= y
        BY <4>1, LeastNatural
      <4> QED
        BY <4>2 DEF T
    <3>3. PICK e \in due : e.due = s.due /\ \A u \in due : u.due = s.due => e.order <= u.order
      <4> DEFINE T == {u.order : u \in {v \in due : v.due = s.due}}
      <4>1. T \subseteq Nat /\ T # {}
        BY <3>1
      <4> HIDE DEF T
      <4>2. PICK x \in T : \A y \in T : x <= y
        BY <4>1, LeastNatural
      <4> QED
        BY <4>2 DEF T
    <3>4. ASSUME NEW u \in due \ {e} PROVE Sooner(e, u)
      <4>1. e.order # u.order
        BY <1>1, <3>4 DEF ReturnsAreOrdered
      <4>2. /\ e.due \in Nat /\ u.due \in Nat /\ e.order \in Nat /\ u.order \in Nat
            /\ e.due <= u.due /\ (u.due = e.due => e.order <= u.order)
        BY <3>1, <3>2, <3>3
      <4> QED
        BY <4>1, <4>2 DEF Sooner
    <3> QED
      BY <3>4
  <2>2. ASSUME returning # {}
        PROVE  \E t \in returning : \A u \in returning \ {t} : t.seq < u.seq
    <3>1. \A t \in returning : t.seq \in Nat
      BY <1>1 DEF TypeOK, CallTypeOK, Treasure
    <3>2. PICK t \in returning : \A u \in returning : t.seq <= u.seq
      <4> DEFINE T == {u.seq : u \in returning}
      <4>1. T \subseteq Nat /\ T # {}
        BY <2>2, <3>1
      <4> HIDE DEF T
      <4>2. PICK x \in T : \A y \in T : x <= y
        BY <4>1, LeastNatural
      <4> QED
        BY <4>2 DEF T
    <3>3. ASSUME NEW u \in returning \ {t} PROVE t.seq < u.seq
      <4>1. t.seq # u.seq
        BY <1>1, <3>3 DEF ReturnsAreOrdered
      <4>2. t.seq \in Nat /\ u.seq \in Nat /\ t.seq <= u.seq
        BY <3>1, <3>2
      <4> QED
        BY <4>1, <4>2
    <3> QED
      BY <3>3
  <2> QED
    BY <2>1, <2>2 DEF OneIsNext
<1> QED
  BY <1>1, TypeCorrect, ReturnsAlwaysOrdered, PTL

\* The phases still ahead of a call.
PhasesLeft(label) ==
  CASE label = "begin" -> 5 [] label = "dispatch" -> 4 [] label = "before" -> 3
    [] label = "backend" -> 2 [] label = "result" -> 1 [] OTHER -> 0

\* At most so many steps and the call is over.
StepsLeft == PhasesLeft(pc) + Cardinality(due) + Cardinality(returning)

\* A step that ends a phase.
LEMMA PhaseShortensTheCall ==
  ASSUME OrderInv, PhasesLeft(pc') < PhasesLeft(pc), due' = {}, returning' = {}
  PROVE  StepsLeft' \in Nat /\ StepsLeft' < StepsLeft
<1>1. Cardinality(due) \in Nat /\ Cardinality(returning) \in Nat
  BY FS_Subset, FS_CardinalityType DEF OrderInv, Entries, Kept
<1>2. Cardinality(due') = 0 /\ Cardinality(returning') = 0
  BY FS_EmptySet
<1>3. PhasesLeft(pc) \in Nat /\ PhasesLeft(pc') \in Nat
  BY DEF PhasesLeft
<1>4. StepsLeft' = PhasesLeft(pc') + Cardinality(due') + Cardinality(returning')
  BY DEF StepsLeft
<1> HIDE DEF OrderInv
<1> QED
  BY <1>1, <1>2, <1>3, <1>4 DEF StepsLeft

LEMMA ProgressShortensTheCall ==
  ASSUME OrderInv, Progress
  PROVE  StepsLeft' \in Nat /\ StepsLeft' < StepsLeft
<1>1. PhasesInv /\ IsFiniteSet(due) /\ IsFiniteSet(returning)
  BY FS_Subset DEF OrderInv, Entries, Kept
<1>2. ASSUME pc # "begin", pc # "returning", due' = {}, returning' = {},
             PhasesLeft(pc') < PhasesLeft(pc)
      PROVE  StepsLeft' \in Nat /\ StepsLeft' < StepsLeft
  BY <1>2, PhaseShortensTheCall
<1>3. ASSUME NEW entry \in due, ReturnDue(entry)
      PROVE  StepsLeft' \in Nat /\ StepsLeft' < StepsLeft
  <2>1. pc = "begin" /\ returning = {} /\ returning' = {}
    BY <1>1, <1>3 DEF ReturnDue, PhasesInv, Emit, Exit, Leave
  <2>2. CASE due' = {} /\ pc' = "idle"
    <3>1. PhasesLeft(pc') < PhasesLeft(pc)
      BY <2>1, <2>2 DEF PhasesLeft
    <3> QED
      BY <2>1, <2>2, <3>1, PhaseShortensTheCall
  <2>3. CASE due' = due \ {entry} /\ pc' = pc
    <3>1. Cardinality(due') = Cardinality(due) - 1 /\ Cardinality(due) \in Nat
          /\ Cardinality(due') \in Nat
      BY <1>1, <2>3, FS_RemoveElement, FS_CardinalityType
    <3>2. Cardinality(returning) = 0 /\ Cardinality(returning') = 0
      BY <2>1, FS_EmptySet
    <3>3. PhasesLeft(pc) = 5 /\ PhasesLeft(pc') = 5
      BY <2>1, <2>3 DEF PhasesLeft
    <3>4. StepsLeft' = PhasesLeft(pc') + Cardinality(due') + Cardinality(returning')
      BY DEF StepsLeft
    <3> QED
      BY <3>1, <3>2, <3>3, <3>4 DEF StepsLeft
  <2> QED
    BY <1>3, <2>2, <2>3 DEF ReturnDue, Emit, Exit, Leave
<1>4. ASSUME AdvanceMood \/ NoMood
      PROVE  StepsLeft' \in Nat /\ StepsLeft' < StepsLeft
  <2>1. /\ pc = "begin" /\ due = {} /\ returning = {} /\ due' = {} /\ returning' = {}
        /\ pc' \in {"idle", "dispatch"}
    BY <1>1, <1>4 DEF PhasesInv, AdvanceMood, NoMood, Emit, Exit, Leave, Goto
  <2>2. PhasesLeft(pc') < PhasesLeft(pc)
    BY <2>1 DEF PhasesLeft
  <2> QED
    BY <2>1, <2>2, PhaseShortensTheCall
<1>5. ASSUME Dispatch \/ Before \/ Backend \/ OnResult
      PROVE  StepsLeft' \in Nat /\ StepsLeft' < StepsLeft
  <2>1. CASE Dispatch
    <3>1. pc = "dispatch" /\ due = {} /\ returning = {} /\ due' = {} /\ returning' = {}
          /\ pc' \in {"idle", "before", "backend"}
      BY <1>1, <2>1 DEF PhasesInv, Dispatch, Passthrough, BeginDecision, Exit, Leave, Continue
    <3>2. PhasesLeft(pc') < PhasesLeft(pc)
      BY <3>1 DEF PhasesLeft
    <3> QED
      BY <3>1, <3>2, PhaseShortensTheCall
  <2>2. CASE Before
    <3>1. pc = "before" /\ due = {} /\ returning = {}
      BY <1>1, <2>2 DEF PhasesInv, Before, RaiseBefore, Delay, PassBefore
    <3>2. due' = {} /\ returning' = {} /\ pc' \in {"idle", "backend"}
      BY <2>2, <3>1 DEF Before, RaiseBefore, Delay, PassBefore, Emit, Inject, Debugged, Exit,
         Leave, Continue
    <3>3. PhasesLeft(pc') < PhasesLeft(pc)
      BY <3>1, <3>2 DEF PhasesLeft
    <3> QED
      BY <3>2, <3>3, PhaseShortensTheCall
  <2>3. CASE Backend
    <3>1. pc = "backend" /\ due = {} /\ returning = {}
      BY <1>1, <2>3 DEF PhasesInv, Backend, BackendRaises, ExceedCap, BackendReturns
    <3>2. due' = {} /\ returning' = {} /\ pc' \in {"idle", "result"}
      BY <2>3, <3>1 DEF Backend, BackendRaises, ExceedCap, BackendReturns, Emit, Debugged,
         Exit, Leave, Continue
    <3>3. PhasesLeft(pc') < PhasesLeft(pc)
      BY <3>1, <3>2 DEF PhasesLeft
    <3> QED
      BY <3>2, <3>3, PhaseShortensTheCall
  <2>4. CASE OnResult
    <3>1. pc = "result"
      BY <2>4 DEF OnResult, SkipOnResult, ExceedInterventionLimit, LoseResponse, HideTreasures,
         PastNoDrop, Choose, Stash, StashRefused, Reshape, Replay, DeliverWhole
    <3>2. due' = {} /\ returning' = {} /\ pc' = "idle"
      BY <2>4 DEF OnResult, SkipOnResult, ExceedInterventionLimit, LoseResponse, HideTreasures,
         Stash, StashRefused, Reshape, Replay, DeliverWhole, Inject, Emit, Debugged, Exit,
         Deliver, Leave
    <3>3. PhasesLeft(pc') < PhasesLeft(pc)
      BY <3>1, <3>2 DEF PhasesLeft
    <3> QED
      BY <3>2, <3>3, PhaseShortensTheCall
  <2> QED
    BY <1>5, <2>1, <2>2, <2>3, <2>4
<1>6. ASSUME NEW t \in returning, LogReturned(t)
      PROVE  StepsLeft' \in Nat /\ StepsLeft' < StepsLeft
  <2>1. pc = "returning" /\ due = {} /\ due' = {} /\ pc' \in {"returning", "idle"}
    BY <1>1, <1>6 DEF LogReturned, PhasesInv, Emit, Exit, Leave
  <2>2. returning' \in {{}, returning \ {t}}
    BY <1>6 DEF LogReturned, Emit, Exit, Leave
  <2>3. /\ Cardinality(returning \ {t}) = Cardinality(returning) - 1
        /\ Cardinality(returning) \in Nat /\ Cardinality(returning \ {t}) \in Nat
    BY <1>1, FS_RemoveElement, FS_CardinalityType
  <2>4. Cardinality({}) = 0
    BY FS_EmptySet
  <2>5. Cardinality(returning') \in Nat /\ Cardinality(returning') < Cardinality(returning)
    BY <2>2, <2>3, <2>4
  <2>6. PhasesLeft(pc) = 0 /\ PhasesLeft(pc') = 0
    BY <2>1 DEF PhasesLeft
  <2>7. StepsLeft' = PhasesLeft(pc') + Cardinality(due') + Cardinality(returning')
    BY DEF StepsLeft
  <2> QED
    BY <2>1, <2>3, <2>4, <2>5, <2>6, <2>7 DEF StepsLeft
<1> QED
  BY <1>3, <1>4, <1>5, <1>6 DEF Progress, Begin

\* Every step brings the call nearer to its end: a call that begins with n
\* entries due is over after n + 5 steps at most, return_all after one for each
\* treasure, whatever fails (connection.py, _begin_operation, execute,
\* return_all).  With OneIsAlwaysNext this is what EveryCallEnds rests on.
THEOREM EveryStepShortensTheCall ==
  Spec => [][Progress => StepsLeft' \in Nat /\ StepsLeft' < StepsLeft]_vars
<1>1. OrderInv /\ [Next]_vars =>
        [Progress => StepsLeft' \in Nat /\ StepsLeft' < StepsLeft]_vars
  BY ProgressShortensTheCall
<1> QED
  BY <1>1, OrderInvariant, PTL DEF Spec

-----------------------------------------------------------------------------
(* The house and the schedule *)

ScheduleInv ==
  /\ pc # "begin" => due = {}
  /\ pc # "returning" => returning = {}
  /\ pc = "returning" => treasures = {}
  /\ \A t, u \in Kept : TreasureId(t) = TreasureId(u) => t = u
  /\ \A s, u \in scheduled \cup due : s.id = u.id => s = u
  /\ scheduled \cap due = {}
  /\ ScheduleMatchesHouse

-----------------------------------------------------------------------------
(* The steps of a session *)

\* A step of an operation that leaves the house and the schedule alone.
LEMMA QuietKeepsScheduleInv ==
  ASSUME ScheduleInv, UNCHANGED <<treasures, scheduled>>, due = {}, returning = {},
         due' = {}, returning' = {}, pc' \notin {"returning"}
  PROVE  ScheduleInv'
BY DEF ScheduleInv, Kept, ScheduleMatchesHouse, Ids, TreasureId

\* A treasure and its entry leave together.
LEMMA RemovalKeepsScheduleInv ==
  ASSUME ScheduleInv, NEW t \in Kept,
         Kept' = Kept \ {t},
         AutoReturnOn => (scheduled \cup due)' =
                           {s \in scheduled \cup due : s.id # TreasureId(t)},
         ~AutoReturnOn => (scheduled \cup due)' \subseteq scheduled \cup due,
         scheduled' \cap due' = {},
         pc' # "begin" => due' = {},
         pc' # "returning" => returning' = {},
         pc' = "returning" => treasures' = {}
  PROVE  ScheduleInv'
<1>1. \A u, w \in Kept' : TreasureId(u)' = TreasureId(w)' => u = w
  BY DEF ScheduleInv, TreasureId
<1>2. \A s, u \in (scheduled \cup due)' : s.id = u.id => s = u
  BY DEF ScheduleInv
<1>3. ScheduleMatchesHouse'
  <2> SUFFICES ASSUME AutoReturnOn
               PROVE  Ids((scheduled \cup due)') = {TreasureId(u) : u \in Kept'}
    BY DEF ScheduleMatchesHouse, Kept, Ids, TreasureId
  <2>1. Ids(scheduled \cup due) = {TreasureId(u) : u \in Kept}
    BY DEF ScheduleInv, ScheduleMatchesHouse, Kept
  <2>2. \A u \in Kept : TreasureId(u) = TreasureId(t) => u = t
    BY DEF ScheduleInv
  <2>3. Ids((scheduled \cup due)') = Ids(scheduled \cup due) \ {TreasureId(t)}
    BY DEF Ids
  <2> HIDE DEF Kept
  <2>4. {TreasureId(u) : u \in Kept'} = {TreasureId(u) : u \in Kept} \ {TreasureId(t)}
    BY <2>2
  <2> QED
    BY <2>1, <2>3, <2>4
<1> QED
  BY <1>1, <1>2, <1>3 DEF ScheduleInv

\* A treasure comes to the house with an entry of its own.
LEMMA StashKeepsScheduleInv ==
  ASSUME TypeOK, ScheduleInv, NEW row, Stash(row)
  PROVE  ScheduleInv'
<1> DEFINE t == NewTreasure(row)
<1>1. pc = "result" /\ due = {} /\ returning = {} /\ pc' = "idle" /\ due' = {} /\ returning' = {}
  BY DEF Stash, Choose, PastNoDrop, ScheduleInv, Inject, Deliver, Exit, Leave
<1>2. treasures' = treasures \cup {t}
  BY DEF Stash, HouseAdd
<1>3. \A u \in treasures : u.template # t.template
  BY DEF Stash, Choose, ActiveFor, NewTreasure
<1>4. \A u \in treasures : TreasureId(u) # TreasureId(t)
  BY <1>3 DEF TreasureId
<1> HIDE DEF t
<1>5. \A u, w \in Kept' : TreasureId(u) = TreasureId(w) => u = w
  BY <1>1, <1>2, <1>4 DEF Kept, ScheduleInv
<1>6. CASE AutoReturnOn
  <2>1. PICK hold \in MinHold .. MaxHold : Schedule(TreasureId(t), hold)
    BY <1>6 DEF Stash, t
  <2> DEFINE entry == [id |-> TreasureId(t), due |-> currentTick + hold,
                       order |-> nextOrder + 1]
  <2>2. scheduled' = Without(TreasureId(t)) \cup {entry} /\ entry.id = TreasureId(t)
    BY <2>1 DEF Schedule
  <2> HIDE DEF entry
  <2>3. Ids(scheduled) = {TreasureId(u) : u \in treasures}
    BY <1>1, <1>6 DEF ScheduleInv, ScheduleMatchesHouse, Kept
  <2>4. Without(TreasureId(t)) = scheduled
    BY <1>4, <2>3 DEF Without, Ids
  <2>5. Ids(scheduled') = {TreasureId(u) : u \in treasures'}
    BY <1>2, <2>2, <2>3, <2>4 DEF Ids
  <2>6. \A s, u \in scheduled' : s.id = u.id => s = u
    BY <1>1, <1>4, <2>2, <2>3, <2>4 DEF ScheduleInv, Ids
  <2>7. ScheduleMatchesHouse'
    BY <1>1, <2>5 DEF ScheduleMatchesHouse, Ids, TreasureId
  <2> QED
    BY <1>1, <1>5, <2>6, <2>7 DEF ScheduleInv, TreasureId
<1>7. CASE ~AutoReturnOn
  <2>1. UNCHANGED scheduled
    BY <1>7 DEF Stash, scheduleVars
  <2> QED
    BY <1>1, <1>5, <1>7, <2>1 DEF ScheduleInv, ScheduleMatchesHouse, TreasureId
<1> QED
  BY <1>6, <1>7

-----------------------------------------------------------------------------
LEMMA NextKeepsScheduleInv ==
  ASSUME ~LogMayFail, TypeOK, ScheduleInv, [Next]_vars
  PROVE  ScheduleInv'
<1>1. ASSUME NEW call \in Calls, NEW template, Call(call[1], call[2], template)
      PROVE  ScheduleInv'
  <2>1. /\ pc = "idle" /\ due = {} /\ returning = {} /\ pc' = "begin"
        /\ UNCHANGED <<treasures, returning>>
    BY <1>1 DEF Call, ScheduleInv, houseVars
  <2>2. scheduled' \cup due' = scheduled \cup due /\ scheduled' \cap due' = {}
    BY <1>1, <2>1 DEF Call, ScheduleAdvance, Due, scheduleVars
  <2>3. ScheduleMatchesHouse'
    BY <2>1, <2>2 DEF ScheduleInv, ScheduleMatchesHouse, TreasureId
  <2>4. \A s, u \in scheduled' \cup due' : s.id = u.id => s = u
    BY <2>2 DEF ScheduleInv
  <2>5. \A t, u \in Kept' : TreasureId(t) = TreasureId(u) => t = u
    BY <2>1 DEF ScheduleInv, Kept
  <2> QED
    BY <2>1, <2>2, <2>3, <2>4, <2>5 DEF ScheduleInv, TreasureId
<1>2. ASSUME NEW entry \in due, ReturnDue(entry)
      PROVE  ScheduleInv'
  <2>1. pc = "begin" /\ returning = {} /\ UNCHANGED <<scheduled, pc, returning>>
    BY <1>2 DEF ReturnDue, ScheduleInv, Emit, RecordFails, scheduleVars
  <2>2. due' = due \ {entry}
    BY <1>2 DEF ReturnDue, Emit, RecordFails
  <2>3. /\ (scheduled \cup due)' = {s \in scheduled \cup due : s.id # entry.id}
        /\ scheduled' \cap due' = {}
    BY <2>1, <2>2 DEF ScheduleInv
  <2>4. ASSUME NEW t \in Holding(entry.id), HouseReturn(t) PROVE ScheduleInv'
    <3>1. t \in Kept /\ TreasureId(t) = entry.id
      BY DEF Holding, Kept
    <3>2. Kept' = Kept \ {t}
      BY <2>1, <2>4 DEF HouseReturn, Kept
    <3> QED
      BY <2>1, <2>3, <3>1, <3>2, RemovalKeepsScheduleInv
  <2>5. CASE Holding(entry.id) = {} /\ UNCHANGED houseVars
    <3>1. ~AutoReturnOn
      <4> SUFFICES ASSUME AutoReturnOn PROVE FALSE
        OBVIOUS
      <4>1. {s.id : s \in scheduled \cup due} = {TreasureId(t) : t \in treasures}
        BY <2>1 DEF ScheduleInv, ScheduleMatchesHouse, Ids
      <4>2. entry.id \in {TreasureId(t) : t \in treasures}
        BY <4>1
      <4> QED
        BY <2>5, <4>2 DEF Holding
    <3> QED
      BY <2>1, <2>2, <2>5, <3>1 DEF ScheduleInv, Kept, ScheduleMatchesHouse, houseVars, TreasureId
  <2> QED
    BY <1>2, <2>4, <2>5 DEF ReturnDue
<1>3. CASE AdvanceMood \/ NoMood \/ Dispatch \/ Before \/ Backend
  <2>1. /\ UNCHANGED <<treasures, scheduled>> /\ due = {} /\ returning = {}
    BY <1>3 DEF AdvanceMood, NoMood, Dispatch, Passthrough, BeginDecision, Before, RaiseBefore,
       Delay, PassBefore, Backend, BackendRaises, ExceedCap, BackendReturns, ScheduleInv,
       houseVars, scheduleVars
  <2>2. due' = {} /\ returning' = {} /\ pc' # "returning"
    <3>1. CASE AdvanceMood \/ NoMood
      BY <2>1, <3>1 DEF AdvanceMood, NoMood, Goto, Exit, Leave, Emit
    <3>2. CASE Dispatch
      BY <2>1, <3>2 DEF Dispatch, Passthrough, BeginDecision, Exit, Leave, Continue
    <3>3. CASE Before
      BY <2>1, <3>3 DEF Before, RaiseBefore, Delay, PassBefore, Inject, Emit, Exit, Leave,
         Continue, Debugged
    <3>4. CASE Backend
      BY <2>1, <3>4 DEF Backend, BackendRaises, ExceedCap, BackendReturns, Emit, Exit, Leave,
         Continue, Debugged
    <3> QED
      BY <1>3, <3>1, <3>2, <3>3, <3>4
  <2> QED
    BY <2>1, <2>2, QuietKeepsScheduleInv
<1>4. CASE OnResult
  <2>1. ASSUME NEW row, Stash(row) PROVE ScheduleInv'
    BY <2>1, StashKeepsScheduleInv
  <2>2. ASSUME ~\E row : Stash(row) PROVE ScheduleInv'
    <3>1. UNCHANGED <<treasures, scheduled>> /\ due = {} /\ returning = {}
      BY <1>4, <2>2 DEF OnResult, SkipOnResult, ExceedInterventionLimit, LoseResponse,
         HideTreasures, PastNoDrop, Choose, StashRefused, Reshape, Replay, DeliverWhole,
         ScheduleInv, houseVars, scheduleVars
    <3>2. due' = {} /\ returning' = {} /\ pc' = "idle"
      BY <1>4, <2>2 DEF OnResult, SkipOnResult, ExceedInterventionLimit, LoseResponse,
         HideTreasures, StashRefused, Reshape, Replay, DeliverWhole, Inject, Emit, Debugged,
         Exit, Deliver, Leave
    <3> QED
      BY <3>1, <3>2, QuietKeepsScheduleInv
  <2> QED
    BY <2>1, <2>2
<1>5. ASSUME NEW t \in returning, LogReturned(t)
      PROVE  ScheduleInv'
  <2>1. /\ pc = "returning" /\ treasures = {} /\ due = {}
        /\ treasures' = {} /\ due' = {} /\ returning' = returning \ {t}
        /\ pc' = (IF returning = {t} THEN "idle" ELSE "returning")
    BY <1>5 DEF LogReturned, ScheduleInv, Emit, RecordFails, houseVars
  <2>2. AutoReturnOn => scheduled' = {s \in scheduled : s.id # TreasureId(t)}
    BY <1>5 DEF LogReturned, ScheduleCancel, Without
  <2>3. ~AutoReturnOn => UNCHANGED scheduled
    BY <1>5 DEF LogReturned, scheduleVars
  <2>4. t \in Kept /\ Kept' = Kept \ {t}
    BY <2>1 DEF Kept
  <2> QED
    BY <2>1, <2>2, <2>3, <2>4, RemovalKeepsScheduleInv
<1>6. ASSUME NEW id, ReturnTreasure(id)
      PROVE  ScheduleInv'
  <2>1. /\ pc = "idle" /\ due = {} /\ returning = {}
        /\ pc' = "idle" /\ due' = {} /\ returning' = {}
    BY <1>6 DEF ReturnTreasure, ScheduleInv, Emit, RecordFails, Exit, Leave, callVars
  <2>2. AutoReturnOn => scheduled' = {s \in scheduled : s.id # id}
    BY <1>6 DEF ReturnTreasure, ScheduleCancel, Without
  <2>3. ~AutoReturnOn => UNCHANGED scheduled
    BY <1>6 DEF ReturnTreasure, scheduleVars
  <2>4. ASSUME NEW t \in Holding(id), HouseReturn(t) PROVE ScheduleInv'
    <3>1. t \in Kept /\ TreasureId(t) = id /\ Kept' = Kept \ {t}
      BY <2>1, <2>4 DEF Holding, HouseReturn, Kept
    <3> QED
      BY <2>1, <2>2, <2>3, <3>1, RemovalKeepsScheduleInv
  <2>5. CASE Holding(id) = {} /\ UNCHANGED houseVars
    <3>1. AutoReturnOn => scheduled' = scheduled
      <4> SUFFICES ASSUME AutoReturnOn PROVE scheduled' = scheduled
        OBVIOUS
      <4>1. {s.id : s \in scheduled} = {TreasureId(t) : t \in treasures}
        BY <2>1 DEF ScheduleInv, ScheduleMatchesHouse, Ids
      <4>2. \A t \in treasures : TreasureId(t) # id
        BY <2>5 DEF Holding
      <4>3. \A s \in scheduled : s.id # id
        BY <4>1, <4>2
      <4> QED
        BY <2>2, <4>3
    <3>2. UNCHANGED <<treasures, scheduled>>
      BY <2>3, <2>5, <3>1 DEF houseVars
    <3> QED
      BY <2>1, <3>2, QuietKeepsScheduleInv
  <2> QED
    BY <1>6, <2>4, <2>5 DEF ReturnTreasure
<1>7. CASE ReturnAll
  <2>1. /\ returning = {} /\ due = {} /\ treasures' = {} /\ returning' = treasures
        /\ pc' = "returning" /\ UNCHANGED <<scheduled, due>>
    BY <1>7 DEF ReturnAll, HouseReturnAll, ScheduleInv, scheduleVars
  <2>2. Kept' = Kept
    BY <2>1 DEF Kept
  <2> QED
    BY <2>1, <2>2 DEF ScheduleInv, ScheduleMatchesHouse, Kept, Ids, TreasureId
<1>8. CASE Crash
  BY <1>8 DEF Crash, ScheduleInv, ScheduleMatchesHouse, Kept, Ids
<1>9. CASE UNCHANGED vars
  BY <1>9 DEF vars, houseVars, scheduleVars, callVars, ScheduleInv, ScheduleMatchesHouse,
     Kept, Ids, TreasureId
<1> QED
  BY <1>1, <1>2, <1>3, <1>4, <1>5, <1>6, <1>7, <1>8, <1>9
     DEF Next, Progress, Begin, Client

LEMMA ScheduleInvInit == Init => ScheduleInv
BY DEF Init, HouseInit, ScheduleInit, ScheduleInv, ScheduleMatchesHouse, Kept, Ids

\* With a log that can be written, the schedule and the house tell of the same
\* treasures at every step, over any mix of automatic returns, returns by hand
\* and restarts (connection.py, _begin_operation, return_treasure, return_all).
THEOREM ScheduleAlwaysMatches ==
  ASSUME ~LogMayFail
  PROVE  Spec => []ScheduleMatchesHouse
<1>1. TypeOK /\ ScheduleInv /\ [Next]_vars => ScheduleInv'
  BY NextKeepsScheduleInv
<1>2. ScheduleInv => ScheduleMatchesHouse
  BY DEF ScheduleInv
<1> QED
  BY <1>1, <1>2, TypeCorrect, ScheduleInvInit, PTL DEF Spec

\* While the call is still at its beginning only returns are recorded.
LEMMA BeginningRecordsReturns ==
  ASSUME [Next]_vars, log \in Seq(Event), log' # log, pc' = "begin"
  PROVE  log'[Len(log')].name = "RETURN"
<1> USE DEF Emit, Inject, Debugged, Exit, Leave, Goto, Continue
<1>1. CASE Begin
  <2>1. ASSUME NEW entry, ReturnDue(entry) PROVE log'[Len(log')].name = "RETURN"
    <3>1. PICK t : log' = Append(log, Returned(t, "auto_return"))
      BY <2>1 DEF ReturnDue, Record, RecordFails, logVars
    <3>2. log'[Len(log')] = Returned(t, "auto_return")
      BY <3>1
    <3> QED
      BY <3>2 DEF Returned, TreasureEventOf
  <2> QED
    BY <1>1, <2>1 DEF Begin, AdvanceMood, NoMood
<1>2. CASE Dispatch
  BY <1>2 DEF Dispatch, Passthrough, BeginDecision
<1>3. CASE Before
  BY <1>3 DEF Before, RaiseBefore, Delay, PassBefore
<1>4. CASE Backend
  BY <1>4 DEF Backend, BackendRaises, ExceedCap, BackendReturns
<1>5. CASE OnResult
  BY <1>5 DEF OnResult, SkipOnResult, ExceedInterventionLimit, LoseResponse, HideTreasures,
     Stash, StashRefused, Reshape, Replay, DeliverWhole, Deliver
<1>6. ASSUME NEW t, LogReturned(t) PROVE log'[Len(log')].name = "RETURN"
  BY <1>6 DEF LogReturned
<1>7. CASE Client
  BY <1>7 DEF Client, Call, ReturnTreasure, ReturnAll, callVars, logVars
<1>8. CASE Crash
  BY <1>8 DEF Crash
<1>9. CASE UNCHANGED vars
  BY <1>9 DEF vars, logVars
<1> QED
  BY <1>1, <1>2, <1>3, <1>4, <1>5, <1>6, <1>7, <1>8, <1>9 DEF Next, Progress

\* With a log that can be written no operation records its mood or a verdict
\* while a treasure is in the house that is due by now, for any holds and any
\* returns by hand in between (connection.py, _begin_operation).
THEOREM ReturnsAlwaysComeFirst ==
  ASSUME ~LogMayFail
  PROVE  Spec => ReturnsComeFirst
<1>1. TypeOK /\ ScheduleInv /\ [Next]_vars => ScheduleInv'
  BY NextKeepsScheduleInv
<1>2. Init => DeadlineInv
  BY DEF Init, ScheduleInit, DeadlineInv, NoTreasureOverstays
<1>3. TypeOK /\ DeadlineInv /\ [Next]_vars => DeadlineInv'
  BY NextIsScheduleStep, DeadlineInvStep DEF TypeOK
<1>4. ASSUME TypeOK, ScheduleInv', DeadlineInv', [Next]_vars, AutoReturnOn, log' # log,
             log'[Len(log')].name # "RETURN", NEW t \in treasures'
      PROVE  \E s \in scheduled' : s.id = TreasureId(t) /\ tick' < s.due
  <2>1. due' = {}
    BY <1>4, BeginningRecordsReturns DEF ScheduleInv, TypeOK, LogTypeOK
  <2>2. TreasureId(t) \in Ids(scheduled \cup due)'
    BY <1>4 DEF ScheduleInv, ScheduleMatchesHouse
  <2>3. PICK s \in scheduled' : s.id = TreasureId(t)
    BY <2>1, <2>2 DEF Ids
  <2> QED
    BY <1>4, <2>3 DEF DeadlineInv, NoTreasureOverstays
<1> QED
  <2>1. TypeOK /\ ScheduleInv' /\ DeadlineInv' /\ [Next]_vars
          => [(AutoReturnOn /\ log' # log /\ log'[Len(log')].name # "RETURN") =>
                \A t \in treasures' :
                  \E s \in scheduled' : s.id = TreasureId(t) /\ tick' < s.due]_vars
    BY <1>4
  <2> QED
    BY <1>1, <1>2, <1>3, <2>1, TypeCorrect, ScheduleInvInit, PTL DEF Spec, ReturnsComeFirst

-----------------------------------------------------------------------------
(* The house and the log *)

TreasureNames == {"STASH", "RETURN"}

\* The steps of a session, as rebuild_house sees them.
LedgerStays ==
  /\ Kept' = Kept
  /\ \/ UNCHANGED log
     \/ \E e : e.name \notin TreasureNames /\ log' = Append(log, e)

LedgerLoses(t) ==
  /\ t \in Kept /\ Kept' = Kept \ {t}
  /\ \E e : e.name = "RETURN" /\ SameTreasure(e, t) /\ log' = Append(log, e)

LedgerGains(t) ==
  /\ Kept' = Kept \cup {t}
  /\ \A u \in Kept : u.template # t.template
  /\ \E e : /\ e.name = "STASH" /\ SameTreasure(e, t) /\ TreasureOf(e) = t
            /\ log' = Append(log, e)

LedgerStep == LedgerStays \/ \E t : LedgerLoses(t) \/ LedgerGains(t)

LEMMA NextIsLedgerStep ==
  ASSUME ~LogMayFail, ~MayCrash, TypeOK, ScheduleInv, [Next]_vars
  PROVE  LedgerStep
<1> USE DEF Emit, Inject, Record, RecordFails, LedgerStep, TreasureNames
<1>1. ASSUME Begin PROVE LedgerStep
  <2>1. ASSUME NEW entry, ReturnDue(entry), NEW t \in Holding(entry.id), HouseReturn(t),
               Emit(Returned(t, "auto_return"), UNCHANGED returning)
        PROVE  LedgerLoses(t)
    BY <2>1 DEF ReturnDue, Returned, TreasureEventOf, Holding, HouseReturn, ScheduleInv, Kept,
       LedgerLoses, SameTreasure
  <2>2. ASSUME NEW entry, ReturnDue(entry) PROVE LedgerStep
    <3>1. \/ UNCHANGED <<log, treasures, returning>>
          \/ \E t \in Holding(entry.id) :
               HouseReturn(t) /\ Emit(Returned(t, "auto_return"), UNCHANGED returning)
      BY <2>2 DEF ReturnDue, houseVars, logVars
    <3> QED
      BY <2>1, <2>2, <3>1 DEF LedgerStays, Kept
  <2>3. ASSUME AdvanceMood PROVE LedgerStays
    BY <2>3 DEF AdvanceMood, MoodChanged, Goto, Exit, Leave, LedgerStays, Kept, ScheduleInv,
       logVars, houseVars
  <2>4. ASSUME NoMood PROVE LedgerStays
    BY <2>4 DEF NoMood, Goto, LedgerStays, Kept, logVars, houseVars
  <2> QED
    BY <1>1, <2>2, <2>3, <2>4 DEF Begin
<1>2. ASSUME Dispatch PROVE LedgerStays
  BY <1>2 DEF Dispatch, Passthrough, BeginDecision, Continue, Exit, Leave, LedgerStays, Kept,
     ScheduleInv, logVars, houseVars
<1>3. ASSUME Before PROVE LedgerStays
  <2>1. \A fault \in BeforeExecuteErrors : fault \notin TreasureNames
    BY DEF BeforeExecuteErrors
  <2> QED
    BY <1>3, <2>1 DEF Before, RaiseBefore, Delay, PassBefore, Debugged, Injected,
       DecisionEvaluated, OperationEventOf, Continue, Exit, Leave, LedgerStays, Kept,
       ScheduleInv, logVars, houseVars
<1>4. ASSUME Backend PROVE LedgerStays
  BY <1>4 DEF Backend, BackendRaises, ExceedCap, BackendReturns, Debugged, LimitExceeded,
     DecisionEvaluated, OperationEventOf, Continue, Exit, Leave, LedgerStays, Kept,
     ScheduleInv, logVars, houseVars
<1>5. ASSUME OnResult PROVE LedgerStep
  <2> USE DEF Deliver, Exit, Leave, Kept, ScheduleInv, logVars, houseVars
  <2>1. ASSUME SkipOnResult \/ HideTreasures PROVE LedgerStays
    BY <2>1 DEF SkipOnResult, HideTreasures, PastNoDrop, LedgerStays
  <2>2. ASSUME ExceedInterventionLimit PROVE LedgerStays
    BY <2>2 DEF ExceedInterventionLimit, LimitExceeded, OperationEventOf, LedgerStays
  <2>3. ASSUME LoseResponse PROVE LedgerStays
    BY <2>3 DEF LoseResponse, Injected, OperationEventOf, LedgerStays
  <2>4. ASSUME NEW row, Stash(row) PROVE LedgerGains(NewTreasure(row))
    BY <2>4 DEF Stash, Choose, PastNoDrop, ActiveFor, HouseAdd, NewTreasure,
       TreasureEventOf, TreasureOf, SameTreasure, LedgerGains
  <2>5. ASSUME NEW row, StashRefused(row) PROVE LedgerStays
    BY <2>5 DEF StashRefused, Choose, PastNoDrop, LedgerStays
  <2>6. ASSUME NEW fault \in Members(OnResultPriority), Reshape(fault) PROVE LedgerStays
    <3>1. fault \notin TreasureNames
      BY <2>6 DEF Members, OnResultPriority, Reshape
    <3> QED
      BY <2>6, <3>1 DEF Reshape, Choose, PastNoDrop, Injected, OperationEventOf, LedgerStays
  <2>7. ASSUME NEW entry, Replay(entry) PROVE LedgerStays
    BY <2>7 DEF Replay, Choose, PastNoDrop, StaleEventOf, LedgerStays
  <2>8. ASSUME DeliverWhole PROVE LedgerStays
    BY <2>8 DEF DeliverWhole, Choose, PastNoDrop, Debugged, DecisionEvaluated,
       OperationEventOf, LedgerStays
  <2> HIDE DEF Emit, Inject, Record, RecordFails, Exit, Leave, Deliver, Kept, ScheduleInv
  <2> QED
    BY <1>5, <2>1, <2>2, <2>3, <2>4, <2>5, <2>6, <2>7, <2>8 DEF OnResult
<1>6. ASSUME NEW t \in returning, LogReturned(t) PROVE LedgerLoses(t)
  BY <1>6 DEF LogReturned, Returned, TreasureEventOf, Kept, ScheduleInv, LedgerLoses,
     SameTreasure, houseVars
<1>7. ASSUME Client PROVE LedgerStep
  <2>1. ASSUME NEW method, NEW params, NEW template, Call(method, params, template)
        PROVE  LedgerStays
    BY <2>1 DEF Call, LedgerStays, Kept, logVars, houseVars
  <2>2. ASSUME NEW id, ReturnTreasure(id), NEW t \in Holding(id), HouseReturn(t),
               Emit(Returned(t, "manual_return"), Exit(delivered))
        PROVE  LedgerLoses(t)
    BY <2>2 DEF ReturnTreasure, Returned, TreasureEventOf, Holding, HouseReturn, ScheduleInv,
       Kept, LedgerLoses, SameTreasure, Exit, Leave
  <2>3. ASSUME NEW id, ReturnTreasure(id) PROVE LedgerStep
    <3>1. \/ UNCHANGED <<log, treasures, returning>>
          \/ \E t \in Holding(id) :
               HouseReturn(t) /\ Emit(Returned(t, "manual_return"), Exit(delivered))
      BY <2>3 DEF ReturnTreasure, houseVars, logVars, callVars
    <3> QED
      BY <2>2, <2>3, <3>1 DEF LedgerStays, Kept
  <2>4. ASSUME ReturnAll PROVE LedgerStays
    BY <2>4 DEF ReturnAll, HouseReturnAll, LedgerStays, Kept, ScheduleInv, logVars
  <2> QED
    BY <1>7, <2>1, <2>3, <2>4 DEF Client
<1>8. ASSUME UNCHANGED vars PROVE LedgerStays
  BY <1>8 DEF vars, logVars, houseVars, callVars, LedgerStays, Kept
<1> QED
  BY <1>1, <1>2, <1>3, <1>4, <1>5, <1>6, <1>7, <1>8 DEF Next, Progress, Crash

\* The stashes whose treasure no later event is about.
Standing ==
  {k \in TreasureEvents :
     /\ log[k].name = "STASH"
     /\ \A j \in TreasureEvents : j > k => ~SameTreasure(log[j], log[k])}

\* What an append adds to the treasure events.
LEMMA AppendTreasureEvent ==
  ASSUME LogTypeOK, NEW e, log' = Append(log, e)
  PROVE  /\ \A i \in TreasureEvents : i \in DOMAIN log /\ i < Len(log) + 1 /\ log'[i] = log[i]
         /\ log'[Len(log) + 1] = e
         /\ TreasureEvents' = TreasureEvents \cup
              (IF e.name \in TreasureNames THEN {Len(log) + 1} ELSE {})
<1>1. DOMAIN log = 1 .. Len(log) /\ Len(log) \in Nat
  BY DEF LogTypeOK
<1>2. DOMAIN log' = 1 .. (Len(log) + 1)
  BY DEF LogTypeOK
<1>3. \A i \in DOMAIN log : log'[i] = log[i] /\ i < Len(log) + 1
  BY <1>1 DEF LogTypeOK
<1>4. log'[Len(log) + 1] = e
  BY DEF LogTypeOK
<1>5. DOMAIN log' = DOMAIN log \cup {Len(log) + 1}
  BY <1>1, <1>2
<1> QED
  BY <1>3, <1>4, <1>5 DEF TreasureEvents, TreasureNames

LEMMA LedgerStepKeepsProjection ==
  ASSUME LogTypeOK, ScheduleInv, RebuiltHouse = Kept, LedgerStep
  PROVE  RebuiltHouse' = Kept'
<1> DEFINE last == Len(log) + 1
<1>1. RebuiltHouse = {TreasureOf(log[k]) : k \in Standing}
  BY DEF RebuiltHouse, Standing
<1>2. RebuiltHouse' = {TreasureOf(log'[k]) : k \in Standing'}
  BY DEF RebuiltHouse, Standing, TreasureOf, SameTreasure, TreasureEvents
<1>3. CASE LedgerStays
  <2>1. CASE UNCHANGED log
    BY <1>3, <2>1 DEF LedgerStays, RebuiltHouse, TreasureEvents, SameTreasure, TreasureOf
  <2>2. ASSUME NEW e, e.name \notin TreasureNames, log' = Append(log, e)
        PROVE  RebuiltHouse' = Kept'
    <3>1. TreasureEvents' = TreasureEvents /\ \A i \in TreasureEvents : log'[i] = log[i]
      BY <2>2, AppendTreasureEvent
    <3>2. Standing' = Standing /\ \A k \in Standing : log'[k] = log[k]
      BY <3>1 DEF Standing, SameTreasure
    <3> QED
      BY <1>1, <1>2, <1>3, <3>2 DEF LedgerStays, TreasureOf
  <2> QED
    BY <1>3, <2>1, <2>2 DEF LedgerStays
<1>4. ASSUME NEW t, LedgerLoses(t) PROVE RebuiltHouse' = Kept'
  <2>1. PICK e : e.name = "RETURN" /\ SameTreasure(e, t) /\ log' = Append(log, e)
    BY <1>4 DEF LedgerLoses
  <2>2. /\ TreasureEvents' = TreasureEvents \cup {last} /\ log'[last] = e
        /\ \A i \in TreasureEvents : log'[i] = log[i] /\ last > i /\ ~(i > last)
    BY <2>1, AppendTreasureEvent DEF TreasureNames, LogTypeOK, TreasureEvents
  <2> HIDE DEF last
  <2>3. Standing' = {k \in Standing : ~SameTreasure(e, log[k])}
    <3>1. \A k : k \in Standing' <=>
            /\ k \in TreasureEvents'
            /\ log'[k].name = "STASH"
            /\ \A j \in TreasureEvents' : j > k => ~SameTreasure(log'[j], log'[k])
      BY DEF Standing, SameTreasure
    <3>2. ASSUME NEW k \in TreasureEvents
          PROVE  k \in Standing' <=> (k \in Standing /\ ~SameTreasure(e, log[k]))
      BY <2>2, <3>1 DEF Standing
    <3>3. last \notin Standing'
      BY <2>1, <2>2, <3>1
    <3> QED
      BY <2>2, <3>1, <3>2, <3>3 DEF Standing
  <2>4. \A k \in Standing : log'[k] = log[k]
    BY <2>2 DEF Standing
  <2>5. \A k \in Standing : SameTreasure(e, log[k]) <=> TreasureOf(log[k]) = t
    <3> SUFFICES ASSUME NEW k \in Standing
                 PROVE  SameTreasure(e, log[k]) <=> TreasureOf(log[k]) = t
      OBVIOUS
    <3>1. TreasureOf(log[k]) \in Kept /\ t \in Kept
      BY <1>1, <1>4 DEF LedgerLoses
    <3>2. SameTreasure(e, log[k]) <=> TreasureId(TreasureOf(log[k])) = TreasureId(t)
      BY <2>1 DEF SameTreasure, TreasureId, TreasureOf
    <3> QED
      BY <3>1, <3>2 DEF ScheduleInv
  <2>6. RebuiltHouse' = {TreasureOf(log[k]) : k \in {i \in Standing : TreasureOf(log[i]) # t}}
    BY <1>2, <2>3, <2>4, <2>5
  <2> QED
    BY <1>1, <1>4, <2>6 DEF LedgerLoses
<1>5. ASSUME NEW t, LedgerGains(t) PROVE RebuiltHouse' = Kept'
  <2>1. PICK e : /\ e.name = "STASH" /\ SameTreasure(e, t) /\ TreasureOf(e) = t
                 /\ log' = Append(log, e)
    BY <1>5 DEF LedgerGains
  <2>2. /\ TreasureEvents' = TreasureEvents \cup {last} /\ log'[last] = e
        /\ \A i \in TreasureEvents : log'[i] = log[i] /\ last > i /\ ~(i > last)
        /\ ~(last > last)
    BY <2>1, AppendTreasureEvent DEF TreasureNames, LogTypeOK, TreasureEvents
  <2> HIDE DEF last
  <2>3. \A k \in Standing : ~SameTreasure(e, log[k])
    <3> SUFFICES ASSUME NEW k \in Standing
                 PROVE  ~SameTreasure(e, log[k])
      OBVIOUS
    <3>1. TreasureOf(log[k]) \in Kept
      BY <1>1
    <3> QED
      BY <1>5, <2>1, <3>1 DEF LedgerGains, SameTreasure, TreasureOf
  <2>4. Standing' = Standing \cup {last}
    <3>1. \A k : k \in Standing' <=>
            /\ k \in TreasureEvents'
            /\ log'[k].name = "STASH"
            /\ \A j \in TreasureEvents' : j > k => ~SameTreasure(log'[j], log'[k])
      BY DEF Standing, SameTreasure
    <3>2. ASSUME NEW k \in TreasureEvents
          PROVE  k \in Standing' <=> k \in Standing
      BY <2>2, <2>3, <3>1 DEF Standing
    <3>3. last \in Standing'
      BY <2>1, <2>2, <3>1
    <3> QED
      BY <2>2, <3>1, <3>2, <3>3 DEF Standing
  <2>5. \A k \in Standing : log'[k] = log[k]
    BY <2>2 DEF Standing
  <2>6. RebuiltHouse' = {TreasureOf(log[k]) : k \in Standing} \cup {t}
    BY <1>2, <2>1, <2>2, <2>4, <2>5
  <2> QED
    BY <1>1, <1>5, <2>6 DEF LedgerGains
<1> QED
  BY <1>3, <1>4, <1>5 DEF LedgerStep

\* Where every write succeeds and nobody restarts the process, rebuild_house
\* finds in the log the very treasures the house holds, at every step, those
\* return_all is about to log included (house.py, rebuild_house; dolly.py).
THEOREM HouseAlwaysProjection ==
  ASSUME ~LogMayFail, ~MayCrash
  PROVE  Spec => []HouseIsProjection
<1> DEFINE I == ScheduleInv /\ RebuiltHouse = Kept
<1>1. Init => I
  BY ScheduleInvInit DEF Init, HouseInit, LogInit, RebuiltHouse, TreasureEvents, Kept
<1>2. TypeOK /\ I /\ [Next]_vars => I'
  BY NextKeepsScheduleInv, NextIsLedgerStep, LedgerStepKeepsProjection DEF TypeOK
<1>3. I => HouseIsProjection
  BY DEF HouseIsProjection, Kept
<1> QED
  BY <1>1, <1>2, <1>3, TypeCorrect, PTL DEF Spec

-----------------------------------------------------------------------------
(* The mood, its clock and the log *)

\* Both clocks move once in each call, the one of the session first.
ClocksAgree == MoodOn => tick = IF pc = "begin" THEN moodTick + 1 ELSE moodTick

MoodStays ==
  /\ UNCHANGED mood
  /\ \/ UNCHANGED log
     \/ \E e : e.name # "MOOD" /\ log' = Append(log, e)

MoodMoves ==
  /\ mood' # mood
  /\ \E e : e.name = "MOOD" /\ e.from = mood /\ e.to = mood' /\ log' = Append(log, e)

\* What a step does to the clocks: a call is begun, the mood advances, nothing
\* moves, or everything starts again.
ClockStep ==
  \/ pc = "idle" /\ pc' = "begin" /\ moodTick' = moodTick /\ (MoodOn => tick' = tick + 1)
  \/ pc = "begin" /\ pc' # "begin" /\ moodTick' = moodTick + 1 /\ tick' = tick
  \/ UNCHANGED <<tick, moodTick>> /\ pc' = "begin" /\ pc = "begin"
  \/ UNCHANGED <<tick, moodTick>> /\ pc' # "begin" /\ (MoodOn => pc # "begin")
  \/ tick' = 0 /\ moodTick' = 0 /\ pc' # "begin"

LEMMA NextIsMoodStep ==
  ASSUME ~LogMayFail, TypeOK, ClocksAgree, [Next]_vars
  PROVE  ClockStep /\ (MayCrash \/ MoodStays \/ MoodMoves)
<1> DEFINE Goal == ClockStep /\ (MayCrash \/ MoodStays \/ MoodMoves)
<1> USE DEF Emit, Inject, Record, RecordFails, ClockStep, MoodStays, logVars, moodVars
<1>1. ASSUME Begin PROVE Goal
  <2>1. ASSUME NEW entry, ReturnDue(entry) PROVE Goal
    BY <2>1 DEF ReturnDue, Returned, TreasureEventOf
  <2>2. ASSUME AdvanceMood PROVE Goal
    <3>1. PICK next \in Moods :
            /\ MoodAdvance(next)
            /\ \/ next = mood /\ Goto("dispatch") /\ UNCHANGED logVars
               \/ next # mood /\ Emit(MoodChanged(next), Goto("dispatch"))
      BY <2>2 DEF AdvanceMood, ClocksAgree
    <3>2. moodTick' = moodTick + 1 /\ mood' = next /\ tick' = tick /\ pc = "begin"
      BY <2>2, <3>1 DEF AdvanceMood, MoodAdvance
    <3> QED
      BY <3>1, <3>2 DEF MoodChanged, Goto, MoodMoves
  <2>3. ASSUME NoMood PROVE Goal
    BY <2>3 DEF NoMood, Goto
  <2> QED
    BY <1>1, <2>1, <2>2, <2>3 DEF Begin
<1>2. ASSUME Dispatch PROVE Goal
  BY <1>2 DEF Dispatch, Passthrough, BeginDecision, Continue, Exit, Leave
<1>3. ASSUME Before PROVE Goal
  BY <1>3 DEF Before, BeforeExecuteErrors, RaiseBefore, Delay, PassBefore, Debugged, Injected,
     DecisionEvaluated, OperationEventOf, Continue, Exit, Leave
<1>4. ASSUME Backend PROVE Goal
  BY <1>4 DEF Backend, BackendRaises, ExceedCap, BackendReturns, Debugged, LimitExceeded,
     DecisionEvaluated, OperationEventOf, Continue, Exit, Leave
<1>5. ASSUME OnResult PROVE Goal
  <2> USE DEF Deliver, Exit, Leave, Choose, PastNoDrop, OperationEventOf
  <2>1. ASSUME SkipOnResult \/ HideTreasures PROVE Goal
    BY <2>1 DEF SkipOnResult, HideTreasures
  <2>2. ASSUME ExceedInterventionLimit \/ LoseResponse PROVE Goal
    BY <2>2 DEF ExceedInterventionLimit, LimitExceeded, LoseResponse, Injected
  <2>3. ASSUME NEW row, Stash(row) \/ StashRefused(row) PROVE Goal
    BY <2>3 DEF Stash, StashRefused, TreasureEventOf
  <2>4. ASSUME NEW fault \in Members(OnResultPriority), Reshape(fault) PROVE Goal
    <3>1. fault # "MOOD"
      BY DEF Members, OnResultPriority
    <3> QED
      BY <2>4, <3>1 DEF Reshape, Injected
  <2>5. ASSUME NEW entry, Replay(entry) PROVE Goal
    BY <2>5 DEF Replay, StaleEventOf
  <2>6. ASSUME DeliverWhole PROVE Goal
    BY <2>6 DEF DeliverWhole, Debugged, DecisionEvaluated
  <2> HIDE DEF Goal, Emit, Inject, Deliver, Exit, Leave, Choose, PastNoDrop
  <2> QED
    BY <1>5, <2>1, <2>2, <2>3, <2>4, <2>5, <2>6 DEF OnResult
<1>6. ASSUME NEW t, LogReturned(t) PROVE Goal
  BY <1>6 DEF LogReturned, Returned, TreasureEventOf
<1>7. ASSUME Client PROVE Goal
  <2>1. ASSUME NEW method, NEW params, NEW template, Call(method, params, template) PROVE Goal
    BY <2>1 DEF Call, Clocked
  <2>2. ASSUME NEW id, ReturnTreasure(id) PROVE Goal
    BY <2>2 DEF ReturnTreasure, Returned, TreasureEventOf, Exit, Leave, callVars
  <2>3. ASSUME ReturnAll PROVE Goal
    BY <2>3 DEF ReturnAll
  <2> HIDE DEF Goal
  <2> QED
    BY <1>7, <2>1, <2>2, <2>3 DEF Client
<1>8. ASSUME Crash PROVE Goal
  BY <1>8 DEF Crash
<1>9. ASSUME UNCHANGED vars PROVE Goal
  BY <1>9 DEF vars, callVars
<1> HIDE DEF Goal
<1>10. Goal
  BY <1>1, <1>2, <1>3, <1>4, <1>5, <1>6, <1>7, <1>8, <1>9 DEF Next, Progress
<1> QED
  BY <1>10 DEF Goal

LEMMA ClocksStayTogether ==
  ASSUME TypeOK, ClocksAgree, ClockStep
  PROVE  ClocksAgree'
BY DEF TypeOK, MoodTypeOK, ClocksAgree, ClockStep

\* With a log that can be written the assertion of _begin_operation holds, over
\* restarts too: the clock of the mood is the clock of the session.
THEOREM MoodTickAlwaysAgrees ==
  ASSUME ~LogMayFail
  PROVE  Spec => []MoodTickAssertion
<1>1. Init => ClocksAgree
  BY DEF Init, MoodInit, ClocksAgree
<1>2. TypeOK /\ ClocksAgree /\ [Next]_vars => ClocksAgree'
  BY NextIsMoodStep, ClocksStayTogether
<1>3. ClocksAgree => MoodTickAssertion
  BY DEF ClocksAgree, MoodTickAssertion
<1> QED
  BY <1>1, <1>2, <1>3, TypeCorrect, PTL DEF Spec

\* What an append adds to the mood events.
LEMMA AppendMoodEvent ==
  ASSUME LogTypeOK, NEW e, log' = Append(log, e)
  PROVE  /\ \A i \in MoodEvents : i \in Nat /\ i < Len(log) + 1 /\ log'[i] = log[i]
         /\ Len(log) + 1 \in Nat /\ log'[Len(log) + 1] = e
         /\ MoodEvents' = MoodEvents \cup (IF e.name = "MOOD" THEN {Len(log) + 1} ELSE {})
<1>1. DOMAIN log = 1 .. Len(log) /\ Len(log) \in Nat
  BY DEF LogTypeOK
<1>2. DOMAIN log' = 1 .. (Len(log) + 1)
  BY DEF LogTypeOK
<1>3. \A i \in DOMAIN log : log'[i] = log[i] /\ i < Len(log) + 1 /\ i \in Nat
  BY <1>1 DEF LogTypeOK
<1>4. log'[Len(log) + 1] = e /\ Len(log) + 1 \in Nat
  BY <1>1 DEF LogTypeOK
<1>5. DOMAIN log' = DOMAIN log \cup {Len(log) + 1}
  BY <1>1, <1>2
<1> QED
  BY <1>3, <1>4, <1>5 DEF MoodEvents

LEMMA MoodStepKeepsChain ==
  ASSUME LogTypeOK, MoodIsProjection, MoodStays \/ MoodMoves
  PROVE  MoodIsProjection'
<1>1. CASE MoodStays /\ UNCHANGED log
  BY <1>1 DEF MoodStays, MoodIsProjection, MoodEvents
<1>2. ASSUME UNCHANGED mood, NEW e, e.name # "MOOD", log' = Append(log, e)
      PROVE  MoodIsProjection'
  <2>1. MoodEvents' = MoodEvents /\ \A i \in MoodEvents : log'[i] = log[i]
    BY <1>2, AppendMoodEvent
  <2>2. MoodEvents' = {} => mood' = Calm
    BY <1>2, <2>1 DEF MoodIsProjection
  <2>3. ASSUME NEW i \in MoodEvents
        PROVE  LET before == {j \in MoodEvents : j < i}
                   after == {j \in MoodEvents : j > i}
               IN  /\ log'[i].from # log'[i].to
                   /\ before = {} => log'[i].from = Calm
                   /\ after = {} => log'[i].to = mood'
                   /\ after # {} => \E j \in after : /\ \A k \in after : j <= k
                                                     /\ log'[j].from = log'[i].to
    <3> DEFINE before == {j \in MoodEvents : j < i}
               after == {j \in MoodEvents : j > i}
    <3>1. log[i].from # log[i].to
      BY DEF MoodIsProjection
    <3>2. before = {} => log[i].from = Calm
      BY DEF MoodIsProjection
    <3>3. after = {} => log[i].to = mood
      BY DEF MoodIsProjection
    <3>4. after # {} => \E j \in after : /\ \A k \in after : j <= k
                                         /\ log[j].from = log[i].to
      BY DEF MoodIsProjection
    <3>5. log'[i] = log[i] /\ mood' = mood /\ \A j \in after : log'[j] = log[j]
      BY <1>2, <2>1
    <3>6. after # {} => \E j \in after : /\ \A k \in after : j <= k
                                         /\ log'[j].from = log'[i].to
      <4> HIDE DEF after
      <4> QED
        BY <3>4, <3>5
    <3> HIDE DEF before, after
    <3>7. /\ log'[i].from # log'[i].to
          /\ before = {} => log'[i].from = Calm
          /\ after = {} => log'[i].to = mood'
      BY <3>1, <3>2, <3>3, <3>5
    <3> QED
      BY <3>6, <3>7 DEF before, after
  <2> QED
    BY <2>1, <2>2, <2>3 DEF MoodIsProjection
<1>3. ASSUME mood' # mood, NEW e, e.name = "MOOD", e.from = mood, e.to = mood',
             log' = Append(log, e)
      PROVE  MoodIsProjection'
  <2> DEFINE last == Len(log) + 1
  <2>1. /\ MoodEvents' = MoodEvents \cup {last} /\ log'[last] = e /\ last \in Nat
        /\ \A i \in MoodEvents : i \in Nat /\ i < last /\ log'[i] = log[i]
    BY <1>3, AppendMoodEvent
  <2> HIDE DEF last
  <2>2. /\ ~(last < last) /\ ~(last > last) /\ last <= last
        /\ \A i \in MoodEvents : /\ i < last /\ ~(i > last)
                                 /\ last > i /\ ~(last < i) /\ i <= last
    BY <2>1
  <2>3. ASSUME NEW i \in MoodEvents'
        PROVE  LET before == {j \in MoodEvents' : j < i}
                   after == {j \in MoodEvents' : j > i}
               IN  /\ log'[i].from # log'[i].to
                   /\ before = {} => log'[i].from = Calm
                   /\ after = {} => log'[i].to = mood'
                   /\ after # {} => \E j \in after : /\ \A k \in after : j <= k
                                                     /\ log'[j].from = log'[i].to
    <3>1. CASE i = last
      <4>1. {j \in MoodEvents' : j < i} = MoodEvents
        BY <2>1, <2>2, <3>1
      <4>2. {j \in MoodEvents' : j > i} = {}
        BY <2>1, <2>2, <3>1
      <4> QED
        BY <1>3, <2>1, <2>2, <3>1, <4>1, <4>2 DEF MoodIsProjection
    <3>2. CASE i \in MoodEvents /\ {j \in MoodEvents : j > i} = {}
      <4>1. {j \in MoodEvents' : j < i} = {j \in MoodEvents : j < i}
        BY <2>1, <2>2, <3>2
      <4>2. {j \in MoodEvents' : j > i} = {last}
        BY <2>1, <2>2, <3>2
      <4>3. log[i].to = mood /\ log[i].from # log[i].to
        BY <3>2 DEF MoodIsProjection
      <4>4. {j \in MoodEvents : j < i} = {} => log[i].from = Calm
        BY <3>2 DEF MoodIsProjection
      <4>5. \A k \in {last} : last <= k /\ log'[last].from = log'[i].to
        BY <1>3, <2>1, <2>2, <3>2, <4>3
      <4> QED
        BY <2>1, <2>2, <3>2, <4>1, <4>2, <4>3, <4>4, <4>5
    <3>3. CASE i \in MoodEvents /\ {j \in MoodEvents : j > i} # {}
      <4>1. {j \in MoodEvents' : j < i} = {j \in MoodEvents : j < i}
        BY <2>1, <2>2, <3>3
      <4>2. {j \in MoodEvents' : j > i} = {j \in MoodEvents : j > i} \cup {last}
        BY <2>1, <2>2, <3>3
      <4>3. PICK j \in {n \in MoodEvents : n > i} :
              /\ \A k \in {n \in MoodEvents : n > i} : j <= k
              /\ log[j].from = log[i].to
        BY <3>3 DEF MoodIsProjection
      <4>4. j <= last /\ log'[j].from = log'[i].to
        BY <2>1, <2>2, <3>3, <4>3
      <4>5. log'[i].from # log'[i].to
        BY <2>1, <2>2, <3>3 DEF MoodIsProjection
      <4>6. {n \in MoodEvents : n < i} = {} => log'[i].from = Calm
        BY <2>1, <2>2, <3>3 DEF MoodIsProjection
      <4> QED
        BY <4>1, <4>2, <4>3, <4>4, <4>5, <4>6
    <3> QED
      BY <2>1, <2>2, <3>1, <3>2, <3>3
  <2>4. MoodEvents' # {}
    BY <2>1
  <2> QED
    BY <2>3, <2>4 DEF MoodIsProjection
<1> QED
  BY <1>1, <1>2, <1>3 DEF MoodStays, MoodMoves

\* Where every write succeeds and nobody restarts the process, the mood_changed
\* events are one chain from CALM to the mood, which is CALM while there are none
\* (mood.py, advance; connection.py, _begin_operation).
THEOREM MoodAlwaysProjection ==
  ASSUME ~LogMayFail, ~MayCrash
  PROVE  Spec => []MoodIsProjection
<1> DEFINE I == ClocksAgree /\ MoodIsProjection
<1>1. Init => I
  BY DEF Init, MoodInit, LogInit, ClocksAgree, MoodIsProjection, MoodEvents
<1>2. TypeOK /\ I /\ [Next]_vars => I'
  BY NextIsMoodStep, ClocksStayTogether, MoodStepKeepsChain DEF TypeOK
<1> QED
  BY <1>1, <1>2, TypeCorrect, PTL DEF Spec

-----------------------------------------------------------------------------
(* The order of what one operation records *)

\* The place of the last event that the current operation may have recorded.
Reached ==
  CASE pc = "begin" -> 1
    [] pc \in {"dispatch", "before"} -> 2
    [] pc = "backend" -> IF CappedRead /\ op.slot = "evaluated" THEN 2 ELSE 3
    [] pc = "result" -> 3
    [] OTHER -> 5

\* An event of the operation's own, past all that it has recorded so far, or
\* one more return.
Advances(e) ==
  \/ Place(e) \in 2 .. 4 /\ Reached < Place(e) /\ Place(e) <= Reached'
  \/ /\ Place(e) \in {1, 5} /\ e.name = "RETURN"
     /\ Reached = Place(e) /\ Place(e) <= Reached'

OperationStep ==
  \/ UNCHANGED <<log, tick>> /\ Reached <= Reached'
  \/ UNCHANGED log /\ tick' = tick + 1
  \/ \E e : log' = Append(log, e) /\ Advances(e) /\ UNCHANGED tick

HistoryInv ==
  /\ operations \in Seq(Nat)
  /\ Len(operations) = Len(log)
  /\ \A i \in DOMAIN log :
       /\ operations[i] <= tick
       /\ Place(log[i]) \in 1 .. 5
       /\ Place(log[i]) \in {1, 5} => log[i].name = "RETURN"
       /\ operations[i] = tick => Place(log[i]) <= Reached
  /\ OperationsInOrder

LEMMA PlacesOfEvents ==
  /\ \A type, name, phase :
       name # "MOOD" => Place(OperationEventOf(type, name, phase)) = PlaceOfPhase[phase]
  /\ \A t : /\ Place(Returned(t, "auto_return")) = 1 /\ Returned(t, "auto_return").name = "RETURN"
            /\ Place(Returned(t, "manual_return")) = 5
            /\ Returned(t, "manual_return").name = "RETURN"
            /\ Place(TreasureEventOf("fault_injected", "STASH", "on_result", t)) = 4
  /\ \A next : Place(MoodChanged(next)) = 2
  /\ \A entry : Place(StaleEventOf(entry)) = 4
  /\ PlaceOfPhase["before_execute"] = 3 /\ PlaceOfPhase["on_result"] = 4
BY DEF OperationEventOf, Returned, TreasureEventOf, MoodChanged, StaleEventOf, Place, PlaceOfPhase

LEMMA NextIsOperationStep ==
  ASSUME Clocked, ~MayCrash, TypeOK, [Next]_vars
  PROVE  OperationStep
<1> USE PlacesOfEvents DEF OperationStep, Advances, Reached, Emit, Inject, Record, RecordFails, logVars
<1>1. ASSUME Begin PROVE OperationStep
  <2>1. ASSUME NEW entry, ReturnDue(entry) PROVE OperationStep
    BY <2>1 DEF ReturnDue, Exit, Leave
  <2>2. ASSUME AdvanceMood PROVE OperationStep
    BY <2>2 DEF AdvanceMood, Goto, Exit, Leave
  <2>3. ASSUME NoMood PROVE OperationStep
    BY <2>3 DEF NoMood, Goto
  <2> QED
    BY <1>1, <2>1, <2>2, <2>3 DEF Begin
<1>2. ASSUME Dispatch PROVE OperationStep
  BY <1>2 DEF Dispatch, Passthrough, BeginDecision, Continue, Exit, Leave
<1>3. ASSUME Before PROVE OperationStep
  <2>1. ASSUME NEW fault \in BeforeExecuteErrors, RaiseBefore(fault) PROVE OperationStep
    <3>1. fault # "MOOD"
      BY DEF BeforeExecuteErrors
    <3> QED
      BY <2>1, <3>1 DEF RaiseBefore, Injected, Exit, Leave
  <2>2. pc = "before" => op \in Operation
    BY DEF TypeOK, CallTypeOK
  <2>3. ASSUME Delay PROVE OperationStep
    BY <2>2, <2>3 DEF Delay, Injected, Continue, Exit, Leave, Operation
  <2>4. ASSUME PassBefore PROVE OperationStep
    <3>1. ASSUME Continue("backend", [op EXCEPT !.slot = "evaluated"])
          PROVE  CappedRead' = CappedRead
      BY <2>2, <2>4, <3>1 DEF PassBefore, Continue, CappedRead, ScopedSelect, Scoped, Operation
    <3> QED
      BY <2>2, <2>4, <3>1 DEF PassBefore, Debugged, DecisionEvaluated, Continue, Exit, Leave, Operation
  <2> QED
    BY <1>3, <2>1, <2>3, <2>4 DEF Before
<1>4. ASSUME Backend PROVE OperationStep
  BY <1>4 DEF Backend, BackendRaises, ExceedCap, BackendReturns, Debugged, LimitExceeded,
     DecisionEvaluated, Continue, Exit, Leave
<1>5. ASSUME OnResult PROVE OperationStep
  <2> USE DEF Deliver, Exit, Leave, Choose, PastNoDrop
  <2>1. ASSUME SkipOnResult \/ HideTreasures PROVE OperationStep
    BY <2>1 DEF SkipOnResult, HideTreasures
  <2>2. ASSUME ExceedInterventionLimit \/ LoseResponse PROVE OperationStep
    BY <2>2 DEF ExceedInterventionLimit, LimitExceeded, LoseResponse, Injected
  <2>3. ASSUME NEW row, Stash(row) \/ StashRefused(row) PROVE OperationStep
    BY <2>3 DEF Stash, StashRefused
  <2>4. ASSUME NEW fault \in Members(OnResultPriority), Reshape(fault) PROVE OperationStep
    <3>1. fault # "MOOD"
      BY DEF Members, OnResultPriority
    <3> QED
      BY <2>4, <3>1 DEF Reshape, Injected
  <2>5. ASSUME NEW entry, Replay(entry) PROVE OperationStep
    BY <2>5 DEF Replay
  <2>6. ASSUME DeliverWhole PROVE OperationStep
    BY <2>6 DEF DeliverWhole, Debugged, DecisionEvaluated
  <2> HIDE DEF OperationStep, Emit, Inject, Deliver, Exit, Leave, Choose, PastNoDrop
  <2> QED
    BY <1>5, <2>1, <2>2, <2>3, <2>4, <2>5, <2>6 DEF OnResult
<1>6. ASSUME NEW t, LogReturned(t) PROVE OperationStep
  BY <1>6 DEF LogReturned, Exit, Leave
<1>7. ASSUME Client PROVE OperationStep
  <2>1. ASSUME NEW method, NEW params, NEW template, Call(method, params, template)
        PROVE  OperationStep
    BY <2>1 DEF Call
  <2>2. ASSUME NEW id, ReturnTreasure(id) PROVE OperationStep
    BY <2>2 DEF ReturnTreasure, Exit, Leave, callVars
  <2>3. ASSUME ReturnAll PROVE OperationStep
    BY <2>3 DEF ReturnAll
  <2> HIDE DEF OperationStep
  <2> QED
    BY <1>7, <2>1, <2>2, <2>3 DEF Client
<1>8. ASSUME UNCHANGED vars PROVE OperationStep
  BY <1>8 DEF vars, callVars, CappedRead, ScopedSelect, Scoped
<1> HIDE DEF OperationStep
<1> QED
  BY <1>1, <1>2, <1>3, <1>4, <1>5, <1>6, <1>7, <1>8 DEF Next, Progress, Crash

LEMMA ReturnsHavePhases ==
  \A d, e \in Event :
    (Place(d) = Place(e) /\ d.name = "RETURN" /\ e.name = "RETURN") => d.phase = e.phase
<1> SUFFICES ASSUME NEW d \in Event, NEW e \in Event, Place(d) = Place(e),
                    d.name = "RETURN", e.name = "RETURN"
             PROVE  d.phase = e.phase
  OBVIOUS
<1>1. d.phase \in Phases /\ e.phase \in Phases
  BY DEF Event, OperationEvent, TreasureEvent, StaleEvent, MoodEvent
<1>2. PlaceOfPhase[d.phase] = PlaceOfPhase[e.phase]
  BY DEF Place
<1> QED
  BY <1>1, <1>2 DEF Phases, PlaceOfPhase

LEMMA AppendToHistory ==
  ASSUME LogTypeOK, HistoryInv, LogTypeOK', tick \in Nat, NEW e, log' = Append(log, e), Advances(e),
         UNCHANGED tick, operations' = Append(operations, tick)
  PROVE  HistoryInv'
<1> DEFINE last == Len(log) + 1
<1>1. DOMAIN log = 1 .. Len(log) /\ Len(log) \in Nat
  BY DEF LogTypeOK
<1>2. DOMAIN log' = DOMAIN log \cup {last} /\ Len(log') = last
  BY <1>1 DEF LogTypeOK
<1>3. \A i \in DOMAIN log : log'[i] = log[i] /\ i < last /\ i \in Nat
  BY <1>1 DEF LogTypeOK
<1>4. log'[last] = e
  BY <1>1 DEF LogTypeOK
<1>5. /\ operations' \in Seq(Nat) /\ Len(operations') = last /\ operations'[last] = tick
      /\ \A i \in DOMAIN log : operations'[i] = operations[i]
  BY <1>1 DEF HistoryInv
<1>6. last \in Nat
  BY <1>1
<1> HIDE DEF last
<1>7. Reached \in 1 .. 5 /\ Reached' \in 1 .. 5
  BY DEF Reached
<1>8. Place(e) \in 1 .. 5 /\ Place(e) <= Reached' /\ (Place(e) \in {1, 5} => e.name = "RETURN")
  BY DEF Advances
<1>9. ASSUME NEW i \in DOMAIN log, operations[i] = tick
      PROVE  /\ Place(log[i]) <= Reached'
             /\ \/ Place(log[i]) < Place(e)
                \/ Place(log[i]) = Place(e) /\ log[i].name = "RETURN" /\ e.name = "RETURN"
  <2>1. /\ Place(log[i]) \in 1 .. 5 /\ Place(log[i]) <= Reached
        /\ Place(log[i]) \in {1, 5} => log[i].name = "RETURN"
    BY <1>9 DEF HistoryInv
  <2>2. CASE Place(e) \in 2 .. 4 /\ Reached < Place(e) /\ Place(e) <= Reached'
    BY <1>7, <2>1, <2>2
  <2>3. CASE Place(e) \in {1, 5} /\ e.name = "RETURN" /\ Reached = Place(e)
             /\ Place(e) <= Reached'
    BY <1>7, <2>1, <2>3
  <2> QED
    BY <2>2, <2>3 DEF Advances
<1>10. e \in Event /\ \A i \in DOMAIN log : log[i] \in Event
  BY <1>2, <1>4 DEF LogTypeOK
<1>11. \A i \in DOMAIN log :
         (Place(log[i]) = Place(e) /\ log[i].name = "RETURN" /\ e.name = "RETURN")
           => log[i].phase = e.phase
  BY <1>10, ReturnsHavePhases
<1>12. \A i \in DOMAIN log' :
         /\ operations'[i] <= tick'
         /\ Place(log'[i]) \in 1 .. 5
         /\ Place(log'[i]) \in {1, 5} => log'[i].name = "RETURN"
         /\ operations'[i] = tick' => Place(log'[i]) <= Reached'
  BY <1>2, <1>3, <1>4, <1>5, <1>8, <1>9 DEF HistoryInv
<1>13. OperationsInOrder'
  <2> SUFFICES ASSUME NEW i \in DOMAIN log', NEW j \in DOMAIN log', i < j,
                      operations'[i] = operations'[j]
               PROVE  \/ Place(log'[i]) < Place(log'[j])
                      \/ /\ log'[i].name = "RETURN" /\ log'[j].name = "RETURN"
                         /\ log'[i].phase = log'[j].phase
    BY DEF OperationsInOrder
  <2>1. i \in DOMAIN log
    BY <1>2, <1>3, <1>6
  <2>2. CASE j \in DOMAIN log
    BY <1>3, <1>5, <2>1, <2>2 DEF HistoryInv, OperationsInOrder
  <2>3. CASE j = last
    BY <1>3, <1>4, <1>5, <1>9, <1>11, <2>1, <2>3
  <2> QED
    BY <1>2, <2>2, <2>3
<1> QED
  BY <1>2, <1>5, <1>12, <1>13 DEF HistoryInv

LEMMA OperationStepKeepsHistory ==
  ASSUME LogTypeOK, LogTypeOK', tick \in Nat, HistoryInv, OperationStep,
         operations' = IF log' = log THEN operations ELSE Append(operations, tick)
  PROVE  HistoryInv'
<1>1. ASSUME UNCHANGED <<log, tick>>, Reached <= Reached' PROVE HistoryInv'
  <2>1. operations' = operations /\ OperationsInOrder'
    BY <1>1 DEF HistoryInv, OperationsInOrder
  <2>2. Reached \in 1 .. 5 /\ Reached' \in 1 .. 5
    BY DEF Reached
  <2>3. \A i \in DOMAIN log : operations[i] = tick => Place(log[i]) <= Reached'
    BY <1>1, <2>2 DEF HistoryInv
  <2> QED
    BY <1>1, <2>1, <2>3 DEF HistoryInv
<1>2. ASSUME UNCHANGED log, tick' = tick + 1 PROVE HistoryInv'
  <2>1. operations' = operations /\ OperationsInOrder'
    BY <1>2 DEF HistoryInv, OperationsInOrder
  <2>2. \A i \in DOMAIN log : operations[i] \in Nat /\ operations[i] < tick + 1
    BY DEF HistoryInv, LogTypeOK
  <2> QED
    BY <1>2, <2>1, <2>2 DEF HistoryInv
<1>3. ASSUME NEW e, log' = Append(log, e), Advances(e), UNCHANGED tick PROVE HistoryInv'
  <2>1. log' # log
    BY <1>3 DEF LogTypeOK
  <2> QED
    BY <1>3, <2>1, AppendToHistory
<1> QED
  BY <1>1, <1>2, <1>3 DEF OperationStep

\* In a session with a clock, failing writes included, every operation logs the
\* automatic returns before the change of mood, and that before its verdicts, the
\* one of before_execute first; only returns come more than once (connection.py,
\* _begin_operation, execute and DollyNamespace).
THEOREM OperationsAlwaysInOrder ==
  ASSUME Clocked, ~MayCrash
  PROVE  OrderSpec => []OperationsInOrder
<1>1. OrderInit => Init /\ HistoryInv
  BY DEF OrderInit, Init, LogInit, HistoryInv, OperationsInOrder
<1>2. [OrderNext]_<<vars, operations>> => [Next]_vars
  BY DEF OrderNext
<1>3. TypeOK /\ TypeOK' /\ HistoryInv /\ [OrderNext]_<<vars, operations>> => HistoryInv'
  <2> SUFFICES ASSUME TypeOK, TypeOK', HistoryInv, [OrderNext]_<<vars, operations>>
               PROVE  HistoryInv'
    OBVIOUS
  <2>1. operations' = IF log' = log THEN operations ELSE Append(operations, tick)
    BY DEF OrderNext, vars, logVars
  <2> QED
    BY <1>2, <2>1, NextIsOperationStep, OperationStepKeepsHistory DEF TypeOK
<1>4. HistoryInv => OperationsInOrder
  BY DEF HistoryInv
<1> QED
  BY <1>1, <1>2, <1>3, <1>4, TypeCorrect, PTL DEF Spec, OrderSpec

=============================================================================
