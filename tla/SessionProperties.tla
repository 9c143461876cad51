-------------------------- MODULE SessionProperties --------------------------
(***************************************************************************)
(* What makes a session correct.                                           *)
(***************************************************************************)
EXTENDS Session

-----------------------------------------------------------------------------
(* The house *)

\* The house never holds two treasures of one template: while one is there,
\* on_result hides its row and returns before STASH becomes a candidate, over
\* any mix of calls, returns and faults (faults.py, on_result and _stash).
OneTreasurePerTemplate ==
  \A t, u \in treasures : t.template = u.template => t = u

\* A template that was released has no treasure in the house: every return
\* marks it, and only a read that finds no treasure and uses the mark up can
\* make it a candidate again (house.py, return_treasure, consume_release).
ReleasedTemplatesAreBare ==
  \A t \in treasures : t.template \notin released

\* The index of locations and the treasures agree, so that add() never refuses
\* a row because of a treasure that went home long ago (house.py, add).
LocationsMatchTreasures == occupied = {Location(t) : t \in treasures}

\* No two operations of a template in a row both take a row from it: between two
\* STASH events of a template lies an occurrence of it that took none, whichever
\* way the first treasure was returned.  That operation used the release up; it
\* gave the whole result only if no other fault or error got in (faults.py:413).
StashesApart ==
  \A i, j \in TreasureEvents :
    (/\ i < j
     /\ log[i].name = "STASH" /\ log[j].name = "STASH"
     /\ log[i].template = log[j].template)
      => log[j].occurrence >= log[i].occurrence + 2

\* The rows a client was last given hold no row that is in the house: the
\* treasure of an earlier call, or the one the call itself took away.  It
\* holds where no call can skip on_result (openspec dog-house: a stashed row
\* SHALL stay hidden when the query is run again).
StashedRowsStayHidden ==
  (pc = "idle" /\ delivered.status = "rows") =>
    \A t \in treasures : t.template = delivered.template =>
      \A k \in DOMAIN delivered.rows : delivered.rows[k] # t.row

\* The house is the projection of the log: between any two steps, the
\* treasures in it and those return_all is about to log are the ones
\* rebuild_house finds (house.py, rebuild_house).
HouseIsProjection == RebuiltHouse = treasures \cup returning

-----------------------------------------------------------------------------
(* Automatic returns *)

Ids(S) == {s.id : s \in S}

\* With auto_return every treasure has an entry, in the schedule or among the
\* due ones, and every entry has its treasure, or one return_all will log.
ScheduleMatchesHouse ==
  AutoReturnOn =>
    Ids(scheduled \cup due) = {TreasureId(t) : t \in treasures \cup returning}

\* Nothing waits past its time: what is scheduled comes due after the current
\* operation and within max_operations of it, so with ScheduleMatchesHouse no
\* treasure outlives max_operations further calls (auto_return.py, advance).
NoTreasureOverstays ==
  \A s \in scheduled : currentTick < s.due /\ s.due <= currentTick + MaxHold

\* No two entries have the same place in the order they come due in, and no two
\* treasures the number their event id is derived from, which is also the
\* order return_all takes: a write that fails uses its number up, a treasure it
\* leaves behind keeps it, and a restart counts again only from an empty house
\* (auto_return.py, schedule and advance; event_log.py, append; faults.py, _stash).
ReturnsAreOrdered ==
  /\ \A s, u \in scheduled \cup due : s # u => s.order # u.order
  /\ \A t, u \in treasures \cup returning : t # u => t.seq # u.seq

\* What is due goes home before the operation records anything else, its change
\* of mood included: whenever an event other than a return is appended, each
\* treasure of the house is still to wait for a later operation (connection.py,
\* _begin_operation; openspec dog-house: the automatic returns of an operation
\* come before its other events).
ReturnsComeFirst ==
  [][(AutoReturnOn /\ log' # log /\ log'[Len(log')].name # "RETURN") =>
       \A t \in treasures' :
         \E s \in scheduled' : s.id = TreasureId(t) /\ tick' < s.due]_vars

-----------------------------------------------------------------------------
(* The mood *)

MoodEvents == {i \in DOMAIN log : log[i].name = "MOOD"}

\* The mood_changed events form one chain from CALM to the current mood, none
\* of them a change to the same mood, and where there is no such event the mood
\* is still CALM: every change is recorded (mood.py, advance; _begin_operation).
MoodIsProjection ==
  /\ MoodEvents = {} => mood = Calm
  /\ \A i \in MoodEvents :
       LET before == {j \in MoodEvents : j < i}
           after == {j \in MoodEvents : j > i}
       IN  /\ log[i].from # log[i].to
           /\ before = {} => log[i].from = Calm
           /\ after = {} => log[i].to = mood
           /\ after # {} => \E j \in after : /\ \A k \in after : j <= k
                                             /\ log[j].from = log[i].to

\* The assertion of _begin_operation (connection.py:281): when the mood has
\* advanced, its clock agrees with the logical clock of the session.
MoodTickAssertion == (MoodOn /\ pc = "begin") => moodTick + 1 = tick

-----------------------------------------------------------------------------
(* Operations and their events *)

OperationEvents == {i \in DOMAIN log :
  log[i].type \in {"fault_injected", "limit_exceeded", "decision_evaluated"}}

SameOperation(d, e) == d.template = e.template /\ d.occurrence = e.occurrence

\* One operation suffers one fault at most, whatever its two phases draw
\* (contract-v2, section 4; SLOTH uses the slot up and lets the call go on).
OneFaultPerOperation ==
  \A i, j \in OperationEvents :
    (/\ i # j
     /\ log[i].type = "fault_injected" /\ log[j].type = "fault_injected")
      => ~SameOperation(log[i], log[j])

\* The statistics never report more interventions in a template than it had
\* operations: a sticky row counts, but only where no fault fired.
InterventionsWithinOccurrences ==
  \A t \in Templates : interventions[t] <= occurrence[t]

\* A phase of an operation has one verdict: a fault, a limit or, under debug,
\* the decision that nothing fired, and never two of them.
OneVerdictPerPhase ==
  \A i, j \in OperationEvents :
    (i # j /\ SameOperation(log[i], log[j])) => log[i].phase # log[j].phase

\* A read that max_result_rows cut short leaves no decision_evaluated event in
\* either phase, although before_execute was decided (connection.py:198-200).
InterruptedReadsLeaveNoDecision ==
  \A i, j \in OperationEvents :
    (log[i].name = "max_result_rows" /\ SameOperation(log[i], log[j])) =>
      log[j].type # "decision_evaluated"

\* The sequence numbers of the events of a session grow along its log, over
\* failed writes and restarts on the same log (event_log.py, __init__, append).
SequenceGrows == \A i, j \in DOMAIN log : i < j => log[i].seq < log[j].seq

-----------------------------------------------------------------------------
(* Progress and the promise to the client *)

\* Every call comes to an end, with a result or an error, also when due
\* entries have lost their treasure or an append failed half way.
EveryCallEnds == pc # "idle" ~> pc = "idle"

Promise == INSTANCE DogHouse WITH
  Rows <- 0 .. (MaxRows - 1), MayForget <- MayCrash,
  hidden <- {Location(t) : t \in treasures}, owed <- released

\* The session keeps the promises of the Dog House: a read that comes to the
\* choice of a fault with a release is the one that is spared.
KeepsDogHousePromise == Promise!Spec

=============================================================================
