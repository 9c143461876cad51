----------------------------- MODULE DebugReplay -----------------------------
(***************************************************************************)
(* Two runs of one seed: the same calls on the same data, the second one   *)
(* with debug.  What a hash draws depends on the seed, the template, the   *)
(* occurrence and the phase, or on the epoch, never on debug: the moods are *)
(* drawn once for both runs, and no weight is left to chance.              *)
(***************************************************************************)
EXTENDS Session

NothingLeftToChance ==
  /\ ~Debug /\ ~LogMayFail /\ ~MayCrash
  /\ \A m \in Moods, f \in Faults : Weight[m][f] # "maybe"
  /\ MinHold = MaxHold /\ MaxRows = 1

\* The run with debug: each variable of a session once more.
VARIABLES d_treasures, d_occupied, d_released, d_scheduled, d_nextOrder,
          d_currentTick, d_mood, d_moodTick, d_log, d_seq, d_entries, d_byKey,
          d_added, d_tick, d_occurrence, d_classified, d_interventions,
          d_passthroughs, d_pc, d_op, d_due, d_returning, d_delivered, d_calls

VARIABLES draws,        \* the mood drawn at each tick
          answers       \* how many rows the backend has for a template

D == INSTANCE Session WITH
  Debug <- TRUE,
  treasures <- d_treasures, occupied <- d_occupied, released <- d_released,
  scheduled <- d_scheduled, nextOrder <- d_nextOrder, currentTick <-
  d_currentTick, mood <- d_mood, moodTick <- d_moodTick, log <- d_log, seq <-
  d_seq, entries <- d_entries, byKey <- d_byKey, added <- d_added, tick <-
  d_tick, occurrence <- d_occurrence, classified <- d_classified,
  interventions <- d_interventions, passthroughs <- d_passthroughs, pc <-
  d_pc, op <- d_op, due <- d_due, returning <- d_returning, delivered <-
  d_delivered, calls <- d_calls

plain == vars
debugged ==
  <<d_treasures, d_occupied, d_released, d_scheduled, d_nextOrder,
    d_currentTick, d_mood, d_moodTick, d_log, d_seq, d_entries, d_byKey,
    d_added, d_tick, d_occurrence, d_classified, d_interventions,
    d_passthroughs, d_pc, d_op, d_due, d_returning, d_delivered, d_calls>>

-----------------------------------------------------------------------------
ReplayInit ==
  /\ NothingLeftToChance
  /\ Init /\ D!Init
  /\ draws \in [1 .. MaxCalls -> Moods]
  /\ answers \in [Templates -> 0 .. MaxRows]

\* The client makes each call in both runs.
SameCall ==
  \/ \E call \in Calls, template \in Templates :
       Call(call[1], call[2], template) /\ D!Call(call[1], call[2], template)
  \/ \E id \in {TreasureId(t) : t \in treasures \cup d_treasures} :
       ReturnTreasure(id) /\ D!ReturnTreasure(id)

PlainStep ==
  /\ Progress
  /\ moodTick' # moodTick => mood' = draws[moodTick']
  /\ pc = "backend" => pc' = "result" /\ op'.rows = answers[op.template]
  /\ UNCHANGED debugged

\* The runs know nothing of each other: the order of their steps is free.
DebugStep ==
  /\ pc = "idle"
  /\ D!Progress
  /\ d_moodTick' # d_moodTick => d_mood' = draws[d_moodTick']
  /\ d_pc = "backend" => d_pc' = "result" /\ d_op'.rows = answers[d_op.template]
  /\ UNCHANGED plain

ReplayNext == (SameCall \/ PlainStep \/ DebugStep) /\ UNCHANGED <<draws, answers>>

ReplaySpec == ReplayInit /\ [][ReplayNext]_<<plain, debugged, draws, answers>>

-----------------------------------------------------------------------------
\* The faults a log tells of, by everything but the numbers that the events
\* of debug push on.
Fired(events) ==
  LET injected == SelectSeq(events, LAMBDA e : e.type = "fault_injected")
  IN  [k \in DOMAIN injected |->
         <<injected[k].name, injected[k].template, injected[k].occurrence>>]

\* The debug setting only adds events: the run without it fires the same
\* faults in the same operations (spec of event-log: the sequences of fired
\* events agree).
DebugFiresTheSame == pc = "idle" /\ d_pc = "idle" => Fired(log) = Fired(d_log)

=============================================================================
