------------------------------ MODULE EventLog ------------------------------
(***************************************************************************)
(* The event log of one session as log() returns it (core/event_log.py).   *)
(* Without a path the events are those kept in memory and an append always *)
(* succeeds; with a path they are those of the file, and the write may     *)
(* fail after the sequence number is taken.                                *)
(*                                                                         *)
(* An event's `name` is the one its event id is derived from: the fault,   *)
(* the limit that was exceeded, DECISION, RETURN or MOOD.                  *)
(***************************************************************************)
EXTENDS Vocabulary, Naturals, Sequences

CONSTANT LogMayFail     \* whether the log is a file whose write can fail

ASSUME LogAssumption == LogMayFail \in BOOLEAN

VARIABLES log,          \* the events log() returns, in file order
          seq           \* _seq

logVars == <<log, seq>>

EventNames ==
  {"BARK", "GUARD_BOWL", "IGNORE", "SLOTH", "NO_DROP", "STASH", "FALSE_EMPTY",
   "TAIL_CHASE", "PAGE_HOLE", "ECHO", "SHUFFLE", "TANGLED_LEASH", "CHEW",
   "WRONG_COUNT", "OLD_BONE", "max_intervention_rows", "max_result_rows",
   "DECISION", "RETURN"}

Phases == {"before_execute", "on_result", "manual_return", "auto_return"}

OperationEvent ==
  [type: {"fault_injected", "limit_exceeded", "decision_evaluated"},
   name: EventNames, phase: Phases, template: Templates, occurrence: Nat,
   seq: Nat]

TreasureEvent ==
  [type: {"fault_injected", "treasure_returned"},
   name: {"STASH", "RETURN"}, phase: Phases, template: Templates,
   occurrence: Nat, row: Nat, seq: Nat]

\* The event of OLD_BONE names the occurrence it replays.
StaleEvent ==
  [type: {"fault_injected"}, name: {"OLD_BONE"}, phase: Phases, template: Templates,
   occurrence: Nat, stale: Nat, seq: Nat]

MoodEvent ==
  [type: {"mood_changed"}, name: {"MOOD"}, from: Moods, to: Moods, seq: Nat]

Event == OperationEvent \cup TreasureEvent \cup StaleEvent \cup MoodEvent

LogTypeOK == log \in Seq(Event) /\ seq \in Nat

LogInit == log = <<>> /\ seq = 0

NextSeq == seq + 1

\* append() of an event built with seq |-> NextSeq.
Record(event) ==
  /\ seq' = NextSeq
  /\ log' = Append(log, event)

\* Mutant: a write that raises gives its number back.
RecordFailsUnnumbered == LogMayFail /\ UNCHANGED logVars

\* append() when the write raises: the number is taken, the file lacks it.
RecordFails ==
  /\ LogMayFail
  /\ seq' = NextSeq
  /\ UNCHANGED log

\* Mutant: a new session on an old log numbers its events from 1 again.
ReopenFromZero == seq' = 0 /\ UNCHANGED log

\* __init__ on an existing file: numbering goes on after the largest number.
LogReopen ==
  /\ \E n \in {0} \cup {log[i].seq : i \in DOMAIN log} :
       seq' = n /\ \A i \in DOMAIN log : log[i].seq <= n
  /\ UNCHANGED log

TreasureOf(event) ==
  [template |-> event.template, row |-> event.row,
   occurrence |-> event.occurrence, seq |-> event.seq]

TreasureEvents == {i \in DOMAIN log : log[i].name \in {"STASH", "RETURN"}}

\* The treasure_id two events are about is the same.
SameTreasure(d, e) ==
  /\ d.template = e.template
  /\ d.occurrence = e.occurrence
  /\ d.row = e.row

\* rebuild_house(log()): a stash stays until a later event of its treasure.
RebuiltHouse ==
  {TreasureOf(log[i]) : i \in {k \in TreasureEvents :
     /\ log[k].name = "STASH"
     /\ \A j \in TreasureEvents : j > k => ~SameTreasure(log[j], log[k])}}

=============================================================================
