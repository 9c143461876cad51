----------------------------- MODULE AutoReturn -----------------------------
(***************************************************************************)
(* Automatic returns on the logical clock (core/auto_return.py).  The hold *)
(* is derived from a hash, so any value between the bounds may come out.   *)
(***************************************************************************)
EXTENDS Vocabulary, Naturals

CONSTANTS AutoReturnOn,  \* whether wrap() was given auto_return
          MinHold,       \* config.min_operations
          MaxHold        \* config.max_operations

ASSUME HoldAssumption ==
  /\ AutoReturnOn \in BOOLEAN
  /\ MinHold \in Nat \ {0}
  /\ MaxHold \in Nat
  /\ MinHold <= MaxHold

VARIABLES scheduled,     \* _scheduled: one entry per treasure_id
          nextOrder,     \* _next_order
          currentTick    \* current_tick

scheduleVars == <<scheduled, nextOrder, currentTick>>

ScheduleEntry == [id: Templates \X Nat \X Nat, due: Nat, order: Nat]

ScheduleTypeOK ==
  /\ scheduled \subseteq ScheduleEntry
  /\ nextOrder \in Nat
  /\ currentTick \in Nat

ScheduleInit ==
  /\ scheduled = {}
  /\ nextOrder = 0
  /\ currentTick = 0

\* Due entries leave the schedule sorted by due tick, then by scheduling order.
Sooner(s, u) == s.due < u.due \/ (s.due = u.due /\ s.order < u.order)

\* Mutant: an entry whose tick has come waits for one more operation.
DueLate(tick) == {s \in scheduled : s.due < tick}

Due(tick) == {s \in scheduled : s.due <= tick}

ScheduleAdvance(tick) ==
  /\ currentTick' = tick
  /\ scheduled' = scheduled \ Due(tick)
  /\ UNCHANGED nextOrder

Without(id) == {s \in scheduled : s.id # id}

\* schedule(): an entry the id already has is replaced.
Schedule(id, hold) ==
  /\ nextOrder' = nextOrder + 1
  /\ scheduled' = Without(id) \cup
       {[id |-> id, due |-> currentTick + hold, order |-> nextOrder + 1]}
  /\ UNCHANGED currentTick

\* Mutant: a treasure returned by hand keeps its entry.
CancelNothing(id) == UNCHANGED scheduleVars

ScheduleCancel(id) ==
  /\ scheduled' = Without(id)
  /\ UNCHANGED <<nextOrder, currentTick>>

=============================================================================
