----------------------------- MODULE WithoutDebug -----------------------------
(***************************************************************************)
(* A session with debug, seen as the session it would be without: the      *)
(* events of debug are left out, the others and the treasures are numbered *)
(* as if they had never been, and a decision that only debug has made is   *)
(* not made.                                                               *)
(***************************************************************************)
EXTENDS Session

Lasting == {i \in DOMAIN log : log[i].type # "decision_evaluated"}

\* How many events up to the n-th last.
NumberOf(n) == Cardinality({i \in Lasting : i <= n})

Renumbered(t) == [t EXCEPT !.seq = NumberOf(t.seq)]

PlainTreasures == {Renumbered(t) : t \in treasures}
PlainReturning == {Renumbered(t) : t \in returning}

PlainSeq == NumberOf(seq)
PlainLog == [k \in 1 .. Cardinality(Lasting) |-> [log[Nth(Lasting, k)] EXCEPT !.seq = k]]

\* Whether before_execute is decided for the sake of debug alone.
ForDebugOnly == ~HasEffectiveWeight(BeforeExecutePriority, mood)

PlainPc == IF pc = "before" /\ ForDebugOnly THEN "backend" ELSE pc

PlainOp ==
  IF op # NoOperation /\ op.slot = "evaluated" /\ ForDebugOnly
    THEN [op EXCEPT !.slot = "open"]
    ELSE op

Plain == INSTANCE Session WITH
  Debug <- FALSE, treasures <- PlainTreasures, returning <- PlainReturning,
  seq <- PlainSeq, log <- PlainLog, pc <- PlainPc, op <- PlainOp

\* Debug only adds events: a session with debug is, event for event and call
\* for call, one without it (spec of event-log: the sequences of fired events
\* agree).
DebugOnlyAddsEvents == Plain!Spec

-----------------------------------------------------------------------------
ReachableMoods == IF MoodOn THEN Moods ELSE {Calm}

\* The condition under which it does: no mood that can be reached leaves
\* on_result without a fault while another one has STASH, unless the stale
\* read cache has on_result evaluated anyway.
NoMoodDisarmsStash ==
  \/ OldBoneOn
  \/ \A m \in ReachableMoods : HasEffectiveWeight(OnResultPriority, m)
  \/ \A m \in ReachableMoods : Weight[m]["STASH"] = "never"

=============================================================================
