----------------------------- MODULE DebugProofs -----------------------------
(***************************************************************************)
(* Debug only adds events: every step of a session is a step of the        *)
(* session it would be without debug, or none of its steps.                *)
(***************************************************************************)
EXTENDS WithoutDebug, HouseProofs

-----------------------------------------------------------------------------
(* The numbers of the lasting events *)

\* The numbers are counted without a gap.
LogNumbered == seq = Len(log) /\ \A i \in DOMAIN log : log[i].seq = i

UpTo(S, n) == {i \in S : i <= n}

LEMMA LastingIsFinite ==
  ASSUME LogTypeOK
  PROVE  /\ Lasting \in SUBSET Nat /\ IsFiniteSet(Lasting)
         /\ Cardinality(Lasting) \in Nat
         /\ \A i \in Lasting : i \in 1 .. Len(log)
         /\ Len(log) \in Nat /\ DOMAIN log = 1 .. Len(log)
<1>1. Len(log) \in Nat /\ DOMAIN log = 1 .. Len(log)
  BY DEF LogTypeOK
<1>2. Lasting \in SUBSET (1 .. Len(log))
  BY <1>1 DEF Lasting
<1>3. IsFiniteSet(1 .. Len(log))
  BY <1>1, FS_Interval
<1>4. IsFiniteSet(Lasting)
  BY <1>2, <1>3, FS_Subset
<1> QED
  BY <1>1, <1>2, <1>4, FS_CardinalityType

\* A position has a rank, and a later one has a greater rank.
LEMMA RanksGrow ==
  ASSUME NEW S \in SUBSET Nat, IsFiniteSet(S)
  PROVE  /\ \A n \in Nat : Cardinality(UpTo(S, n)) \in Nat
         /\ \A i \in Nat, j \in S : i < j => Cardinality(UpTo(S, i)) < Cardinality(UpTo(S, j))
<1>1. \A n \in Nat : IsFiniteSet(UpTo(S, n)) /\ Cardinality(UpTo(S, n)) \in Nat
  <2> SUFFICES ASSUME NEW n \in Nat
               PROVE  IsFiniteSet(UpTo(S, n)) /\ Cardinality(UpTo(S, n)) \in Nat
    OBVIOUS
  <2>1. UpTo(S, n) \in SUBSET S
    BY DEF UpTo
  <2> QED
    BY <2>1, FS_Subset, FS_CardinalityType
<1>2. ASSUME NEW i \in Nat, NEW j \in S, i < j
      PROVE  Cardinality(UpTo(S, i)) < Cardinality(UpTo(S, j))
  <2>1. j \in Nat /\ \A l \in S : l \in Nat /\ (l <= i => l <= j)
    BY <1>2
  <2>2. j \in UpTo(S, j) /\ j \notin UpTo(S, i)
    BY <1>2, <2>1 DEF UpTo
  <2>3. UpTo(S, i) \in SUBSET UpTo(S, j) /\ UpTo(S, i) # UpTo(S, j)
    BY <2>1, <2>2 DEF UpTo
  <2> QED
    BY <1>1, <2>1, <2>3, FS_Subset
<1> QED
  BY <1>1, <1>2

LEMMA NthHasRank ==
  ASSUME NEW S \in SUBSET Nat, IsFiniteSet(S), NEW k \in 1 .. Cardinality(S)
  PROVE  Nth(S, k) \in S /\ Cardinality(UpTo(S, Nth(S, k))) = k
<1>1. \E i \in S : Cardinality({j \in S : j <= i}) = k
  BY RankIsTaken
<1> QED
  BY <1>1 DEF Nth, UpTo

LEMMA RankNamesNth ==
  ASSUME NEW S \in SUBSET Nat, IsFiniteSet(S), NEW i \in S,
         NEW k \in 1 .. Cardinality(S), Cardinality(UpTo(S, i)) = k
  PROVE  Nth(S, k) = i
<1>1. Nth(S, k) \in S /\ Cardinality(UpTo(S, Nth(S, k))) = k
  BY NthHasRank
<1>2. Nth(S, k) \in Nat /\ i \in Nat
  BY <1>1
<1>3. ~(Nth(S, k) < i) /\ ~(i < Nth(S, k))
  BY <1>1, <1>2, RanksGrow
<1> QED
  BY <1>2, <1>3

LEMMA NumberIsRank == \A n : NumberOf(n) = Cardinality(UpTo(Lasting, n))
BY DEF NumberOf, UpTo

\* Positions that last have numbers, a later one a greater number.
LEMMA NumbersGrow ==
  ASSUME LogTypeOK
  PROVE  /\ \A n \in Nat : NumberOf(n) \in Nat
         /\ \A i, j \in Lasting : i < j => NumberOf(i) < NumberOf(j)
BY LastingIsFinite, RanksGrow, NumberIsRank

\* All lasting events are counted by the number of the last one.
LEMMA PlainSeqCounts ==
  ASSUME LogTypeOK, LogNumbered
  PROVE  PlainSeq = Cardinality(Lasting) /\ PlainSeq \in Nat
<1>1. UpTo(Lasting, Len(log)) = Lasting
  BY LastingIsFinite DEF UpTo
<1> QED
  BY <1>1, LastingIsFinite, NumberIsRank DEF PlainSeq, LogNumbered

\* The k-th event of the log without debug.
PlainEvent(k) == [log[Nth(Lasting, k)] EXCEPT !.seq = k]

\* A log that stays stays without debug.
LEMMA SamePlainLog ==
  ASSUME UNCHANGED <<log, seq>>
  PROVE  /\ Lasting' = Lasting
         /\ PlainLog' = PlainLog /\ PlainSeq' = PlainSeq
         /\ \A n : NumberOf(n)' = NumberOf(n)
         /\ \A t : Renumbered(t)' = Renumbered(t)
<1>1. Lasting' = Lasting
  BY DEF Lasting
<1>2. \A n : NumberOf(n)' = NumberOf(n)
  BY <1>1 DEF NumberOf
<1>3. PlainLog' = PlainLog
  BY <1>1 DEF PlainLog
<1> QED
  BY <1>1, <1>2, <1>3 DEF PlainSeq, Renumbered

\* An event of debug leaves no trace.
LEMMA DebugEventUnseen ==
  ASSUME LogTypeOK, LogNumbered, NEW e, Record(e), e.type = "decision_evaluated"
  PROVE  /\ Lasting' = Lasting
         /\ PlainLog' = PlainLog /\ PlainSeq' = PlainSeq
         /\ \A n : NumberOf(n)' = NumberOf(n)
         /\ \A t : Renumbered(t)' = Renumbered(t)
<1>1. /\ DOMAIN log' = 1 .. Len(log) + 1
      /\ \A i \in DOMAIN log : log'[i] = log[i]
      /\ log'[Len(log) + 1] = e
  BY DEF LogTypeOK, Record
<1>2. Lasting' = Lasting
  BY <1>1, LastingIsFinite DEF Lasting
<1>3. \A n : NumberOf(n)' = NumberOf(n)
  BY <1>2 DEF NumberOf
<1>4. PlainSeq' = PlainSeq
  <2>1. UpTo(Lasting, seq') = UpTo(Lasting, seq)
    BY LastingIsFinite DEF UpTo, LogNumbered, Record, NextSeq
  <2> QED
    BY <1>2, <2>1 DEF PlainSeq, NumberOf, UpTo
<1>5. PlainLog' = PlainLog
  <2>1. \A k \in 1 .. Cardinality(Lasting) : Nth(Lasting, k) \in DOMAIN log
    BY LastingIsFinite, NthHasRank
  <2>2. \A k \in 1 .. Cardinality(Lasting) : log'[Nth(Lasting, k)] = log[Nth(Lasting, k)]
    BY <1>1, <2>1
  <2> QED
    BY <1>2, <2>2 DEF PlainLog
<1> QED
  BY <1>2, <1>3, <1>4, <1>5 DEF Renumbered

\* A lasting event is appended to the log without debug under its number there.
LEMMA LastingEventKept ==
  ASSUME LogTypeOK, LogNumbered, NEW e, Record(e), e.type # "decision_evaluated"
  PROVE  /\ Lasting' = Lasting \cup {NextSeq}
         /\ PlainSeq' = PlainSeq + 1
         /\ PlainLog' = Append(PlainLog, [e EXCEPT !.seq = PlainSeq + 1])
         /\ \A m : m = NextSeq => NumberOf(m)' = PlainSeq + 1
         /\ \A n \in Lasting : NumberOf(n)' = NumberOf(n)
<1> DEFINE last == Len(log) + 1
           n == Cardinality(Lasting)
<1>1. /\ DOMAIN log' = 1 .. last
      /\ \A i \in DOMAIN log : log'[i] = log[i]
      /\ log'[last] = e
      /\ last = NextSeq /\ seq' = last
  BY DEF LogTypeOK, Record, LogNumbered, NextSeq
<1>2. Lasting' = Lasting \cup {last}
  BY <1>1, LastingIsFinite DEF Lasting
<1>3. /\ last \notin Lasting /\ last \in Nat /\ \A i \in Lasting : i < last
      /\ n \in Nat /\ PlainSeq = n
  BY LastingIsFinite, PlainSeqCounts
<1>4. IsFiniteSet(Lasting') /\ Cardinality(Lasting') = n + 1 /\ Lasting' \in SUBSET Nat
  <2>1. Cardinality(Lasting \cup {last}) = Cardinality(Lasting) + 1 /\ IsFiniteSet(Lasting \cup {last})
    BY <1>3, LastingIsFinite, FS_AddElement
  <2> QED
    BY <1>2, <1>3, <2>1, LastingIsFinite
<1> HIDE DEF n, last
<1>5. \A i \in Lasting : UpTo(Lasting', i) = UpTo(Lasting, i)
  BY <1>2, <1>3, LastingIsFinite DEF UpTo
<1>6. UpTo(Lasting', last) = Lasting'
  BY <1>2, <1>3, LastingIsFinite DEF UpTo
<1>7. \A i \in Lasting : NumberOf(i)' = NumberOf(i)
  BY <1>5 DEF NumberOf, UpTo
<1>8. (\A m : m = NextSeq => NumberOf(m)' = n + 1) /\ PlainSeq' = n + 1
  <2>1. Cardinality(UpTo(Lasting', last)) = n + 1
    BY <1>4, <1>6
  <2>2. \A m : m = NextSeq => NumberOf(m)' = n + 1
    BY <1>1, <2>1 DEF NumberOf, UpTo
  <2>3. PlainSeq' = Cardinality(UpTo(Lasting', seq'))
    BY DEF PlainSeq, NumberOf, UpTo
  <2> QED
    BY <1>1, <2>1, <2>2, <2>3
<1>9. PlainLog' = Append(PlainLog, [e EXCEPT !.seq = n + 1])
  <2> DEFINE f == [e EXCEPT !.seq = n + 1]
             S == {PlainEvent(k) : k \in 1 .. n} \cup {f}
  <2>1. PlainLog = [k \in 1 .. n |-> PlainEvent(k)]
    BY DEF PlainLog, PlainEvent, n
  <2>2. \A k \in 1 .. n : /\ Nth(Lasting', k) = Nth(Lasting, k)
                          /\ log'[Nth(Lasting', k)] = log[Nth(Lasting, k)]
    <3> SUFFICES ASSUME NEW k \in 1 .. n
                 PROVE  /\ Nth(Lasting', k) = Nth(Lasting, k)
                        /\ log'[Nth(Lasting', k)] = log[Nth(Lasting, k)]
      OBVIOUS
    <3>1. Nth(Lasting, k) \in Lasting /\ Cardinality(UpTo(Lasting, Nth(Lasting, k))) = k
      BY LastingIsFinite, NthHasRank DEF n
    <3>2. k \in 1 .. Cardinality(Lasting')
      BY <1>3, <1>4
    <3>3. Nth(Lasting, k) \in Lasting' /\ Cardinality(UpTo(Lasting', Nth(Lasting, k))) = k
      BY <1>2, <1>5, <3>1
    <3>4. Nth(Lasting', k) = Nth(Lasting, k)
      BY <1>4, <3>2, <3>3, RankNamesNth
    <3>5. log'[Nth(Lasting, k)] = log[Nth(Lasting, k)]
      BY <1>1, <3>1, LastingIsFinite
    <3> QED
      BY <3>4, <3>5
  <2>3. Nth(Lasting', n + 1) = last
    <3>1. n + 1 \in 1 .. Cardinality(Lasting') /\ last \in Lasting'
      BY <1>2, <1>3, <1>4
    <3>2. Cardinality(UpTo(Lasting', last)) = n + 1
      BY <1>4, <1>6
    <3> QED
      BY <1>4, <3>1, <3>2, RankNamesNth
  <2>4. PlainLog' = [k \in 1 .. n + 1 |-> [log'[Nth(Lasting', k)] EXCEPT !.seq = k]]
    BY <1>4 DEF PlainLog
  <2>5. /\ DOMAIN PlainLog' = 1 .. n + 1
        /\ \A k \in 1 .. n : PlainLog'[k] = PlainEvent(k)
        /\ PlainLog'[n + 1] = f
    <3> DEFINE g(k) == [log'[Nth(Lasting', k)] EXCEPT !.seq = k]
    <3>1. \A k \in 1 .. n : g(k) = PlainEvent(k)
      BY <2>2 DEF PlainEvent
    <3>2. g(n + 1) = f
      BY <1>1, <2>3
    <3>3. PlainLog' = [k \in 1 .. n + 1 |-> g(k)]
      BY <2>4
    <3> HIDE DEF g, f
    <3> QED
      BY <1>3, <3>1, <3>2, <3>3
  <2>6. PlainLog \in Seq(S) /\ f \in S /\ Len(PlainLog) = n
    BY <1>3, <2>1
  <2> HIDE DEF S, f
  <2>7. /\ Append(PlainLog, f) \in Seq(S) /\ Len(Append(PlainLog, f)) = n + 1
        /\ \A k \in 1 .. n : Append(PlainLog, f)[k] = PlainLog[k]
        /\ Append(PlainLog, f)[n + 1] = f
    BY <1>3, <2>6, AppendProperties
  <2>8. PlainLog' = [k \in 1 .. n + 1 |-> PlainLog'[k]]
    BY <2>4, <2>5
  <2>9. Append(PlainLog, f) = [k \in 1 .. n + 1 |-> Append(PlainLog, f)[k]]
    <3>1. Append(PlainLog, f) \in [1 .. n + 1 -> S]
      BY <2>7, LenProperties
    <3> QED
      BY <3>1
  <2>10. \A k \in 1 .. n + 1 : PlainLog'[k] = Append(PlainLog, f)[k]
    <3>1. \A k \in 1 .. n + 1 : k \in 1 .. n \/ k = n + 1
      BY <1>3
    <3>2. \A k \in 1 .. n : PlainLog[k] = PlainEvent(k)
      BY <2>1
    <3> QED
      BY <2>5, <2>7, <3>1, <3>2
  <2>11. PlainLog' = Append(PlainLog, f)
    BY <2>8, <2>9, <2>10
  <2> QED
    BY <2>11 DEF f
<1> QED
  BY <1>1, <1>2, <1>3, <1>7, <1>8, <1>9

-----------------------------------------------------------------------------
(* What every step keeps *)

Kept == treasures \cup returning

\* No step but a stash adds a treasure, and it records one that lasts.
BookStep ==
  \/ /\ Kept' \subseteq Kept
     /\ \/ UNCHANGED <<log, seq>>
        \/ \E e : e.seq = NextSeq /\ Record(e)
  \/ \E e : /\ e.seq = NextSeq /\ e.type = "fault_injected" /\ Record(e)
            /\ \E t : t.seq = NextSeq /\ Kept' \subseteq Kept \cup {t}

LEMMA NextIsBookStep ==
  ASSUME ~LogMayFail, LogTypeOK, LogNumbered, [Next]_vars
  PROVE  BookStep
<1> USE DEF BookStep, Kept, Emit, Inject, RecordFails, Exit, Leave, logVars, houseVars
<1>1. CASE Begin
  <2>1. ASSUME NEW entry \in due, ReturnDue(entry) PROVE BookStep
    BY <2>1 DEF ReturnDue, HouseReturn, Returned, TreasureEventOf
  <2>2. CASE AdvanceMood
    BY <2>2 DEF AdvanceMood, MoodChanged, Goto
  <2>3. CASE NoMood
    BY <2>3 DEF NoMood, Goto
  <2> QED
    BY <1>1, <2>1, <2>2, <2>3 DEF Begin
<1>2. CASE Dispatch \/ Before
  BY <1>2 DEF Dispatch, Passthrough, BeginDecision, Before, RaiseBefore, Delay, PassBefore,
     Debugged, Continue, Injected, DecisionEvaluated, OperationEventOf
<1>3. CASE Backend
  BY <1>3 DEF Backend, BackendRaises, ExceedCap, BackendReturns, LimitExceeded,
     Debugged, Continue, DecisionEvaluated, OperationEventOf
<1>4. CASE OnResult
  <2>1. CASE SkipOnResult \/ ExceedInterventionLimit \/ LoseResponse \/ HideTreasures
    BY <2>1 DEF SkipOnResult, ExceedInterventionLimit, LoseResponse, HideTreasures, Deliver,
       LimitExceeded, Injected, OperationEventOf
  <2>2. ASSUME NEW row \in 0 .. (MaxRows - 1), Stash(row) PROVE BookStep
    <3> DEFINE t == NewTreasure(row)
               e == TreasureEventOf("fault_injected", "STASH", "on_result", t)
    <3>1. treasures' = treasures \cup {t} /\ Record(e) /\ returning' = {}
      BY <2>2 DEF Stash, HouseAdd, Deliver
    <3>2. e.seq = NextSeq /\ e.type = "fault_injected" /\ t.seq = NextSeq
      BY DEF TreasureEventOf, NewTreasure
    <3> HIDE DEF t, e
    <3> QED
      BY <3>1, <3>2
  <2>3. ASSUME NEW row, StashRefused(row) PROVE BookStep
    BY <2>3 DEF StashRefused, Deliver
  <2>4. ASSUME NEW fault, Reshape(fault) PROVE BookStep
    BY <2>4 DEF Reshape, Injected, OperationEventOf, Deliver
  <2>5. ASSUME NEW entry, Replay(entry) PROVE BookStep
    BY <2>5 DEF Replay, StaleEventOf, Deliver
  <2>6. CASE DeliverWhole
    BY <2>6 DEF DeliverWhole, Debugged, DecisionEvaluated, OperationEventOf, Deliver
  <2> QED
    BY <1>4, <2>1, <2>2, <2>3, <2>4, <2>5, <2>6 DEF OnResult
<1>5. ASSUME NEW t \in returning, LogReturned(t) PROVE BookStep
  BY <1>5 DEF LogReturned, Returned, TreasureEventOf
<1>6. CASE Client
  <2>1. ASSUME NEW id, ReturnTreasure(id) PROVE BookStep
    BY <2>1 DEF ReturnTreasure, HouseReturn, Returned, TreasureEventOf, callVars
  <2>2. CASE ReturnAll
    BY <2>2 DEF ReturnAll, HouseReturnAll
  <2>3. ASSUME NEW method, NEW params, NEW template, Call(method, params, template)
        PROVE  BookStep
    BY <2>3 DEF Call
  <2> QED
    BY <1>6, <2>1, <2>2, <2>3 DEF Client
<1>7. CASE Crash
  <2>1. Kept' = {} /\ LogReopen
    BY <1>7 DEF Crash
  <2>2. PICK n \in {0} \cup {log[i].seq : i \in DOMAIN log} :
          seq' = n /\ log' = log /\ \A i \in DOMAIN log : log[i].seq <= n
    BY <2>1 DEF LogReopen
  <2>3. n = Len(log)
    BY <2>2 DEF LogNumbered, LogTypeOK
  <2> QED
    BY <2>1, <2>2, <2>3 DEF LogNumbered
<1>8. CASE UNCHANGED vars
  BY <1>8 DEF vars, callVars
<1> QED
  BY <1>1, <1>2, <1>3, <1>4, <1>5, <1>6, <1>7, <1>8 DEF Next, Progress

\* The events are numbered without a gap, and a treasure bears the number of
\* an event that lasts.
BookInv == LogNumbered /\ \A t \in Kept : t.seq \in Lasting

LEMMA BookInvStep ==
  ASSUME LogTypeOK, BookInv, BookStep
  PROVE  BookInv'
<1> USE DEF BookInv
<1>1. ASSUME NEW e, e.seq = NextSeq, Record(e)
      PROVE  LogNumbered' /\ \A i \in Lasting : i \in Lasting'
  <2>1. /\ DOMAIN log' = 1 .. Len(log) + 1 /\ Len(log') = Len(log) + 1
        /\ \A i \in DOMAIN log : log'[i] = log[i]
        /\ log'[Len(log) + 1] = e /\ Len(log) \in Nat /\ DOMAIN log = 1 .. Len(log)
    BY <1>1 DEF LogTypeOK, Record
  <2>2. LogNumbered'
    BY <1>1, <2>1 DEF LogNumbered, Record, NextSeq
  <2> QED
    BY <2>1, <2>2 DEF Lasting
<1>2. CASE UNCHANGED <<log, seq>> /\ Kept' \subseteq Kept
  BY <1>2 DEF LogNumbered, Lasting
<1>3. ASSUME NEW e, e.seq = NextSeq, Record(e), Kept' \subseteq Kept
      PROVE  BookInv'
  BY <1>1, <1>3
<1>4. ASSUME NEW e, e.seq = NextSeq, e.type = "fault_injected", Record(e),
             NEW t, t.seq = NextSeq, Kept' \subseteq Kept \cup {t}
      PROVE  BookInv'
  <2>1. NextSeq \in Lasting'
    BY <1>4, LastingEventKept
  <2> QED
    BY <1>1, <1>4, <2>1
<1> QED
  BY <1>2, <1>3, <1>4 DEF BookStep

-----------------------------------------------------------------------------
(* What the mood allows *)

StashRuledOut == \A m \in ReachableMoods : Weight[m]["STASH"] = "never"

PhaseInv ==
  /\ pc \in {"begin", "dispatch", "before"} => op.slot = "open"
  /\ mood \in ReachableMoods
  /\ StashRuledOut => treasures = {} /\ released = {}

LEMMA PhaseInvInit == Init => PhaseInv
BY MoodAssumption DEF Init, PhaseInv, MoodInit, HouseInit, ReachableMoods

LEMMA MoodStaysReachable ==
  ASSUME TypeOK, TypeOK', mood \in ReachableMoods, [Next]_vars
  PROVE  mood' \in ReachableMoods
<1>1. CASE MoodOn
  BY <1>1 DEF ReachableMoods, TypeOK, MoodTypeOK
<1>2. CASE ~MoodOn
  <2> SUFFICES UNCHANGED mood \/ mood' = Calm
    BY <1>2 DEF ReachableMoods
  <2>1. CASE Progress
    BY <1>2, <2>1 DEF Progress, Begin, ReturnDue, AdvanceMood, NoMood, Dispatch, Passthrough,
       BeginDecision, Before, RaiseBefore, Delay, PassBefore, Backend, BackendRaises,
       ExceedCap, BackendReturns, OnResult, SkipOnResult, ExceedInterventionLimit,
       LoseResponse, HideTreasures, Stash, StashRefused, Replay, Reshape, DeliverWhole,
       LogReturned, moodVars
  <2>2. CASE Client
    BY <2>2 DEF Client, Call, ReturnTreasure, ReturnAll, moodVars
  <2>3. CASE Crash
    BY <2>3 DEF Crash
  <2>4. CASE UNCHANGED vars
    BY <2>4 DEF vars, moodVars
  <2> QED
    BY <2>1, <2>2, <2>3, <2>4 DEF Next
<1> QED
  BY <1>1, <1>2

LEMMA SlotStaysOpen ==
  ASSUME PhaseInv, [Next]_vars
  PROVE  pc' \in {"begin", "dispatch", "before"} => op'.slot = "open"
<1> USE DEF PhaseInv, Emit, Inject, Exit, Leave, Continue, Goto, Debugged
<1>1. CASE Begin
  BY <1>1 DEF Begin, ReturnDue, AdvanceMood, NoMood
<1>2. CASE Dispatch
  <2>1. CASE Passthrough
    BY <2>1 DEF Passthrough
  <2>2. CASE BeginDecision
    <3>1. pc = "dispatch" /\ op' = [op EXCEPT !.occurrence = occurrence[op.template] + 1]
      BY <2>2 DEF BeginDecision
    <3> QED
      BY <3>1
  <2> QED
    BY <1>2, <2>1, <2>2 DEF Dispatch
<1>3. CASE Before \/ Backend
  BY <1>3 DEF Before, RaiseBefore, Delay, PassBefore, Backend, BackendRaises, ExceedCap,
     BackendReturns
<1>4. CASE OnResult
  BY <1>4 DEF OnResult, SkipOnResult, ExceedInterventionLimit, LoseResponse, HideTreasures,
     Stash, StashRefused, Replay, Reshape, DeliverWhole, Deliver
<1>5. ASSUME NEW t \in returning, LogReturned(t)
      PROVE  pc' \in {"begin", "dispatch", "before"} => op'.slot = "open"
  BY <1>5 DEF LogReturned
<1>6. CASE Client
  BY <1>6 DEF Client, Call, ReturnTreasure, ReturnAll, callVars
<1>7. CASE Crash \/ UNCHANGED vars
  BY <1>7 DEF Crash, vars, callVars
<1> QED
  BY <1>1, <1>2, <1>3, <1>4, <1>5, <1>6, <1>7 DEF Next, Progress

\* Where no mood has STASH, the house stays empty.
LEMMA HouseStaysBare ==
  ASSUME TypeOK, PhaseInv, StashRuledOut, [Next]_vars
  PROVE  treasures' = {} /\ released' = {}
<1>1. treasures = {} /\ released = {}
  BY DEF PhaseInv
<1>3. CASE UNCHANGED houseVars \/ HouseReturnAll \/ Served \/ Emptied
  BY <1>1, <1>3 DEF houseVars, HouseReturnAll, Served, HouseConsumeRelease, Emptied
<1>4. ASSUME NEW t \in treasures, HouseReturn(t) PROVE FALSE
  BY <1>1, <1>4
<1>2. ASSUME NEW row \in 0 .. (MaxRows - 1), Stashed(row) PROVE FALSE
  BY <1>2 DEF Stashed, StashRuledOut, PhaseInv
<1> QED
  BY <1>2, <1>3, <1>4, NextIsHouseStep DEF HouseStep

-----------------------------------------------------------------------------
(* The session without debug: its log and its house *)

LEMMA RenumberedAlike ==
  ASSUME LogTypeOK, NEW t \in Treasure
  PROVE  /\ Renumbered(t) \in Treasure
         /\ Renumbered(t).template = t.template /\ Renumbered(t).row = t.row
         /\ Renumbered(t).occurrence = t.occurrence
         /\ Renumbered(t).seq = NumberOf(t.seq)
         /\ Plain!TreasureId(Renumbered(t)) = TreasureId(t)
         /\ Plain!Location(Renumbered(t)) = Location(t)
<1>1. t.seq \in Nat /\ NumberOf(t.seq) \in Nat
  BY NumbersGrow DEF Treasure
<1> QED
  BY <1>1 DEF Renumbered, Treasure, TreasureId, Plain!TreasureId, Location, Plain!Location

\* The treasures keep the numbers they have.
Stable == \A t \in Kept : Renumbered(t)' = Renumbered(t)

LEMMA QuietIsStable ==
  ASSUME UNCHANGED <<log, seq>>
  PROVE  Stable /\ UNCHANGED <<PlainLog, PlainSeq>>
BY SamePlainLog DEF Stable

LEMMA DebugIsStable ==
  ASSUME LogTypeOK, BookInv, NEW e, Record(e), e.type = "decision_evaluated"
  PROVE  Stable /\ UNCHANGED <<PlainLog, PlainSeq>>
BY DebugEventUnseen DEF Stable, BookInv

LEMMA RecordsAlike ==
  ASSUME LogTypeOK, BookInv, NEW e, Record(e), e.type # "decision_evaluated",
         NEW f, f = [e EXCEPT !.seq = Plain!NextSeq]
  PROVE  Stable /\ Plain!Record(f)
<1>1. /\ PlainSeq' = PlainSeq + 1
      /\ PlainLog' = Append(PlainLog, [e EXCEPT !.seq = PlainSeq + 1])
      /\ \A n \in Lasting : NumberOf(n)' = NumberOf(n)
  BY LastingEventKept DEF BookInv
<1>2. \A t \in Kept : Renumbered(t)' = Renumbered(t)
  BY <1>1 DEF BookInv, Renumbered
<1> QED
  BY <1>1, <1>2 DEF Stable, Plain!Record, Plain!NextSeq

LEMMA SamePlainHouse ==
  ASSUME Stable, UNCHANGED treasures
  PROVE  UNCHANGED PlainTreasures
BY DEF Stable, Kept, PlainTreasures

LEMMA SamePlainReturning ==
  ASSUME Stable, UNCHANGED returning
  PROVE  UNCHANGED PlainReturning
BY DEF Stable, Kept, PlainReturning

\* The treasures of the two houses are the same but for their numbers.
LEMMA HousesAlike ==
  ASSUME TypeOK, HouseInv
  PROVE  /\ \A T : Plain!ActiveFor(T) = {Renumbered(t) : t \in ActiveFor(T)}
         /\ \A id : Plain!Holding(id) = {Renumbered(t) : t \in Holding(id)}
         /\ \A t, u \in treasures : Renumbered(t) = Renumbered(u) => t = u
         /\ Plain!Cardinality(PlainTreasures) = Cardinality(treasures)
<1>1. \A t \in treasures : /\ t \in Treasure
                           /\ Renumbered(t).template = t.template
                           /\ Plain!TreasureId(Renumbered(t)) = TreasureId(t)
  BY RenumberedAlike DEF TypeOK, HouseTypeOK
<1>2. \A T : Plain!ActiveFor(T) = {Renumbered(t) : t \in ActiveFor(T)}
  BY <1>1 DEF Plain!ActiveFor, ActiveFor, PlainTreasures
<1>3. \A id : Plain!Holding(id) = {Renumbered(t) : t \in Holding(id)}
  BY <1>1 DEF Plain!Holding, Holding, PlainTreasures
<1>4. \A t, u \in treasures : Renumbered(t) = Renumbered(u) => t = u
  BY <1>1 DEF HouseInv, OneTreasurePerTemplate
<1>5. Cardinality(PlainTreasures) = Cardinality(treasures)
  <2> DEFINE f == [t \in treasures |-> Renumbered(t)]
  <2>1. f \in Bijection(treasures, PlainTreasures)
    <3>1. f \in [treasures -> PlainTreasures] /\ \A u \in PlainTreasures : \E t \in treasures : f[t] = u
      BY DEF PlainTreasures
    <3>2. \A t, u \in treasures : f[t] = f[u] => t = u
      BY <1>4
    <3> HIDE DEF f
    <3> QED
      BY <3>1, <3>2, Fun_IsBij
  <2> QED
    BY <2>1, FS_Bijection DEF HouseInv, ExistsBijection
<1>6. \A S : Plain!Cardinality(S) = Cardinality(S)
  BY Zenon DEF Plain!Cardinality, Cardinality, Plain!IsFiniteSet, IsFiniteSet
<1> QED
  BY <1>2, <1>3, <1>4, <1>5, <1>6

-----------------------------------------------------------------------------
(* The session without debug: its operation *)

LEMMA OperationsAlike ==
  ASSUME op \in Operation
  PROVE  /\ PlainOp \in Operation
         /\ PlainOp.method = op.method /\ PlainOp.params = op.params
         /\ PlainOp.template = op.template /\ PlainOp.occurrence = op.occurrence
         /\ PlainOp.rows = op.rows
         /\ PlainOp.slot = "consumed" <=> op.slot = "consumed"
         /\ op.slot # "evaluated" => PlainOp = op
         /\ ~ForDebugOnly => PlainOp = op
BY DEF Operation, PlainOp

\* What the two sessions see of the statement and its result is the same.
LEMMA StatementsAlike ==
  ASSUME op \in Operation
  PROVE  /\ Plain!Kind = Kind /\ Plain!Scoped = Scoped /\ Plain!ScopedSelect = ScopedSelect
         /\ Plain!CappedRead = CappedRead /\ Plain!Oversized = Oversized
         /\ Plain!PassthroughReason = PassthroughReason
         /\ Plain!BackendRows = BackendRows
         /\ \A rows : Plain!Delivery(rows) = Delivery(rows)
<1>1. /\ PlainOp.template = op.template /\ PlainOp.rows = op.rows
      /\ PlainOp.method = op.method /\ PlainOp.params = op.params
  BY OperationsAlike
<1>2. Plain!Kind = Kind /\ Plain!Scoped = Scoped
  BY <1>1 DEF Plain!Kind, Kind, Plain!Scoped, Scoped
<1>3. Plain!ScopedSelect = ScopedSelect
  BY <1>1, <1>2 DEF Plain!ScopedSelect, ScopedSelect
<1>4. Plain!CappedRead = CappedRead /\ Plain!Oversized = Oversized
  BY <1>1, <1>3 DEF Plain!CappedRead, CappedRead, Plain!Oversized, Oversized, Plain!NoCap, NoCap
<1>5. Plain!PassthroughReason = PassthroughReason
  BY <1>1, <1>2 DEF Plain!PassthroughReason, PassthroughReason
<1>6. Plain!BackendRows = BackendRows
  BY <1>1 DEF Plain!BackendRows, BackendRows
<1>7. \A rows : Plain!Delivery(rows) = Delivery(rows)
  BY <1>1 DEF Plain!Delivery, Delivery
<1> QED
  BY <1>2, <1>3, <1>4, <1>5, <1>6, <1>7

LEMMA ChoicesAlike ==
  /\ \A p, e, m : Plain!Selections(p, e, m) = Selections(p, e, m)
  /\ \A p, m : Plain!HasEffectiveWeight(p, m) <=> HasEffectiveWeight(p, m)
  /\ \A p : Plain!Members(p) = Members(p)
  /\ Plain!OnResultPriority = OnResultPriority
  /\ Plain!BeforeExecutePriority = BeforeExecutePriority
  /\ Plain!BeforeExecuteErrors = BeforeExecuteErrors
<1>1. \A p : Plain!Members(p) = Members(p)
  BY DEF Plain!Members, Members
<1>2. \A p, e, m : Plain!Selections(p, e, m) = Selections(p, e, m)
  BY <1>1 DEF Plain!Selections, Selections
<1>3. \A p, m : Plain!HasEffectiveWeight(p, m) <=> HasEffectiveWeight(p, m)
  BY <1>1 DEF Plain!HasEffectiveWeight, HasEffectiveWeight
<1> QED
  BY <1>1, <1>2, <1>3 DEF Plain!OnResultPriority, OnResultPriority, Plain!BeforeExecutePriority,
     BeforeExecutePriority, Plain!BeforeExecuteErrors, BeforeExecuteErrors

LEMMA CandidatesAlike ==
  ASSUME op \in Operation
  PROVE  \A chewable : Plain!Candidates(chewable) = Candidates(chewable)
<1>1. PlainOp.template = op.template /\ PlainOp.rows = op.rows
  BY OperationsAlike
<1>2. \A key : Plain!History(key) = History(key)
  BY DEF Plain!History, History, Plain!OfKey, OfKey, Plain!Index, Index
<1> QED
  BY <1>1, <1>2 DEF Plain!Candidates, Candidates

\* The call ends in both sessions.
LEMMA LeavesAlike ==
  ASSUME NEW delivery, Leave(delivery)
  PROVE  Plain!Leave(delivery)
<1>1. PlainPc' = "idle" /\ PlainOp' = Plain!NoOperation /\ PlainReturning' = {}
  BY DEF Leave, PlainPc, PlainOp, PlainReturning, NoOperation, Plain!NoOperation
<1> QED
  BY <1>1 DEF Leave, Plain!Leave

LEMMA CachesAlike ==
  ASSUME NEW key, NEW o, NEW rows, StaleAdd(key, o, rows)
  PROVE  Plain!StaleAdd(key, o, rows)
<1>1. \A S : Plain!Cardinality(S) = Cardinality(S)
  BY Zenon DEF Plain!Cardinality, Cardinality, Plain!IsFiniteSet, IsFiniteSet
<1>2. \A S, n : Plain!Newest(S, n) = Newest(S, n)
  BY <1>1 DEF Plain!Newest, Newest
<1>3. \A S : Plain!OfKey(key, S) = OfKey(key, S)
  BY DEF Plain!OfKey, OfKey
<1>4. \A e : Plain!Index(e) = Index(e)
  BY DEF Plain!Index, Index
<1>5. Insert(key, o, rows) => Plain!Insert(key, o, rows)
  BY <1>2, <1>3, <1>4 DEF Insert, Plain!Insert
<1> QED
  BY <1>5 DEF StaleAdd, Plain!StaleAdd, staleVars, Plain!staleVars

LEMMA DeliversAlike ==
  ASSUME op \in Operation, NEW rows, Deliver(rows)
  PROVE  Plain!Deliver(rows)
<1>1. Plain!Leave(Delivery(rows)) /\ Plain!Delivery(rows) = Delivery(rows)
  BY LeavesAlike, StatementsAlike DEF Deliver
<1>2. IF OldBoneOn /\ ScopedSelect
        THEN Plain!StaleAdd(op.template, op.occurrence, rows)
        ELSE UNCHANGED staleVars
  BY CachesAlike DEF Deliver
<1> QED
  BY <1>1, <1>2, StatementsAlike, OperationsAlike DEF Plain!Deliver, staleVars, Plain!staleVars

LEMMA ExitsAlike ==
  ASSUME NEW delivery, Exit(delivery)
  PROVE  Plain!Exit(delivery)
BY LeavesAlike DEF Exit, Plain!Exit, staleVars, Plain!staleVars

LEMMA EventsAlike ==
  /\ op \in Operation =>
       /\ \A type, name, phase :
            Plain!OperationEventOf(type, name, phase)
              = [OperationEventOf(type, name, phase) EXCEPT !.seq = Plain!NextSeq]
       /\ \A entry : Plain!StaleEventOf(entry) = [StaleEventOf(entry) EXCEPT !.seq = Plain!NextSeq]
  /\ \A type, name, phase, t, u :
       (t.template = u.template /\ t.occurrence = u.occurrence /\ t.row = u.row) =>
         Plain!TreasureEventOf(type, name, phase, u)
           = [TreasureEventOf(type, name, phase, t) EXCEPT !.seq = Plain!NextSeq]
  /\ \A next : Plain!MoodChanged(next) = [MoodChanged(next) EXCEPT !.seq = Plain!NextSeq]
<1>1. ASSUME op \in Operation
      PROVE  /\ \A type, name, phase :
                  Plain!OperationEventOf(type, name, phase)
                    = [OperationEventOf(type, name, phase) EXCEPT !.seq = Plain!NextSeq]
             /\ \A entry : Plain!StaleEventOf(entry)
                             = [StaleEventOf(entry) EXCEPT !.seq = Plain!NextSeq]
  <2>1. PlainOp.template = op.template /\ PlainOp.occurrence = op.occurrence
    BY <1>1, OperationsAlike
  <2> QED
    BY <2>1 DEF Plain!OperationEventOf, OperationEventOf, Plain!StaleEventOf, StaleEventOf
<1> QED
  BY <1>1 DEF Plain!TreasureEventOf, TreasureEventOf, Plain!MoodChanged, MoodChanged

-----------------------------------------------------------------------------
(* A call up to the backend *)

DebugInv == TypeOK /\ HouseInv /\ BookInv /\ PhaseInv

LEMMA ReturnsAlike ==
  ASSUME DebugInv, Stable, NEW t \in treasures, HouseReturn(t)
  PROVE  Plain!HouseReturn(Renumbered(t))
<1>1. t \in Treasure /\ LogTypeOK
  BY DEF DebugInv, TypeOK, HouseTypeOK
<1>2. PlainTreasures' = PlainTreasures \ {Renumbered(t)}
  <2>1. treasures' = treasures \ {t} /\ \A u \in treasures' : Renumbered(u)' = Renumbered(u)
    BY DEF HouseReturn, Stable, Kept
  <2>2. PlainTreasures' = {Renumbered(u) : u \in treasures \ {t}}
    BY <2>1 DEF PlainTreasures
  <2> QED
    BY <2>2, HousesAlike DEF PlainTreasures, DebugInv
<1> QED
  BY <1>1, <1>2, RenumberedAlike DEF HouseReturn, Plain!HouseReturn

LEMMA SamePlainOp ==
  ASSUME DebugInv, pc = "begin", op' = op, pc' # "before"
  PROVE  PlainPc = pc /\ PlainPc' = pc' /\ PlainOp' = PlainOp
<1>1. op.slot = "open"
  BY DEF DebugInv, PhaseInv
<1> QED
  BY <1>1 DEF PlainPc, PlainOp

LEMMA ReturnDueAlike ==
  ASSUME ~LogMayFail, DebugInv, NEW entry \in due, ReturnDue(entry)
  PROVE  Plain!ReturnDue(entry)
<1>1. /\ pc = "begin" /\ \A other \in due \ {entry} : Sooner(entry, other)
      /\ due' = due \ {entry}
      /\ UNCHANGED <<pc, op, returning, delivered, calls, staleVars>>
      /\ UNCHANGED <<scheduleVars, moodVars, statsVars, tick, occurrence>>
  BY DEF ReturnDue, Emit, RecordFails
<1>2. PlainPc = "begin" /\ PlainPc' = PlainPc /\ PlainOp' = PlainOp
  BY <1>1, SamePlainOp
<1>3. \A other \in due \ {entry} : Plain!Sooner(entry, other)
  BY <1>1 DEF Sooner, Plain!Sooner
<1>4. LogTypeOK /\ \A t \in treasures : t \in Treasure
  BY DEF DebugInv, TypeOK, HouseTypeOK
<1>5. CASE Holding(entry.id) = {} /\ UNCHANGED <<houseVars, logVars>>
  <2>1. Stable /\ UNCHANGED <<PlainLog, PlainSeq>>
    BY <1>5, QuietIsStable DEF logVars
  <2>2. UNCHANGED <<PlainTreasures, PlainReturning>>
    BY <1>1, <1>5, <2>1, SamePlainHouse, SamePlainReturning DEF houseVars
  <2>3. Plain!Holding(entry.id) = {}
    BY <1>5, HousesAlike DEF DebugInv
  <2> QED
    BY <1>1, <1>2, <1>3, <1>5, <2>1, <2>2, <2>3
       DEF Plain!ReturnDue, Plain!houseVars, Plain!logVars, Plain!staleVars, Plain!scheduleVars,
           Plain!moodVars, Plain!statsVars, houseVars, staleVars, scheduleVars, moodVars, statsVars
<1>6. ASSUME NEW t \in Holding(entry.id), HouseReturn(t), Record(Returned(t, "auto_return"))
      PROVE  Plain!ReturnDue(entry)
  <2> DEFINE u == Renumbered(t)
  <2>1. t \in treasures /\ t \in Treasure
    BY <1>4, <1>6 DEF Holding
  <2>2. u.template = t.template /\ u.occurrence = t.occurrence /\ u.row = t.row
    BY <1>4, <2>1, RenumberedAlike
  <2>3. Plain!Returned(u, "auto_return")
          = [Returned(t, "auto_return") EXCEPT !.seq = Plain!NextSeq]
    BY <2>2, EventsAlike DEF Plain!Returned, Returned
  <2>4. Stable /\ Plain!Record(Plain!Returned(u, "auto_return"))
    BY <1>4, <1>6, <2>3, RecordsAlike DEF DebugInv, Returned, TreasureEventOf
  <2>5. UNCHANGED PlainReturning
    BY <1>1, <2>4, SamePlainReturning
  <2>6. u \in Plain!Holding(entry.id) /\ Plain!HouseReturn(u)
    BY <1>6, <2>1, <2>4, HousesAlike, ReturnsAlike DEF DebugInv
  <2> QED
    BY <1>1, <1>2, <1>3, <2>4, <2>5, <2>6
       DEF Plain!ReturnDue, Plain!Emit, Plain!staleVars, Plain!scheduleVars,
           Plain!moodVars, Plain!statsVars, staleVars, scheduleVars, moodVars, statsVars
<1> QED
  BY <1>5, <1>6 DEF ReturnDue, Emit, RecordFails

LEMMA AdvanceMoodAlike ==
  ASSUME ~LogMayFail, DebugInv, AdvanceMood
  PROVE  Plain!AdvanceMood
<1>1. PICK next \in Moods :
        /\ MoodAdvance(next)
        /\ \/ moodTick + 1 # tick /\ Exit(Nothing) /\ UNCHANGED logVars
           \/ moodTick + 1 = tick /\ next = mood /\ Goto("dispatch") /\ UNCHANGED logVars
           \/ /\ moodTick + 1 = tick /\ next # mood
              /\ Record(MoodChanged(next)) /\ Goto("dispatch")
  BY DEF AdvanceMood, Emit, RecordFails
<1>2. /\ pc = "begin" /\ due = {} /\ MoodOn
      /\ UNCHANGED <<houseVars, scheduleVars, statsVars, tick, occurrence>>
  BY DEF AdvanceMood
<1>3. PlainPc = "begin"
  BY <1>2 DEF PlainPc
<1>4. Plain!MoodAdvance(next)
  BY <1>1 DEF MoodAdvance, Plain!MoodAdvance
<1>5. Stable => UNCHANGED PlainTreasures
  BY <1>2, SamePlainHouse DEF houseVars
<1>6. ASSUME Goto("dispatch"), Stable PROVE Plain!Goto("dispatch")
  <2>1. PlainPc' = "dispatch" /\ PlainOp' = PlainOp /\ UNCHANGED PlainReturning
    BY <1>2, <1>6, SamePlainOp, SamePlainReturning DEF Goto
  <2> QED
    BY <1>6, <2>1 DEF Goto, Plain!Goto, staleVars, Plain!staleVars
<1>7. CASE UNCHANGED logVars /\ moodTick + 1 # tick /\ Exit(Nothing)
  <2>1. Stable /\ UNCHANGED <<PlainLog, PlainSeq>>
    BY <1>7, QuietIsStable DEF logVars
  <2>2. Plain!Exit(Plain!Nothing)
    BY <1>7, ExitsAlike DEF Nothing, Plain!Nothing
  <2> QED
    BY <1>2, <1>3, <1>4, <1>5, <1>7, <2>1, <2>2
       DEF Plain!AdvanceMood, Plain!houseVars, houseVars, Plain!scheduleVars, scheduleVars,
           Plain!statsVars, statsVars, Plain!logVars
<1>8. CASE UNCHANGED logVars /\ moodTick + 1 = tick /\ next = mood /\ Goto("dispatch")
  <2>1. Stable /\ UNCHANGED <<PlainLog, PlainSeq>>
    BY <1>8, QuietIsStable DEF logVars
  <2> QED
    BY <1>2, <1>3, <1>4, <1>5, <1>6, <1>8, <2>1
       DEF Plain!AdvanceMood, Plain!houseVars, houseVars, Plain!scheduleVars, scheduleVars,
           Plain!statsVars, statsVars, Plain!logVars
<1>9. CASE moodTick + 1 = tick /\ next # mood /\ Record(MoodChanged(next)) /\ Goto("dispatch")
  <2>1. Stable /\ Plain!Record(Plain!MoodChanged(next))
    BY <1>9, EventsAlike, RecordsAlike DEF DebugInv, TypeOK, MoodChanged
  <2> QED
    BY <1>2, <1>3, <1>4, <1>5, <1>6, <1>9, <2>1
       DEF Plain!AdvanceMood, Plain!Emit, Plain!houseVars, houseVars, Plain!scheduleVars,
           scheduleVars, Plain!statsVars, statsVars
<1> QED
  BY <1>1, <1>7, <1>8, <1>9

\* What stays of the house, its log and return_all stays without debug.
LEMMA QuietStep ==
  ASSUME UNCHANGED <<houseVars, logVars>>
  PROVE  /\ UNCHANGED <<Plain!houseVars, Plain!logVars>>
         /\ Stable
<1>1. Stable /\ UNCHANGED <<PlainLog, PlainSeq>>
  BY QuietIsStable DEF logVars
<1>2. UNCHANGED PlainTreasures
  BY <1>1, SamePlainHouse DEF houseVars
<1> QED
  BY <1>1, <1>2 DEF houseVars, Plain!houseVars, Plain!logVars

LEMMA NoMoodAlike ==
  ASSUME DebugInv, NoMood
  PROVE  Plain!NoMood
<1>1. UNCHANGED <<Plain!houseVars, Plain!logVars, PlainReturning>>
  BY QuietStep, SamePlainReturning DEF NoMood, Goto
<1>2. PlainPc = "begin" /\ PlainPc' = "dispatch" /\ PlainOp' = PlainOp
  BY SamePlainOp DEF NoMood, Goto
<1> QED
  BY <1>1, <1>2
     DEF NoMood, Plain!NoMood, Goto, Plain!Goto, staleVars, Plain!staleVars, scheduleVars,
         Plain!scheduleVars, moodVars, Plain!moodVars, statsVars, Plain!statsVars

LEMMA PassthroughAlike ==
  ASSUME DebugInv, Passthrough
  PROVE  Plain!Passthrough
<1>1. op \in Operation /\ pc = "dispatch" /\ PlainPc = "dispatch"
  BY DEF Passthrough, DebugInv, TypeOK, CallTypeOK, PlainPc
<1>2. UNCHANGED <<Plain!houseVars, Plain!logVars>>
  BY QuietStep DEF Passthrough
<1>3. Plain!Exit(Plain!Nothing)
  BY ExitsAlike DEF Passthrough, Nothing, Plain!Nothing
<1>4. Plain!CountClassified
  BY <1>1, StatementsAlike, OperationsAlike
     DEF Passthrough, CountClassified, Plain!CountClassified
<1>5. Plain!PassthroughReason = PassthroughReason /\ Plain!Reasons = Reasons
  BY <1>1, StatementsAlike DEF Reasons, Plain!Reasons
<1> QED
  BY <1>1, <1>2, <1>3, <1>4, <1>5
     DEF Passthrough, Plain!Passthrough, scheduleVars, Plain!scheduleVars, moodVars,
         Plain!moodVars

LEMMA BeginDecisionAlike ==
  ASSUME DebugInv, BeginDecision
  PROVE  Plain!BeginDecision
<1> DEFINE next == [op EXCEPT !.occurrence = occurrence[op.template] + 1]
           label == IF EvaluateBefore THEN "before" ELSE "backend"
<1>1. op \in Operation /\ pc = "dispatch" /\ PlainPc = "dispatch" /\ op.slot = "open"
  BY DEF BeginDecision, DebugInv, TypeOK, CallTypeOK, PlainPc, PhaseInv
<1>2. PlainOp = op
  BY <1>1, OperationsAlike
<1>3. UNCHANGED <<Plain!houseVars, Plain!logVars, PlainReturning>> /\ UNCHANGED moodVars
  BY QuietStep, SamePlainReturning DEF BeginDecision, Continue
<1>4. pc' = label /\ op' = next /\ UNCHANGED <<due, returning, delivered, calls, staleVars>>
  BY DEF BeginDecision, Continue
<1>5. op'.slot = "open"
  BY <1>1, <1>4 DEF Operation
<1>6. PlainOp' = next
  BY <1>4, <1>5 DEF PlainOp
<1>7. PlainPc' = IF Plain!EvaluateBefore THEN "before" ELSE "backend"
  <2>1. ForDebugOnly' = ForDebugOnly
    BY <1>3 DEF ForDebugOnly, moodVars
  <2>2. Plain!EvaluateBefore <=> Scoped /\ ~ForDebugOnly
    BY <1>1, StatementsAlike, ChoicesAlike DEF Plain!EvaluateBefore, ForDebugOnly
  <2>3. EvaluateBefore <=> Scoped /\ (Debug \/ ~ForDebugOnly)
    BY DEF EvaluateBefore, ForDebugOnly
  <2> QED
    BY <1>4, <2>1, <2>2, <2>3 DEF PlainPc
<1>8. Plain!CountClassified /\ Plain!PassthroughReason = "none"
  BY <1>1, StatementsAlike, OperationsAlike
     DEF BeginDecision, CountClassified, Plain!CountClassified
<1> QED
  BY <1>1, <1>2, <1>3, <1>4, <1>6, <1>7, <1>8
     DEF BeginDecision, Plain!BeginDecision, Plain!Continue, staleVars, Plain!staleVars,
         scheduleVars, Plain!scheduleVars, moodVars, Plain!moodVars

\* A fault of before_execute is not drawn for the sake of debug.
LEMMA BeforeIsEffective ==
  ASSUME NEW f \in BeforeSelections, f # "none"
  PROVE  ~ForDebugOnly
BY SelectedIsEffective DEF BeforeSelections, ForDebugOnly, HasEffectiveWeight

LEMMA BeforeSelectionsAlike == Plain!BeforeSelections = BeforeSelections
BY ChoicesAlike DEF Plain!BeforeSelections, BeforeSelections

\* A fault is recorded and counted in both sessions.
LEMMA InjectedAlike ==
  ASSUME DebugInv, op \in Operation, NEW fault, NEW phase,
         Record(Injected(fault, phase)), CountIntervention
  PROVE  /\ Stable
         /\ Plain!Record(Plain!Injected(fault, phase)) /\ Plain!CountIntervention
<1>1. Plain!Injected(fault, phase) = [Injected(fault, phase) EXCEPT !.seq = Plain!NextSeq]
  BY EventsAlike DEF Plain!Injected, Injected
<1>2. Injected(fault, phase).type # "decision_evaluated" /\ LogTypeOK /\ BookInv
  BY DEF Injected, OperationEventOf, DebugInv, TypeOK
<1>3. Plain!Record(Plain!Injected(fault, phase)) /\ Stable
  BY <1>1, <1>2, RecordsAlike
<1> QED
  BY <1>3, OperationsAlike DEF CountIntervention, Plain!CountIntervention

LEMMA RaiseBeforeAlike ==
  ASSUME ~LogMayFail, DebugInv, NEW fault, RaiseBefore(fault)
  PROVE  Plain!RaiseBefore(fault)
<1>1. /\ pc = "before" /\ op \in Operation /\ fault \in BeforeSelections \cap BeforeExecuteErrors
      /\ Record(Injected(fault, "before_execute")) /\ CountIntervention /\ Exit(Nothing)
      /\ UNCHANGED houseVars
  BY DEF RaiseBefore, Inject, RecordFails, DebugInv, TypeOK, CallTypeOK
<1>2. PlainPc = "before"
  <2>1. fault # "none"
    BY <1>1 DEF BeforeExecuteErrors
  <2> QED
    BY <1>1, <2>1, BeforeIsEffective DEF PlainPc
<1>3. /\ Stable /\ Plain!CountIntervention
      /\ Plain!Record(Plain!Injected(fault, "before_execute"))
  BY <1>1, InjectedAlike
<1>4. UNCHANGED Plain!houseVars
  BY <1>1, <1>3, SamePlainHouse DEF houseVars, Plain!houseVars
<1>5. Plain!Exit(Plain!Nothing)
  BY <1>1, ExitsAlike DEF Nothing, Plain!Nothing
<1>6. fault \in Plain!BeforeSelections \cap Plain!BeforeExecuteErrors
  BY <1>1, BeforeSelectionsAlike, ChoicesAlike
<1> QED
  BY <1>2, <1>3, <1>4, <1>5, <1>6
     DEF RaiseBefore, Plain!RaiseBefore, Plain!Inject, scheduleVars, Plain!scheduleVars,
         moodVars, Plain!moodVars

LEMMA DelayAlike ==
  ASSUME ~LogMayFail, DebugInv, Delay
  PROVE  Plain!Delay
<1> DEFINE next == [op EXCEPT !.slot = "consumed"]
<1>1. /\ pc = "before" /\ op \in Operation /\ "SLOTH" \in BeforeSelections
      /\ Record(Injected("SLOTH", "before_execute")) /\ CountIntervention
      /\ Continue("backend", next)
      /\ UNCHANGED <<houseVars, scheduleVars, moodVars, classified, passthroughs, tick, occurrence>>
  BY DEF Delay, Inject, RecordFails, DebugInv, TypeOK, CallTypeOK
<1>2. PlainPc = "before" /\ PlainOp = op
  BY <1>1, BeforeIsEffective, OperationsAlike DEF PlainPc
<1>3. /\ Stable /\ Plain!CountIntervention
      /\ Plain!Record(Plain!Injected("SLOTH", "before_execute"))
  BY <1>1, InjectedAlike
<1>4. UNCHANGED <<Plain!houseVars, PlainReturning>>
  BY <1>1, <1>3, SamePlainHouse, SamePlainReturning DEF houseVars, Plain!houseVars, Continue
<1>5. PlainPc' = "backend" /\ PlainOp' = next
  BY <1>1 DEF Continue, PlainPc, PlainOp, Operation
<1>6. Plain!Continue("backend", next)
  BY <1>1, <1>4, <1>5 DEF Continue, Plain!Continue, staleVars, Plain!staleVars
<1> QED
  BY <1>1, <1>2, <1>3, <1>4, <1>6, BeforeSelectionsAlike
     DEF Plain!Delay, Plain!Inject, scheduleVars, Plain!scheduleVars, moodVars, Plain!moodVars

\* An event of debug, or none, leaves the log without debug as it is.
LEMMA DebuggedIsUnseen ==
  ASSUME DebugInv, NEW phase,
         Record(DecisionEvaluated(phase)) \/ UNCHANGED logVars
  PROVE  Stable /\ UNCHANGED <<PlainLog, PlainSeq>>
<1>1. DecisionEvaluated(phase).type = "decision_evaluated"
  BY DEF DecisionEvaluated, OperationEventOf
<1> QED
  BY <1>1, DebugIsStable, QuietIsStable DEF DebugInv, TypeOK, logVars

LEMMA PassBeforeAlike ==
  ASSUME ~LogMayFail, DebugInv, PassBefore
  PROVE  Plain!PassBefore \/ UNCHANGED Plain!vars
<1> DEFINE next == [op EXCEPT !.slot = "evaluated"]
<1>1. /\ pc = "before" /\ op \in Operation /\ op.slot = "open" /\ "none" \in BeforeSelections
      /\ Continue("backend", next)
      /\ Record(DecisionEvaluated("before_execute")) \/ UNCHANGED logVars
      /\ UNCHANGED <<houseVars, scheduleVars, moodVars, statsVars, tick, occurrence>>
  BY DEF PassBefore, Debugged, Emit, RecordFails, DebugInv, TypeOK, CallTypeOK, PhaseInv
<1>2. Stable /\ UNCHANGED <<PlainLog, PlainSeq>>
  BY <1>1, DebuggedIsUnseen
<1>3. UNCHANGED <<PlainTreasures, PlainReturning>>
  BY <1>1, <1>2, SamePlainHouse, SamePlainReturning DEF houseVars, Continue
<1>4. ForDebugOnly' = ForDebugOnly
  BY <1>1 DEF ForDebugOnly, moodVars
<1>5. pc' = "backend" /\ op' = next /\ next # NoOperation /\ next.slot = "evaluated" /\ PlainOp = op
  BY <1>1, OperationsAlike DEF Continue, NoOperation, Operation
<1>6. CASE ForDebugOnly
  <2>1. PlainPc = "backend" /\ PlainPc' = "backend"
    BY <1>1, <1>5, <1>6 DEF PlainPc
  <2>2. PlainOp' = op
    <3>1. PlainOp' = [next EXCEPT !.slot = "open"]
      BY <1>4, <1>5, <1>6 DEF PlainOp
    <3> QED
      BY <1>1, <3>1 DEF Operation
  <2> QED
    BY <1>1, <1>2, <1>3, <1>5, <2>1, <2>2
       DEF Continue, Plain!vars, Plain!houseVars, Plain!logVars, houseVars, scheduleVars,
           Plain!scheduleVars, moodVars, Plain!moodVars, statsVars, Plain!statsVars,
           staleVars, Plain!staleVars, Plain!callVars
<1>7. CASE ~ForDebugOnly
  <2>1. PlainPc = "before" /\ PlainPc' = "backend" /\ PlainOp' = next
    BY <1>1, <1>4, <1>5, <1>7 DEF PlainPc, PlainOp
  <2>2. Plain!Continue("backend", next)
    BY <1>1, <1>3, <2>1 DEF Continue, Plain!Continue, staleVars, Plain!staleVars
  <2>3. UNCHANGED <<Plain!houseVars, Plain!logVars>>
    BY <1>1, <1>2, <1>3 DEF houseVars, Plain!houseVars, Plain!logVars
  <2> QED
    BY <1>1, <1>5, <2>1, <2>2, <2>3, BeforeSelectionsAlike
       DEF Plain!PassBefore, Plain!Debugged, scheduleVars, Plain!scheduleVars, moodVars,
           Plain!moodVars, statsVars, Plain!statsVars
<1> QED
  BY <1>6, <1>7

-----------------------------------------------------------------------------
(* The backend *)

LEMMA BackendRaisesAlike ==
  ASSUME DebugInv, BackendRaises
  PROVE  Plain!BackendRaises
<1>1. PlainPc = "backend" /\ UNCHANGED <<Plain!houseVars, Plain!logVars>>
  BY QuietStep DEF BackendRaises, PlainPc
<1>2. Plain!Exit(Plain!Nothing)
  BY ExitsAlike DEF BackendRaises, Nothing, Plain!Nothing
<1> QED
  BY <1>1, <1>2 DEF BackendRaises, Plain!BackendRaises, scheduleVars, Plain!scheduleVars,
     moodVars, Plain!moodVars, statsVars, Plain!statsVars

\* A limit is recorded in both sessions.
LEMMA LimitAlike ==
  ASSUME DebugInv, op \in Operation, NEW limit, Record(LimitExceeded(limit))
  PROVE  Stable /\ Plain!Record(Plain!LimitExceeded(limit))
<1>1. Plain!LimitExceeded(limit) = [LimitExceeded(limit) EXCEPT !.seq = Plain!NextSeq]
  BY EventsAlike DEF Plain!LimitExceeded, LimitExceeded
<1>2. LimitExceeded(limit).type # "decision_evaluated" /\ LogTypeOK /\ BookInv
  BY DEF LimitExceeded, OperationEventOf, DebugInv, TypeOK
<1> QED
  BY <1>1, <1>2, RecordsAlike

LEMMA ExceedCapAlike ==
  ASSUME ~LogMayFail, DebugInv, ExceedCap
  PROVE  Plain!ExceedCap
<1>1. /\ pc = "backend" /\ op \in Operation /\ CappedRead /\ MaxResultRows < MaxRows
      /\ Record(LimitExceeded("max_result_rows")) /\ Exit(Nothing)
      /\ UNCHANGED <<houseVars, scheduleVars, moodVars, statsVars, tick, occurrence>>
  BY DEF ExceedCap, Emit, RecordFails, DebugInv, TypeOK, CallTypeOK
<1>2. Stable /\ Plain!Record(Plain!LimitExceeded("max_result_rows"))
  BY <1>1, LimitAlike
<1>3. PlainPc = "backend" /\ Plain!CappedRead
  BY <1>1, StatementsAlike DEF PlainPc
<1>4. UNCHANGED Plain!houseVars
  BY <1>1, <1>2, SamePlainHouse DEF houseVars, Plain!houseVars
<1>5. Plain!Exit(Plain!Nothing)
  BY <1>1, ExitsAlike DEF Nothing, Plain!Nothing
<1> QED
  BY <1>1, <1>2, <1>3, <1>4, <1>5
     DEF Plain!ExceedCap, Plain!Emit, scheduleVars, Plain!scheduleVars, moodVars,
         Plain!moodVars, statsVars, Plain!statsVars

LEMMA BackendReturnsAlike ==
  ASSUME ~LogMayFail, DebugInv, NEW rows, BackendReturns(rows)
  PROVE  Plain!BackendReturns(rows)
<1> DEFINE next == [op EXCEPT !.rows = rows]
<1>1. /\ pc = "backend" /\ op \in Operation /\ (CappedRead => rows <= MaxResultRows)
      /\ Continue("result", next)
      /\ Record(DecisionEvaluated("before_execute")) \/ UNCHANGED logVars
      /\ UNCHANGED <<houseVars, scheduleVars, moodVars, statsVars, tick, occurrence>>
  BY DEF BackendReturns, Debugged, Emit, RecordFails, DebugInv, TypeOK, CallTypeOK
<1>2. Stable /\ UNCHANGED <<PlainLog, PlainSeq>>
  BY <1>1, DebuggedIsUnseen
<1>3. UNCHANGED <<PlainTreasures, PlainReturning>>
  BY <1>1, <1>2, SamePlainHouse, SamePlainReturning DEF houseVars, Continue
<1>4. PlainPc = "backend" /\ PlainPc' = "result" /\ Plain!CappedRead = CappedRead
  BY <1>1, StatementsAlike DEF Continue, PlainPc
<1>5. PlainOp' = [PlainOp EXCEPT !.rows = rows]
  <2>1. ForDebugOnly' = ForDebugOnly /\ op' = next
    BY <1>1 DEF ForDebugOnly, moodVars, Continue
  <2>2. op # NoOperation /\ next # NoOperation /\ next.slot = op.slot
    BY <1>1 DEF NoOperation, Operation
  <2>3. [next EXCEPT !.slot = "open"] = [[op EXCEPT !.slot = "open"] EXCEPT !.rows = rows]
    BY <1>1 DEF Operation
  <2> HIDE DEF next
  <2>4. PlainOp' = IF next.slot = "evaluated" /\ ForDebugOnly
                     THEN [next EXCEPT !.slot = "open"] ELSE next
    BY <2>1, <2>2 DEF PlainOp
  <2>5. PlainOp = IF op.slot = "evaluated" /\ ForDebugOnly
                    THEN [op EXCEPT !.slot = "open"] ELSE op
    BY <2>2 DEF PlainOp
  <2> QED
    BY <2>2, <2>3, <2>4, <2>5 DEF next
<1>6. Plain!Continue("result", [PlainOp EXCEPT !.rows = rows])
  BY <1>1, <1>3, <1>4, <1>5 DEF Continue, Plain!Continue, staleVars, Plain!staleVars
<1>7. UNCHANGED <<Plain!houseVars, Plain!logVars>>
  BY <1>1, <1>2, <1>3 DEF houseVars, Plain!houseVars, Plain!logVars
<1> QED
  BY <1>1, <1>4, <1>6, <1>7
     DEF Plain!BackendReturns, Plain!Debugged, scheduleVars, Plain!scheduleVars, moodVars,
         Plain!moodVars, statsVars, Plain!statsVars

-----------------------------------------------------------------------------
(* on_result *)

LEMMA EvaluatesAlike ==
  ASSUME op \in Operation
  PROVE  Plain!EvaluateOnResult <=>
           /\ ScopedSelect /\ op.slot # "consumed"
           /\ Oversized \/ OldBoneOn \/ HasEffectiveWeight(OnResultPriority, mood)
<1>1. Plain!ScopedSelect = ScopedSelect /\ Plain!Oversized = Oversized
  BY StatementsAlike
<1>2. PlainOp.slot = "consumed" <=> op.slot = "consumed"
  BY OperationsAlike
<1> QED
  BY <1>1, <1>2, ChoicesAlike DEF Plain!EvaluateOnResult

\* on_result is evaluated for the sake of debug alone only where no mood has
\* STASH.
LEMMA EvaluatedForDebugOnly ==
  ASSUME NoMoodDisarmsStash, DebugInv, op \in Operation, EvaluateOnResult,
         ~Plain!EvaluateOnResult
  PROVE  /\ ~HasEffectiveWeight(OnResultPriority, mood)
         /\ treasures = {} /\ released = {}
<1>1. ~OldBoneOn /\ ~HasEffectiveWeight(OnResultPriority, mood)
  BY EvaluatesAlike DEF EvaluateOnResult
<1>2. StashRuledOut
  BY <1>1 DEF NoMoodDisarmsStash, StashRuledOut, DebugInv, PhaseInv
<1> QED
  BY <1>1, <1>2 DEF DebugInv, PhaseInv

\* A fault that is drawn in on_result has a weight.
LEMMA ChosenIsEffective ==
  ASSUME NEW eligible, NEW f \in Selections(OnResultPriority, eligible, mood), f # "none"
  PROVE  HasEffectiveWeight(OnResultPriority, mood)
BY SelectedIsEffective DEF HasEffectiveWeight

LEMMA SkipOnResultAlike ==
  ASSUME DebugInv, SkipOnResult
  PROVE  Plain!SkipOnResult
<1>1. op \in Operation /\ PlainPc = "result" /\ UNCHANGED <<Plain!houseVars, Plain!logVars>>
  BY QuietStep DEF SkipOnResult, DebugInv, TypeOK, CallTypeOK, PlainPc
<1>2. Plain!Deliver(Plain!BackendRows)
  BY <1>1, DeliversAlike, StatementsAlike DEF SkipOnResult
<1>3. ~Plain!EvaluateOnResult
  BY <1>1, EvaluatesAlike DEF SkipOnResult, EvaluateOnResult
<1> QED
  BY <1>1, <1>2, <1>3
     DEF SkipOnResult, Plain!SkipOnResult, scheduleVars, Plain!scheduleVars, moodVars,
         Plain!moodVars, statsVars, Plain!statsVars

LEMMA ExceedInterventionLimitAlike ==
  ASSUME ~LogMayFail, DebugInv, ExceedInterventionLimit
  PROVE  Plain!ExceedInterventionLimit
<1>1. /\ pc = "result" /\ op \in Operation /\ EvaluateOnResult /\ Oversized
      /\ Record(LimitExceeded("max_intervention_rows"))
      /\ IF OversizeRaises THEN Exit(Nothing) ELSE Deliver(BackendRows)
      /\ UNCHANGED <<houseVars, scheduleVars, moodVars, statsVars, tick, occurrence>>
  BY DEF ExceedInterventionLimit, Emit, RecordFails, DebugInv, TypeOK, CallTypeOK
<1>2. Stable /\ Plain!Record(Plain!LimitExceeded("max_intervention_rows"))
  BY <1>1, LimitAlike
<1>3. PlainPc = "result" /\ Plain!Oversized /\ Plain!EvaluateOnResult
  BY <1>1, StatementsAlike, EvaluatesAlike DEF PlainPc, EvaluateOnResult
<1>4. UNCHANGED Plain!houseVars
  BY <1>1, <1>2, SamePlainHouse DEF houseVars, Plain!houseVars
<1>5. IF OversizeRaises THEN Plain!Exit(Plain!Nothing) ELSE Plain!Deliver(Plain!BackendRows)
  BY <1>1, ExitsAlike, DeliversAlike, StatementsAlike DEF Nothing, Plain!Nothing
<1> QED
  BY <1>1, <1>2, <1>3, <1>4, <1>5
     DEF Plain!ExceedInterventionLimit, Plain!Emit, scheduleVars, Plain!scheduleVars,
         moodVars, Plain!moodVars, statsVars, Plain!statsVars

LEMMA NoDropAlike == Plain!NoDropSelections = NoDropSelections
BY ChoicesAlike DEF Plain!NoDropSelections, NoDropSelections

LEMMA LoseResponseAlike ==
  ASSUME ~LogMayFail, NoMoodDisarmsStash, DebugInv, LoseResponse
  PROVE  Plain!LoseResponse
<1>1. /\ pc = "result" /\ op \in Operation /\ EvaluateOnResult /\ ~Oversized
      /\ "NO_DROP" \in NoDropSelections
      /\ Record(Injected("NO_DROP", "on_result")) /\ CountIntervention /\ Exit(Nothing)
      /\ UNCHANGED <<houseVars, scheduleVars, moodVars, classified, passthroughs, tick, occurrence>>
  BY DEF LoseResponse, Inject, RecordFails, DebugInv, TypeOK, CallTypeOK
<1>2. Plain!EvaluateOnResult /\ ~Plain!Oversized /\ PlainPc = "result"
  BY <1>1, ChosenIsEffective, EvaluatedForDebugOnly, StatementsAlike
     DEF NoDropSelections, PlainPc
<1>3. /\ Stable /\ Plain!CountIntervention
      /\ Plain!Record(Plain!Injected("NO_DROP", "on_result"))
  BY <1>1, InjectedAlike
<1>4. UNCHANGED Plain!houseVars
  BY <1>1, <1>3, SamePlainHouse DEF houseVars, Plain!houseVars
<1>5. Plain!Exit(Plain!Nothing)
  BY <1>1, ExitsAlike DEF Nothing, Plain!Nothing
<1> QED
  BY <1>1, <1>2, <1>3, <1>4, <1>5, NoDropAlike
     DEF Plain!LoseResponse, Plain!Inject, scheduleVars, Plain!scheduleVars, moodVars,
         Plain!moodVars

LEMMA PastNoDropAlike ==
  ASSUME op \in Operation, PastNoDrop, Plain!EvaluateOnResult
  PROVE  Plain!PastNoDrop
BY StatementsAlike, NoDropAlike DEF PastNoDrop, Plain!PastNoDrop, PlainPc

LEMMA HideTreasuresAlike ==
  ASSUME NoMoodDisarmsStash, DebugInv, HideTreasures
  PROVE  Plain!HideTreasures
<1> DEFINE active == ActiveFor(op.template)
           hidden == {t.row : t \in active}
<1>1. /\ op \in Operation /\ PastNoDrop /\ active # {} /\ EvaluateOnResult
      /\ Deliver(HideRows(BackendRows, hidden)) /\ CountIntervention
      /\ UNCHANGED <<houseVars, scheduleVars, moodVars, logVars, classified, passthroughs,
                     tick, occurrence>>
  BY DEF HideTreasures, PastNoDrop, DebugInv, TypeOK, CallTypeOK
<1>2. Plain!PastNoDrop
  BY <1>1, EvaluatedForDebugOnly, PastNoDropAlike DEF ActiveFor
<1>3. Plain!ActiveFor(PlainOp.template) = {Renumbered(t) : t \in active}
  BY <1>1, HousesAlike, OperationsAlike DEF DebugInv
<1>4. /\ Plain!ActiveFor(PlainOp.template) # {}
      /\ {u.row : u \in Plain!ActiveFor(PlainOp.template)} = hidden
  <2>1. \A t \in active : Renumbered(t).row = t.row
    BY RenumberedAlike DEF DebugInv, TypeOK, HouseTypeOK, ActiveFor
  <2> HIDE DEF active
  <2>2. {u.row : u \in {Renumbered(t) : t \in active}} = {t.row : t \in active}
    BY <2>1
  <2> QED
    BY <1>1, <1>3, <2>2
<1>5. \A rows, h : Plain!HideRows(rows, h) = HideRows(rows, h)
  <2>1. \A S : Plain!Cardinality(S) = Cardinality(S)
    BY Zenon DEF Plain!Cardinality, Cardinality, Plain!IsFiniteSet, IsFiniteSet
  <2>2. \A S, k : Plain!Nth(S, k) = Nth(S, k)
    BY <2>1, Zenon DEF Plain!Nth, Nth
  <2> QED
    BY <2>1, <2>2 DEF Plain!HideRows, HideRows
<1> HIDE DEF hidden
<1>6. Plain!Deliver(HideRows(BackendRows, hidden)) /\ Plain!BackendRows = BackendRows
  BY <1>1, DeliversAlike, StatementsAlike
<1>7. Plain!CountIntervention /\ UNCHANGED <<Plain!houseVars, Plain!logVars>>
  BY <1>1, QuietStep, OperationsAlike DEF CountIntervention, Plain!CountIntervention
<1> QED
  BY <1>1, <1>2, <1>4, <1>5, <1>6, <1>7
     DEF Plain!HideTreasures, scheduleVars, Plain!scheduleVars, moodVars, Plain!moodVars

\* The same fault is chosen, if it is chosen for its own sake.
LEMMA ChoosesAlike ==
  ASSUME DebugInv, NEW fault, Choose(fault), Plain!EvaluateOnResult
  PROVE  Plain!Choose(fault)
<1>1. op \in Operation /\ PastNoDrop
  BY DEF Choose, PastNoDrop, DebugInv, TypeOK, CallTypeOK
<1>2. Plain!PastNoDrop
  BY <1>1, PastNoDropAlike
<1>3. Plain!ActiveFor(PlainOp.template) = {} /\ PlainOp.template = op.template
  BY <1>1, HousesAlike, OperationsAlike DEF Choose, DebugInv
<1>4. \E chewable \in BOOLEAN :
        fault \in Plain!Selections(Plain!OnResultPriority, Plain!Candidates(chewable), mood)
  BY <1>1, ChoicesAlike, CandidatesAlike DEF Choose
<1> QED
  BY <1>2, <1>3, <1>4 DEF Choose, Plain!Choose, HouseConsumeRelease, Plain!HouseConsumeRelease

LEMMA ChoosesForItself ==
  ASSUME NoMoodDisarmsStash, DebugInv, NEW fault, fault # "none", Choose(fault)
  PROVE  Plain!Choose(fault) /\ op \in Operation
<1>1. op \in Operation /\ EvaluateOnResult
  BY DEF Choose, PastNoDrop, DebugInv, TypeOK, CallTypeOK
<1>2. HasEffectiveWeight(OnResultPriority, mood)
  BY ChosenIsEffective DEF Choose
<1>3. Plain!EvaluateOnResult
  BY <1>1, <1>2, EvaluatedForDebugOnly
<1> QED
  BY <1>1, <1>3, ChoosesAlike

LEMMA AcceptsAlike ==
  ASSUME DebugInv, NEW t, NEW u,
         u.template = t.template, u.row = t.row, u.occurrence = t.occurrence
  PROVE  /\ Plain!HouseAccepts(u) <=> HouseAccepts(t)
         /\ Plain!TreasureId(u) = TreasureId(t) /\ Plain!Location(u) = Location(t)
<1>1. Plain!TreasureId(u) = TreasureId(t) /\ Plain!Location(u) = Location(t)
  BY DEF Plain!TreasureId, TreasureId, Plain!Location, Location
<1>2. Plain!Holding(TreasureId(t)) = {} <=> Holding(TreasureId(t)) = {}
  BY HousesAlike DEF DebugInv
<1>3. Plain!Cardinality(PlainTreasures) = Cardinality(treasures)
  BY HousesAlike DEF DebugInv
<1> QED
  BY <1>1, <1>2, <1>3 DEF Plain!HouseAccepts, HouseAccepts

LEMMA StashAlike ==
  ASSUME ~LogMayFail, NoMoodDisarmsStash, DebugInv, NEW row, Stash(row)
  PROVE  Plain!Stash(row)
<1>1. PICK t : t = NewTreasure(row)
  OBVIOUS
<1>2. PICK u : u = Plain!NewTreasure(row)
  OBVIOUS
<1> DEFINE e == TreasureEventOf("fault_injected", "STASH", "on_result", t)
<1>3. /\ Choose("STASH") /\ row < op.rows /\ HouseAdd(t)
      /\ IF AutoReturnOn THEN \E hold \in MinHold .. MaxHold : Schedule(TreasureId(t), hold)
                         ELSE UNCHANGED scheduleVars
      /\ Record(e) /\ CountIntervention
      /\ IF StashRaises THEN Exit(Nothing) ELSE Deliver(WithoutRow(BackendRows, row + 1))
      /\ UNCHANGED <<moodVars, classified, passthroughs, tick, occurrence>>
  BY <1>1 DEF Stash, Inject, RecordFails
<1>4. Plain!Choose("STASH") /\ op \in Operation
  BY <1>3, ChoosesForItself
<1>5. /\ u.template = t.template /\ u.row = t.row /\ u.occurrence = t.occurrence
      /\ t.seq = NextSeq /\ u = [t EXCEPT !.seq = PlainSeq + 1]
  BY <1>1, <1>2, <1>4, OperationsAlike
     DEF NewTreasure, Plain!NewTreasure, Plain!NextSeq
<1>6. /\ Stable
      /\ Plain!Record(Plain!TreasureEventOf("fault_injected", "STASH", "on_result", u))
  <2>1. e.type # "decision_evaluated" /\ LogTypeOK /\ BookInv
    BY DEF TreasureEventOf, DebugInv, TypeOK
  <2>2. Plain!TreasureEventOf("fault_injected", "STASH", "on_result", u)
          = [e EXCEPT !.seq = Plain!NextSeq]
    <3>1. u.template = t.template /\ u.row = t.row /\ u.occurrence = t.occurrence
      BY <1>5
    <3> QED
      BY <3>1 DEF TreasureEventOf, Plain!TreasureEventOf
  <2> HIDE DEF e
  <2> QED
    BY <1>3, <2>1, <2>2, RecordsAlike
<1>7. Plain!HouseAdd(u)
  <2>1. Plain!HouseAccepts(u) /\ Plain!Location(u) = Location(t)
    BY <1>3, <1>5, AcceptsAlike DEF HouseAdd
  <2>2. Renumbered(t)' = u
    <3>1. NumberOf(t.seq)' = PlainSeq + 1
      <4>1. e.type # "decision_evaluated" /\ LogTypeOK /\ LogNumbered
        BY DEF TreasureEventOf, DebugInv, TypeOK, BookInv
      <4> HIDE DEF e
      <4> QED
        BY <1>3, <1>5, <4>1, LastingEventKept
    <3> QED
      BY <1>5, <3>1 DEF Renumbered
  <2>3. treasures' = treasures \cup {t} /\ \A v \in treasures : Renumbered(v)' = Renumbered(v)
    BY <1>3, <1>6 DEF HouseAdd, Stable, Kept
  <2>4. PlainTreasures' = PlainTreasures \cup {u}
    BY <2>2, <2>3 DEF PlainTreasures
  <2> QED
    BY <1>3, <2>1, <2>4 DEF HouseAdd, Plain!HouseAdd
<1>8. IF AutoReturnOn
        THEN \E hold \in MinHold .. MaxHold : Plain!Schedule(Plain!TreasureId(u), hold)
        ELSE UNCHANGED Plain!scheduleVars
  <2>1. Plain!TreasureId(u) = TreasureId(t)
    BY <1>5, AcceptsAlike
  <2>2. \A hold : Schedule(TreasureId(t), hold) => Plain!Schedule(TreasureId(t), hold)
    BY DEF Schedule, Plain!Schedule, Without, Plain!Without
  <2> QED
    BY <1>3, <2>1, <2>2 DEF scheduleVars, Plain!scheduleVars
<1>9. IF StashRaises THEN Plain!Exit(Plain!Nothing)
                     ELSE Plain!Deliver(Plain!WithoutRow(Plain!BackendRows, row + 1))
  <2>1. \A rows, i : Plain!WithoutRow(rows, i) = WithoutRow(rows, i)
    BY DEF Plain!WithoutRow, WithoutRow
  <2> QED
    BY <1>3, <1>4, <2>1, ExitsAlike, DeliversAlike, StatementsAlike DEF Nothing, Plain!Nothing
<1>10. Plain!CountIntervention /\ row < PlainOp.rows
  BY <1>3, <1>4, OperationsAlike DEF CountIntervention, Plain!CountIntervention
<1> QED
  BY <1>2, <1>3, <1>4, <1>6, <1>7, <1>8, <1>9, <1>10
     DEF Plain!Stash, Plain!Inject, moodVars, Plain!moodVars

LEMMA StashRefusedAlike ==
  ASSUME NoMoodDisarmsStash, DebugInv, NEW row, StashRefused(row)
  PROVE  Plain!StashRefused(row)
<1>1. Plain!Choose("STASH") /\ op \in Operation
  BY ChoosesForItself DEF StashRefused
<1>2. row < PlainOp.rows /\ ~Plain!HouseAccepts(Plain!NewTreasure(row))
  <2>1. /\ Plain!NewTreasure(row).template = NewTreasure(row).template
        /\ Plain!NewTreasure(row).row = NewTreasure(row).row
        /\ Plain!NewTreasure(row).occurrence = NewTreasure(row).occurrence
    BY <1>1, OperationsAlike DEF NewTreasure, Plain!NewTreasure
  <2> QED
    BY <1>1, <2>1, AcceptsAlike, OperationsAlike DEF StashRefused
<1>3. Plain!Deliver(Plain!BackendRows)
  BY <1>1, DeliversAlike, StatementsAlike DEF StashRefused
<1>4. Stable /\ UNCHANGED <<PlainLog, PlainSeq>>
  BY QuietIsStable DEF StashRefused, logVars
<1>5. UNCHANGED <<PlainTreasures, occupied>> /\ UNCHANGED Plain!logVars
  BY <1>4, SamePlainHouse DEF StashRefused, Plain!logVars
<1> QED
  BY <1>1, <1>2, <1>3, <1>5
     DEF StashRefused, Plain!StashRefused, scheduleVars, Plain!scheduleVars, moodVars,
         Plain!moodVars, statsVars, Plain!statsVars

LEMMA ReplayAlike ==
  ASSUME ~LogMayFail, NoMoodDisarmsStash, DebugInv, NEW entry, Replay(entry)
  PROVE  Plain!Replay(entry)
<1>1. /\ Choose("OLD_BONE") /\ entry \in History(op.template)
      /\ Record(StaleEventOf(entry)) /\ CountIntervention /\ Deliver(entry.rows)
      /\ UNCHANGED <<treasures, occupied, scheduleVars, moodVars, classified, passthroughs,
                     tick, occurrence>>
  BY DEF Replay, Inject, RecordFails
<1>2. Plain!Choose("OLD_BONE") /\ op \in Operation
  BY <1>1, ChoosesForItself
<1>3. Stable /\ Plain!Record(Plain!StaleEventOf(entry))
  <2>1. Plain!StaleEventOf(entry) = [StaleEventOf(entry) EXCEPT !.seq = Plain!NextSeq]
    BY <1>2, EventsAlike
  <2>2. StaleEventOf(entry).type # "decision_evaluated" /\ LogTypeOK /\ BookInv
    BY DEF StaleEventOf, DebugInv, TypeOK
  <2> QED
    BY <1>1, <2>1, <2>2, RecordsAlike
<1>4. Plain!CountIntervention /\ Plain!Deliver(entry.rows)
  BY <1>1, <1>2, DeliversAlike, OperationsAlike DEF CountIntervention, Plain!CountIntervention
<1>5. entry \in Plain!History(PlainOp.template)
  BY <1>1, <1>2, OperationsAlike DEF Plain!History, History, Plain!OfKey, OfKey, Plain!Index, Index
<1>6. UNCHANGED PlainTreasures
  BY <1>1, <1>3, SamePlainHouse
<1> QED
  BY <1>1, <1>2, <1>3, <1>4, <1>5, <1>6
     DEF Plain!Replay, Plain!Inject, scheduleVars, Plain!scheduleVars, moodVars, Plain!moodVars

LEMMA ReshapeAlike ==
  ASSUME ~LogMayFail, NoMoodDisarmsStash, DebugInv,
         NEW fault \in Members(OnResultPriority), Reshape(fault)
  PROVE  Plain!Reshape(fault)
<1>1. /\ fault \notin {"STASH", "OLD_BONE"} /\ Choose(fault)
      /\ Record(Injected(fault, "on_result")) /\ CountIntervention
      /\ IF fault = "TAIL_CHASE" /\ TailChaseRaises THEN Exit(Nothing)
         ELSE \E rows \in Shapes(fault, BackendRows) : Deliver(rows)
      /\ UNCHANGED <<treasures, occupied, scheduleVars, moodVars, classified, passthroughs,
                     tick, occurrence>>
  BY DEF Reshape, Inject, RecordFails
<1>2. Plain!Choose(fault) /\ op \in Operation
  <2>1. fault # "none"
    BY DEF Members, OnResultPriority
  <2> QED
    BY <1>1, <2>1, ChoosesForItself
<1>3. /\ Stable /\ Plain!CountIntervention
      /\ Plain!Record(Plain!Injected(fault, "on_result"))
  BY <1>1, <1>2, InjectedAlike
<1>4. UNCHANGED PlainTreasures
  BY <1>1, <1>3, SamePlainHouse
<1>5. \A rows : Plain!Shapes(fault, rows) = Shapes(fault, rows)
  BY DEF Plain!Shapes, Shapes, Plain!TailChase, TailChase, Plain!PageHole, PageHole,
     Plain!Echo, Echo, Plain!Shuffles, Shuffles
<1>6. IF fault = "TAIL_CHASE" /\ TailChaseRaises THEN Plain!Exit(Plain!Nothing)
      ELSE \E rows \in Plain!Shapes(fault, Plain!BackendRows) : Plain!Deliver(rows)
  BY <1>1, <1>2, <1>5, ExitsAlike, DeliversAlike, StatementsAlike DEF Nothing, Plain!Nothing
<1> QED
  BY <1>1, <1>2, <1>3, <1>4, <1>6
     DEF Plain!Reshape, Plain!Inject, scheduleVars, Plain!scheduleVars, moodVars, Plain!moodVars

\* Where nothing is drawn a result that debug alone looks at is passed on.
LEMMA DeliverWholeAlike ==
  ASSUME ~LogMayFail, NoMoodDisarmsStash, DebugInv, DeliverWhole
  PROVE  Plain!DeliverWhole \/ Plain!SkipOnResult
<1>1. /\ pc = "result" /\ op \in Operation /\ EvaluateOnResult /\ Choose("none")
      /\ Record(DecisionEvaluated("on_result")) \/ UNCHANGED logVars
      /\ Deliver(BackendRows)
      /\ UNCHANGED <<treasures, occupied, scheduleVars, moodVars, statsVars, tick, occurrence>>
  BY DEF DeliverWhole, Debugged, Emit, RecordFails, Choose, PastNoDrop, DebugInv, TypeOK,
     CallTypeOK
<1>2. Stable /\ UNCHANGED <<PlainLog, PlainSeq>>
  BY <1>1, DebuggedIsUnseen
<1>3. UNCHANGED PlainTreasures
  BY <1>1, <1>2, SamePlainHouse
<1>4. Plain!Deliver(Plain!BackendRows) /\ PlainPc = "result"
  BY <1>1, DeliversAlike, StatementsAlike DEF PlainPc
<1>5. CASE Plain!EvaluateOnResult
  <2>1. Plain!Choose("none")
    BY <1>1, <1>5, ChoosesAlike
  <2> QED
    BY <1>1, <1>2, <1>3, <1>4, <2>1
       DEF Plain!DeliverWhole, Plain!Debugged, Plain!logVars, scheduleVars, Plain!scheduleVars,
           moodVars, Plain!moodVars, statsVars, Plain!statsVars
<1>6. CASE ~Plain!EvaluateOnResult
  <2>1. released = {} /\ released' = {}
    BY <1>1, <1>6, EvaluatedForDebugOnly DEF Choose, HouseConsumeRelease
  <2> QED
    BY <1>1, <1>2, <1>3, <1>4, <1>6, <2>1
       DEF Plain!SkipOnResult, Plain!houseVars, Plain!logVars, scheduleVars, Plain!scheduleVars,
           moodVars, Plain!moodVars, statsVars, Plain!statsVars
<1> QED
  BY <1>5, <1>6

-----------------------------------------------------------------------------
(* The client *)

LEMMA CallAlike ==
  ASSUME DebugInv, NEW method, NEW params, NEW template, Call(method, params, template)
  PROVE  Plain!Call(method, params, template)
<1>1. UNCHANGED <<Plain!houseVars, Plain!logVars, PlainReturning>>
  BY QuietStep, SamePlainReturning DEF Call
<1>2. PlainPc = "idle" /\ PlainPc' = "begin" /\ PlainOp' = op'
  BY DEF Call, PlainPc, PlainOp
<1>3. Plain!Due(tick + 1) = Due(tick + 1)
  BY DEF Plain!Due, Due
<1> QED
  BY <1>1, <1>2, <1>3
     DEF Call, Plain!Call, ScheduleAdvance, Plain!ScheduleAdvance, Clocked, Plain!Clocked,
         Nothing, Plain!Nothing, scheduleVars, Plain!scheduleVars, moodVars, Plain!moodVars,
         statsVars, Plain!statsVars, staleVars, Plain!staleVars

LEMMA CancelsAlike ==
  /\ \A id : ScheduleCancel(id) => Plain!ScheduleCancel(id)
  /\ UNCHANGED scheduleVars => UNCHANGED Plain!scheduleVars
BY DEF ScheduleCancel, Plain!ScheduleCancel, Without, Plain!Without, scheduleVars,
   Plain!scheduleVars

LEMMA ReturnTreasureAlike ==
  ASSUME ~LogMayFail, DebugInv, NEW id, ReturnTreasure(id)
  PROVE  Plain!ReturnTreasure(id)
<1>1. /\ pc = "idle"
      /\ IF AutoReturnOn THEN ScheduleCancel(id) ELSE UNCHANGED scheduleVars
      /\ UNCHANGED <<moodVars, statsVars, tick, occurrence>>
  BY DEF ReturnTreasure
<1>2. /\ PlainPc = "idle"
      /\ IF AutoReturnOn THEN Plain!ScheduleCancel(id) ELSE UNCHANGED Plain!scheduleVars
      /\ UNCHANGED <<Plain!moodVars, Plain!statsVars, tick, occurrence>>
  BY <1>1, CancelsAlike DEF PlainPc, moodVars, Plain!moodVars, statsVars, Plain!statsVars
<1>3. LogTypeOK /\ \A t \in treasures : t \in Treasure
  BY DEF DebugInv, TypeOK, HouseTypeOK
<1>4. CASE Holding(id) = {} /\ UNCHANGED <<houseVars, logVars, staleVars, callVars>>
  <2>1. UNCHANGED <<Plain!houseVars, Plain!logVars, PlainReturning>>
    BY <1>4, QuietStep, SamePlainReturning DEF callVars
  <2>2. UNCHANGED <<PlainPc, PlainOp>>
    BY <1>1, <1>4 DEF callVars, PlainPc, PlainOp, moodVars, ForDebugOnly
  <2>3. Plain!Holding(id) = {}
    BY <1>4, HousesAlike DEF DebugInv
  <2> QED
    BY <1>2, <1>4, <2>1, <2>2, <2>3
       DEF Plain!ReturnTreasure, Plain!callVars, callVars, Plain!staleVars, staleVars
<1>5. ASSUME NEW t \in Holding(id), HouseReturn(t), Record(Returned(t, "manual_return")),
             Exit(delivered)
      PROVE  Plain!ReturnTreasure(id)
  <2> DEFINE u == Renumbered(t)
  <2>1. t \in treasures /\ t \in Treasure
    BY <1>3, <1>5 DEF Holding
  <2>2. u.template = t.template /\ u.occurrence = t.occurrence /\ u.row = t.row
    BY <1>3, <2>1, RenumberedAlike
  <2>3. Plain!Returned(u, "manual_return")
          = [Returned(t, "manual_return") EXCEPT !.seq = Plain!NextSeq]
    BY <2>2 DEF Plain!Returned, Returned, Plain!TreasureEventOf, TreasureEventOf
  <2>4. Stable /\ Plain!Record(Plain!Returned(u, "manual_return"))
    BY <1>3, <1>5, <2>3, RecordsAlike DEF DebugInv, Returned, TreasureEventOf
  <2>5. u \in Plain!Holding(id) /\ Plain!HouseReturn(u)
    BY <1>5, <2>1, <2>4, HousesAlike, ReturnsAlike DEF DebugInv
  <2>6. Plain!Exit(delivered)
    BY <1>5, ExitsAlike
  <2> QED
    BY <1>2, <2>4, <2>5, <2>6 DEF Plain!ReturnTreasure, Plain!Emit
<1> QED
  BY <1>4, <1>5 DEF ReturnTreasure, Emit, RecordFails

LEMMA ReturnAllAlike ==
  ASSUME DebugInv, ReturnAll
  PROVE  Plain!ReturnAll
<1>1. Stable /\ UNCHANGED <<PlainLog, PlainSeq>>
  BY QuietIsStable DEF ReturnAll, logVars
<1>2. \A t \in treasures : /\ Renumbered(t)' = Renumbered(t)
                           /\ Renumbered(t).template = t.template
  BY <1>1, RenumberedAlike DEF Stable, Kept, DebugInv, TypeOK, HouseTypeOK
<1>3. PlainTreasures' = {} /\ PlainReturning' = PlainTreasures /\ PlainTreasures # {}
  BY <1>2 DEF ReturnAll, HouseReturnAll, PlainTreasures, PlainReturning
<1>4. {u.template : u \in PlainTreasures} = {t.template : t \in treasures}
  BY <1>2 DEF PlainTreasures
<1>5. Plain!HouseReturnAll
  BY <1>3, <1>4 DEF ReturnAll, HouseReturnAll, Plain!HouseReturnAll
<1>6. PlainPc = "idle" /\ PlainPc' = "returning" /\ PlainOp' = PlainOp
  BY DEF ReturnAll, PlainPc, PlainOp, ForDebugOnly, moodVars
<1> QED
  BY <1>1, <1>3, <1>5, <1>6
     DEF ReturnAll, Plain!ReturnAll, Plain!logVars, scheduleVars, Plain!scheduleVars, moodVars,
         Plain!moodVars, statsVars, Plain!statsVars, staleVars, Plain!staleVars

\* The treasures that return_all has still to log are told apart, and come in
\* the same order, by either numbers.
LEMMA ReturningAlike ==
  ASSUME DebugInv, NEW t \in returning, NEW u \in returning
  PROVE  /\ t.seq < u.seq => Renumbered(t).seq < Renumbered(u).seq
         /\ Renumbered(t) = Renumbered(u) => t = u
<1>1. /\ LogTypeOK /\ t \in Treasure /\ u \in Treasure
      /\ t.seq \in Lasting /\ u.seq \in Lasting
  BY DEF DebugInv, TypeOK, CallTypeOK, BookInv, Kept
<1>2. /\ Renumbered(t).seq = NumberOf(t.seq) /\ Renumbered(u).seq = NumberOf(u.seq)
      /\ Renumbered(t).template = t.template /\ Renumbered(u).template = u.template
      /\ Renumbered(t).row = t.row /\ Renumbered(u).row = u.row
      /\ Renumbered(t).occurrence = t.occurrence /\ Renumbered(u).occurrence = u.occurrence
  BY <1>1, RenumberedAlike
<1>3. /\ t.seq \in Nat /\ u.seq \in Nat
      /\ NumberOf(t.seq) \in Nat /\ NumberOf(u.seq) \in Nat
      /\ t.seq < u.seq => NumberOf(t.seq) < NumberOf(u.seq)
      /\ u.seq < t.seq => NumberOf(u.seq) < NumberOf(t.seq)
  BY <1>1, NumbersGrow DEF Treasure
<1>4. ASSUME Renumbered(t) = Renumbered(u) PROVE t = u
  <2>1. t.seq = u.seq /\ t.template = u.template /\ t.row = u.row /\ t.occurrence = u.occurrence
    BY <1>2, <1>3, <1>4
  <2> QED
    BY <1>1, <2>1 DEF Treasure
<1> QED
  BY <1>2, <1>3, <1>4

LEMMA LogReturnedAlike ==
  ASSUME ~LogMayFail, DebugInv, NEW t \in returning, LogReturned(t)
  PROVE  Renumbered(t) \in PlainReturning /\ Plain!LogReturned(Renumbered(t))
<1>1. PICK u : u = Renumbered(t)
  OBVIOUS
<1>2. /\ pc = "returning" /\ \A v \in returning \ {t} : t.seq < v.seq
      /\ IF AutoReturnOn THEN ScheduleCancel(TreasureId(t)) ELSE UNCHANGED scheduleVars
      /\ Record(Returned(t, "manual_return"))
      /\ returning' = returning \ {t}
      /\ pc' = IF returning = {t} THEN "idle" ELSE "returning"
      /\ UNCHANGED <<op, due, delivered, calls, staleVars>>
      /\ UNCHANGED <<houseVars, moodVars, statsVars, tick, occurrence>>
  BY DEF LogReturned, Emit, RecordFails
<1>3. /\ u.template = t.template /\ u.row = t.row /\ u.occurrence = t.occurrence
      /\ Plain!TreasureId(u) = TreasureId(t) /\ LogTypeOK /\ BookInv
  BY <1>1, RenumberedAlike DEF DebugInv, TypeOK, CallTypeOK
<1>4. Stable /\ Plain!Record(Plain!Returned(u, "manual_return"))
  <2>1. Plain!Returned(u, "manual_return")
          = [Returned(t, "manual_return") EXCEPT !.seq = Plain!NextSeq]
    BY <1>3 DEF Plain!Returned, Returned, Plain!TreasureEventOf, TreasureEventOf
  <2> QED
    BY <1>2, <1>3, <2>1, RecordsAlike DEF Returned, TreasureEventOf
<1>5. u \in PlainReturning /\ \A w \in PlainReturning \ {u} : u.seq < w.seq
  BY <1>1, <1>2, ReturningAlike DEF PlainReturning
<1>6. PlainReturning' = PlainReturning \ {u}
  <2>1. \A v \in returning : Renumbered(v)' = Renumbered(v)
    BY <1>4 DEF Stable, Kept
  <2>2. PlainReturning' = {Renumbered(v) : v \in returning \ {t}}
    BY <1>2, <2>1 DEF PlainReturning
  <2>3. \A v \in returning : Renumbered(v) = u => v = t
    BY <1>1, ReturningAlike
  <2> QED
    BY <1>1, <2>2, <2>3 DEF PlainReturning
<1>7. PlainReturning = {u} <=> returning = {t}
  <2>1. ASSUME PlainReturning = {u}, NEW v \in returning PROVE v = t
    BY <1>1, <2>1, ReturningAlike DEF PlainReturning
  <2> QED
    BY <1>1, <2>1 DEF PlainReturning
<1>8. /\ PlainPc = "returning" /\ PlainPc' = (IF PlainReturning = {u} THEN "idle" ELSE "returning")
      /\ PlainOp' = PlainOp
  BY <1>2, <1>7 DEF PlainPc, PlainOp, ForDebugOnly, moodVars
<1>9. IF AutoReturnOn THEN Plain!ScheduleCancel(Plain!TreasureId(u))
                      ELSE UNCHANGED Plain!scheduleVars
  BY <1>2, <1>3, CancelsAlike
<1>10. UNCHANGED Plain!houseVars
  BY <1>2, <1>4, SamePlainHouse DEF houseVars, Plain!houseVars
<1>11. UNCHANGED <<PlainOp, due, delivered, calls, Plain!staleVars>>
  BY <1>2, <1>8 DEF staleVars, Plain!staleVars
<1>12. Plain!LogReturned(u)
  BY <1>2, <1>4, <1>5, <1>6, <1>8, <1>9, <1>10, <1>11
     DEF Plain!LogReturned, Plain!Emit, moodVars, Plain!moodVars, statsVars, Plain!statsVars
<1> QED
  BY <1>1, <1>5, <1>12

-----------------------------------------------------------------------------
(* The end of the process, and the beginning *)

\* The numbers of the events without debug.
LEMMA PlainLogNumbered ==
  ASSUME LogTypeOK
  PROVE  /\ DOMAIN PlainLog = 1 .. Cardinality(Lasting)
         /\ \A k \in DOMAIN PlainLog : PlainLog[k].seq = k
<1>1. DOMAIN PlainLog = 1 .. Cardinality(Lasting)
  BY DEF PlainLog
<1>2. ASSUME NEW k \in 1 .. Cardinality(Lasting) PROVE PlainLog[k].seq = k
  <2>1. Nth(Lasting, k) \in Lasting
    BY LastingIsFinite, NthHasRank
  <2>2. log[Nth(Lasting, k)] \in Event
    BY <2>1, LastingIsFinite DEF LogTypeOK
  <2>3. PlainLog[k] = [log[Nth(Lasting, k)] EXCEPT !.seq = k]
    BY DEF PlainLog
  <2> QED
    BY <2>2, <2>3 DEF Event, OperationEvent, TreasureEvent, StaleEvent, MoodEvent
<1> QED
  BY <1>1, <1>2

LEMMA CrashAlike ==
  ASSUME DebugInv, Crash
  PROVE  Plain!Crash
<1>1. LogTypeOK /\ LogNumbered /\ LogReopen /\ log' = log
  BY DEF DebugInv, TypeOK, BookInv, Crash, LogReopen
<1>2. seq' = seq
  <2>1. PICK n \in {0} \cup {log[i].seq : i \in DOMAIN log} :
          seq' = n /\ \A i \in DOMAIN log : log[i].seq <= n
    BY <1>1 DEF LogReopen
  <2>2. n = Len(log)
    BY <1>1, <2>1 DEF LogNumbered, LogTypeOK
  <2> QED
    BY <1>1, <2>1, <2>2 DEF LogNumbered
<1>3. UNCHANGED <<PlainLog, PlainSeq>>
  BY <1>1, <1>2, SamePlainLog
<1>4. Plain!LogReopen
  <2>1. /\ PlainSeq = Cardinality(Lasting) /\ PlainSeq \in Nat
        /\ DOMAIN PlainLog = 1 .. PlainSeq /\ \A k \in DOMAIN PlainLog : PlainLog[k].seq = k
    BY <1>1, PlainSeqCounts, PlainLogNumbered
  <2>2. PlainSeq \in {0} \cup {PlainLog[k].seq : k \in DOMAIN PlainLog}
    BY <2>1
  <2>3. \A k \in DOMAIN PlainLog : PlainLog[k].seq <= PlainSeq
    BY <2>1
  <2> QED
    BY <1>3, <2>2, <2>3 DEF Plain!LogReopen
<1>5. /\ PlainTreasures' = {} /\ PlainReturning' = {}
      /\ PlainPc' = "idle" /\ PlainOp' = NoOperation
  BY DEF Crash, PlainTreasures, PlainReturning, PlainPc, PlainOp
<1> QED
  BY <1>4, <1>5 DEF Crash, Plain!Crash, NoOperation, Plain!NoOperation, Nothing,
     Plain!Nothing, Reasons, Plain!Reasons

LEMMA StuttersAlike ==
  ASSUME UNCHANGED vars
  PROVE  UNCHANGED Plain!vars
<1>1. UNCHANGED <<Plain!houseVars, Plain!logVars, PlainReturning>>
  BY QuietStep, SamePlainReturning DEF vars, callVars
<1>2. UNCHANGED <<PlainPc, PlainOp>>
  BY DEF vars, callVars, moodVars, PlainPc, PlainOp, ForDebugOnly
<1> QED
  BY <1>1, <1>2
     DEF vars, Plain!vars, callVars, Plain!callVars, scheduleVars, Plain!scheduleVars, moodVars,
         Plain!moodVars, statsVars, Plain!statsVars, staleVars, Plain!staleVars

\* Without an event there is nothing to leave out.
LEMMA InitAlike ==
  ASSUME Init
  PROVE  Plain!Init /\ BookInv
<1>1. log = <<>> /\ seq = 0 /\ treasures = {} /\ returning = {} /\ Lasting = {}
  BY DEF Init, LogInit, HouseInit, Lasting
<1>2. BookInv
  BY <1>1 DEF BookInv, LogNumbered, Kept
<1>3. Cardinality({}) = 0
  BY FS_EmptySet
<1>4. PlainLog = <<>>
  BY <1>1, <1>3 DEF PlainLog
<1>5. PlainSeq = 0
  <2>1. {i \in Lasting : i <= seq} = {}
    BY <1>1
  <2> QED
    BY <1>3, <2>1 DEF PlainSeq, NumberOf
<1>6. PlainTreasures = {} /\ PlainReturning = {} /\ PlainPc = "idle" /\ PlainOp = NoOperation
  BY <1>1 DEF Init, PlainTreasures, PlainReturning, PlainPc, PlainOp
<1> QED
  BY <1>2, <1>4, <1>5, <1>6
     DEF Init, Plain!Init, HouseInit, Plain!HouseInit, ScheduleInit, Plain!ScheduleInit,
         MoodInit, Plain!MoodInit, LogInit, Plain!LogInit, StaleInit, Plain!StaleInit,
         NoOperation, Plain!NoOperation, Nothing, Plain!Nothing, Reasons, Plain!Reasons

-----------------------------------------------------------------------------
(* Every step *)

LEMMA ProgressAlike ==
  ASSUME ~LogMayFail, NoMoodDisarmsStash, DebugInv, Progress
  PROVE  Plain!Progress \/ UNCHANGED Plain!vars
<1>1. CASE Begin
  BY <1>1, ReturnDueAlike, AdvanceMoodAlike, NoMoodAlike
     DEF Begin, Plain!Begin, Plain!Progress
<1>2. CASE Dispatch
  BY <1>2, PassthroughAlike, BeginDecisionAlike DEF Dispatch, Plain!Dispatch, Plain!Progress
<1>3. CASE Before
  BY <1>3, RaiseBeforeAlike, DelayAlike, PassBeforeAlike, ChoicesAlike
     DEF Before, Plain!Before, Plain!Progress
<1>4. CASE Backend
  BY <1>4, BackendRaisesAlike, ExceedCapAlike, BackendReturnsAlike
     DEF Backend, Plain!Backend, Plain!Progress
<1>5. CASE OnResult
  <2>1. Plain!Members(Plain!OnResultPriority) = Members(OnResultPriority)
    BY ChoicesAlike
  <2>2. Plain!OnResult
    BY <1>5, <2>1, SkipOnResultAlike, ExceedInterventionLimitAlike, LoseResponseAlike,
       HideTreasuresAlike, StashAlike, StashRefusedAlike, ReshapeAlike, ReplayAlike,
       DeliverWholeAlike DEF OnResult, Plain!OnResult
  <2> QED
    BY <2>2 DEF Plain!Progress
<1>6. ASSUME NEW t \in returning, LogReturned(t) PROVE Plain!Progress
  BY <1>6, LogReturnedAlike DEF Plain!Progress
<1> QED
  BY <1>1, <1>2, <1>3, <1>4, <1>5, <1>6 DEF Progress

LEMMA ClientAlike ==
  ASSUME ~LogMayFail, DebugInv, Client
  PROVE  Plain!Client
<1>1. {Plain!TreasureId(u) : u \in PlainTreasures} = {TreasureId(t) : t \in treasures}
  <2>1. \A t \in treasures : Plain!TreasureId(Renumbered(t)) = TreasureId(t)
    BY RenumberedAlike DEF DebugInv, TypeOK, HouseTypeOK
  <2> QED
    BY <2>1 DEF PlainTreasures
<1>2. CASE \E call \in Calls, template \in Templates : Call(call[1], call[2], template)
  BY <1>2, CallAlike DEF Plain!Client
<1>3. ASSUME NEW id \in {TreasureId(t) : t \in treasures} \cup {s.id : s \in scheduled},
             ReturnTreasure(id)
      PROVE  Plain!Client
  BY <1>1, <1>3, ReturnTreasureAlike DEF Plain!Client
<1>4. CASE ReturnAll
  BY <1>4, ReturnAllAlike DEF Plain!Client
<1> QED
  BY <1>2, <1>3, <1>4 DEF Client

LEMMA StepsAlike ==
  ASSUME ~LogMayFail, NoMoodDisarmsStash, DebugInv, [Next]_vars
  PROVE  [Plain!Next]_(Plain!vars)
BY ProgressAlike, ClientAlike, CrashAlike, StuttersAlike DEF Next, Plain!Next

LEMMA DebugInvInit == Init => DebugInv
BY InitTyped, HouseInvInit, InitAlike, PhaseInvInit DEF DebugInv

LEMMA DebugInvStep ==
  ASSUME ~LogMayFail, DebugInv, TypeOK', HouseInv', [Next]_vars
  PROVE  DebugInv'
<1>1. BookInv'
  BY NextIsBookStep, BookInvStep DEF DebugInv, TypeOK, BookInv
<1>2. PhaseInv'
  <2>1. pc' \in {"begin", "dispatch", "before"} => op'.slot = "open"
    BY SlotStaysOpen DEF DebugInv
  <2>2. mood' \in ReachableMoods
    BY MoodStaysReachable DEF DebugInv, PhaseInv
  <2>3. StashRuledOut => treasures' = {} /\ released' = {}
    BY HouseStaysBare DEF DebugInv
  <2> QED
    BY <2>1, <2>2, <2>3 DEF PhaseInv, StashRuledOut, ReachableMoods
<1> QED
  BY <1>1, <1>2 DEF DebugInv

\* Debug only adds events: where no write of the log fails, and no mood leaves
\* on_result without a fault while another one has STASH, every behaviour with
\* debug is, its debug events left out, a behaviour without (spec of event-log:
\* "the sequences of fired events agree").  In before_execute and on_result the
\* engine evaluates more under debug; the theorem says that it does no more.
THEOREM DebugAlwaysOnlyAddsEvents ==
  ASSUME ~LogMayFail, NoMoodDisarmsStash
  PROVE  Spec => DebugOnlyAddsEvents
<1>1. Init => DebugInv /\ Plain!Init
  BY DebugInvInit, InitAlike
<1>2. DebugInv /\ TypeOK' /\ HouseInv' /\ [Next]_vars => DebugInv'
  BY DebugInvStep
<1>3. DebugInv /\ [Next]_vars => [Plain!Next]_(Plain!vars)
  BY StepsAlike
<1> QED
  BY <1>1, <1>2, <1>3, TypeCorrect, HouseInvariant, PTL
     DEF Spec, Plain!Spec, DebugOnlyAddsEvents

=============================================================================
