----------------------------- MODULE StaleProofs -----------------------------
(***************************************************************************)
(* Proofs about the stale read cache: its two dictionaries agree, neither  *)
(* limit is passed, OLD_BONE delivers what was delivered before, only the  *)
(* oldest results are forgotten, and what is replayed is recent.           *)
(***************************************************************************)
EXTENDS SessionProofs, StaleProperties, FiniteSetTheorems, FunctionTheorems

\* What a step may do to the cache.
StaleStep ==
  \/ UNCHANGED staleVars
  \/ \E rows : /\ op \in Operation
               /\ delivered' = Delivery(rows)
               /\ pc = "result" /\ ScopedSelect
               /\ Insert(op.template, op.occurrence, rows)
  \/ Crash

\* Entries are numbered apart and the two dictionaries hold the same ones.
CacheInv ==
  /\ StaleIndexesAgree
  /\ IsFiniteSet(entries)
  /\ \A e \in entries : e.at \in Nat /\ e.at <= added
  /\ \A e, f \in entries : e.at = f.at => e = f
  /\ added \in Nat
  /\ CacheIsBounded

-----------------------------------------------------------------------------
(* Lemmas about the cache *)

\* A result of the read goes into the cache as it is delivered, or not at all.
LEMMA DeliverIsStaleStep ==
  ASSUME op \in Operation, pc = "result", NEW rows, Deliver(rows)
  PROVE  StaleStep
BY DEF Deliver, Leave, StaleAdd, StaleStep

LEMMA NextIsStaleStep == TypeOK /\ [Next]_vars => StaleStep
<1> SUFFICES ASSUME TypeOK, [Next]_vars PROVE StaleStep
  OBVIOUS
<1> USE DEF Exit, Goto, Continue, Emit, Inject
<1>1. CASE Begin
  BY <1>1 DEF Begin, ReturnDue, AdvanceMood, NoMood, StaleStep
<1>2. CASE Dispatch \/ Before \/ Backend
  BY <1>2 DEF Dispatch, Passthrough, BeginDecision, Before, RaiseBefore, Delay, PassBefore,
     Backend, BackendRaises, ExceedCap, BackendReturns, Debugged, StaleStep
<1>3. CASE OnResult
  <2>1. op \in Operation /\ pc = "result"
    BY <1>3 DEF OnResult, SkipOnResult, ExceedInterventionLimit, LoseResponse, HideTreasures,
       PastNoDrop, Choose, Stash, StashRefused, Reshape, Replay, DeliverWhole, TypeOK, CallTypeOK
  <2>2. (\E rows : Deliver(rows)) \/ UNCHANGED staleVars
    BY <1>3 DEF OnResult, SkipOnResult, ExceedInterventionLimit, LoseResponse, HideTreasures,
       Stash, StashRefused, Reshape, Replay, DeliverWhole, Debugged
  <2> QED
    BY <2>1, <2>2, DeliverIsStaleStep DEF StaleStep
<1>4. ASSUME NEW t, LogReturned(t) PROVE StaleStep
  BY <1>4 DEF LogReturned, StaleStep
<1>5. CASE Client
  BY <1>5 DEF Client, Call, ReturnTreasure, ReturnAll, StaleStep
<1>6. CASE Crash
  BY <1>6 DEF StaleStep
<1>7. CASE UNCHANGED vars
  BY <1>7 DEF vars, StaleStep
<1> QED
  BY <1>1, <1>2, <1>3, <1>4, <1>5, <1>6, <1>7 DEF Next, Progress

\* Among entries that are numbered apart, Newest keeps n at most: an entry is
\* told by how many are newer.
LEMMA NewestIsSmall ==
  ASSUME NEW S, IsFiniteSet(S), NEW n \in Nat,
         \A s \in S : s.at \in Nat,
         \A s, u \in S : s.at = u.at => s = u
  PROVE  IsFiniteSet(Newest(S, n)) /\ Cardinality(Newest(S, n)) <= n
<1> DEFINE newer(s) == {u \in S : u.at > s.at}
           kept == Newest(S, n)
           rank == [s \in kept |-> Cardinality(newer(s))]
<1>1. \A s \in S : IsFiniteSet(newer(s)) /\ Cardinality(newer(s)) \in Nat
  BY FS_Subset, FS_CardinalityType
<1>2. \A s, u \in S : s.at < u.at => Cardinality(newer(u)) < Cardinality(newer(s))
  <2> SUFFICES ASSUME NEW s \in S, NEW u \in S, s.at < u.at
               PROVE  Cardinality(newer(u)) < Cardinality(newer(s))
    OBVIOUS
  <2>1. newer(u) \subseteq newer(s) /\ u \in newer(s) /\ u \notin newer(u)
    OBVIOUS
  <2>2. newer(u) # newer(s)
    BY <2>1
  <2> HIDE DEF newer
  <2> QED
    BY <1>1, <2>1, <2>2, FS_Subset
<1>3. rank \in [kept -> 0 .. (n - 1)]
  <2>1. \A s \in kept : s \in S /\ Cardinality(newer(s)) < n
    BY DEF Newest
  <2> HIDE DEF kept, newer
  <2>2. \A s \in kept : Cardinality(newer(s)) \in 0 .. (n - 1)
    BY <1>1, <2>1
  <2> QED
    BY <2>2
<1>4. \A s, u \in kept : rank[s] = rank[u] => s = u
  <2> SUFFICES ASSUME NEW s \in kept, NEW u \in kept, rank[s] = rank[u] PROVE s = u
    OBVIOUS
  <2>1. s \in S /\ u \in S
    BY DEF Newest
  <2>2. Cardinality(newer(s)) = Cardinality(newer(u))
    OBVIOUS
  <2>3. s.at \in Nat /\ u.at \in Nat
    BY <2>1
  <2> HIDE DEF newer
  <2>4. ~(s.at < u.at) /\ ~(u.at < s.at)
    BY <1>1, <1>2, <2>1, <2>2
  <2> QED
    BY <2>1, <2>3, <2>4
<1>5. rank \in Injection(kept, 0 .. (n - 1))
  <2> HIDE DEF rank, kept
  <2> QED
    BY <1>3, <1>4, Fun_IsInj
<1>6. IsFiniteSet(0 .. (n - 1)) /\ Cardinality(0 .. (n - 1)) = n
  BY FS_Interval
<1> HIDE DEF rank
<1> QED
  BY <1>5, <1>6, FS_Injection

\* The index is as finite as the entries are.
LEMMA IndexIsFinite ==
  ASSUME IsFiniteSet(entries), StaleIndexesAgree
  PROVE  IsFiniteSet(byKey)
<1> DEFINE f == [e \in entries |-> Index(e)]
<1>1. byKey = {f[e] : e \in entries}
  BY DEF StaleIndexesAgree
<1>2. f \in Surjection(entries, {f[e] : e \in entries})
  BY Fun_IsSurj
<1> HIDE DEF f
<1> QED
  BY <1>1, <1>2, FS_Surjection

\* What is newest is told by the numbers alone.
LEMMA NewestByNumber ==
  ASSUME NEW S, NEW n, NEW e \in S, NEW f \in S, e.at = f.at
  PROVE  e \in Newest(S, n) <=> f \in Newest(S, n)
<1>1. {u \in S : u.at > e.at} = {u \in S : u.at > f.at}
  OBVIOUS
<1> QED
  BY <1>1, Zenon DEF Newest

\* Insert keeps the pairs of the index and the entries alike.
LEMMA InsertKeepsIndexes ==
  ASSUME NEW key, NEW o, NEW rows, StaleIndexesAgree, Insert(key, o, rows)
  PROVE  StaleIndexesAgree'
<1> DEFINE evicted == OfKey(key, byKey) \ Newest(OfKey(key, byKey), PerKey - 1)
           entry == [key |-> key, occurrence |-> o, rows |-> rows, at |-> added + 1]
           kept == {e \in entries : Index(e) \notin evicted} \cup {entry}
           dropped == kept \ Newest(kept, Total)
<1>1. entries' = kept \ dropped
  BY DEF Insert
<1>2. byKey' = ((byKey \ evicted) \cup {Index(entry)}) \ {Index(e) : e \in dropped}
  BY DEF Insert
<1>3. \A e, f : Index(e) = Index(f) => e.at = f.at
  BY DEF Index
<1>4. \A e, f \in kept : Index(e) = Index(f) => (e \in dropped <=> f \in dropped)
  BY <1>3, NewestByNumber
<1>5. (byKey \ evicted) \cup {Index(entry)} = {Index(e) : e \in kept}
  <2> HIDE DEF evicted, entry
  <2> QED
    BY Zenon DEF StaleIndexesAgree
<1> HIDE DEF kept, dropped, evicted, entry
<1>6. byKey' = {Index(e) : e \in kept} \ {Index(e) : e \in dropped}
  BY <1>2, <1>5
<1>7. dropped \subseteq kept
  BY DEF dropped
<1> QED
  BY <1>1, <1>4, <1>6, <1>7 DEF StaleIndexesAgree

\* Each limit is kept, because the room for one more was made before.
LEMMA InsertKeepsBounds ==
  ASSUME NEW key \in Templates, NEW o, NEW rows, CacheInv, Insert(key, o, rows)
  PROVE  CacheInv'
<1> DEFINE old == OfKey(key, byKey)
           spared == Newest(old, PerKey - 1)
           entry == [key |-> key, occurrence |-> o, rows |-> rows, at |-> added + 1]
           remaining == {e \in entries : Index(e) \notin old \ spared}
           kept == remaining \cup {entry}
<1>1. /\ entries' = kept \ (kept \ Newest(kept, Total))
      /\ byKey' \subseteq (byKey \ (old \ spared)) \cup {Index(entry)}
      /\ added' = added + 1
  BY DEF Insert
<1>2. Newest(kept, Total) \subseteq kept
  BY DEF Newest
<1>3. entries' = Newest(kept, Total)
  BY <1>1, <1>2
<1>4. added \in Nat /\ added' \in Nat
  BY <1>1 DEF CacheInv
<1>5. IsFiniteSet(kept)
  <2>1. IsFiniteSet(remaining)
    BY FS_Subset DEF CacheInv
  <2> HIDE DEF remaining, entry
  <2> QED
    BY <2>1, FS_AddElement
<1>6. \A e \in kept : e.at \in Nat /\ e.at <= added + 1
  BY <1>4 DEF CacheInv
<1>7. \A e, f \in kept : e.at = f.at => e = f
  BY <1>4 DEF CacheInv
<1>8. StaleIndexesAgree'
  BY InsertKeepsIndexes DEF CacheInv
<1>9. Cardinality(entries') <= Total /\ IsFiniteSet(entries')
  <2> HIDE DEF kept
  <2> QED
    BY <1>3, <1>5, <1>6, <1>7, NewestIsSmall, StaleAssumption
<1>10. IsFiniteSet(byKey) /\ (\A b \in byKey : b.at \in Nat)
       /\ (\A b, c \in byKey : b.at = c.at => b = c)
  <2>1. byKey = {Index(e) : e \in entries}
    BY DEF CacheInv, StaleIndexesAgree
  <2>2. \A e : Index(e).at = e.at
    BY DEF Index
  <2>3. IsFiniteSet(byKey)
    BY IndexIsFinite DEF CacheInv
  <2> QED
    BY <2>1, <2>2, <2>3 DEF CacheInv
<1>11. IsFiniteSet(old) /\ IsFiniteSet(spared) /\ Cardinality(spared) <= PerKey - 1
  <2>1. old \subseteq byKey
    BY DEF OfKey
  <2>2. IsFiniteSet(old)
    BY <1>10, <2>1, FS_Subset
  <2> HIDE DEF old
  <2> QED
    BY <1>10, <2>1, <2>2, NewestIsSmall, StaleAssumption
<1>12. ASSUME NEW t \in Templates PROVE Cardinality(OfKey(t, byKey')) <= PerKey
  <2>1. CASE t = key
    <3>1. OfKey(t, byKey') \subseteq spared \cup {Index(entry)}
      <4>1. OfKey(t, byKey') \subseteq (OfKey(t, byKey) \ (old \ spared)) \cup {Index(entry)}
        BY <1>1 DEF OfKey
      <4> QED
        BY <2>1, <4>1
    <3> HIDE DEF spared, entry
    <3>2. IsFiniteSet(spared \cup {Index(entry)})
          /\ Cardinality(spared \cup {Index(entry)}) <= PerKey
      <4>1. IsFiniteSet(spared) /\ Cardinality(spared) \in Nat
        BY <1>11, FS_CardinalityType
      <4>2. PerKey \in Nat /\ Cardinality(spared) + 1 <= PerKey
        BY <1>11, <4>1, StaleAssumption
      <4>3. /\ IsFiniteSet(spared \cup {Index(entry)})
            /\ Cardinality(spared \cup {Index(entry)}) <= Cardinality(spared) + 1
        BY <4>1, FS_AddElement
      <4>4. Cardinality(spared \cup {Index(entry)}) \in Nat
        BY <4>3, FS_CardinalityType
      <4> QED
        BY <4>1, <4>2, <4>3, <4>4
    <3> QED
      BY <3>1, <3>2, FS_Subset, FS_CardinalityType, StaleAssumption
  <2>2. CASE t # key
    <3>1. OfKey(t, byKey') \subseteq OfKey(t, byKey)
      <4>1. Index(entry).key = key
        BY DEF Index
      <4> HIDE DEF entry, old, spared
      <4> QED
        BY <1>1, <2>2, <4>1 DEF OfKey
    <3>2. IsFiniteSet(OfKey(t, byKey))
      BY <1>10, FS_Subset DEF OfKey
    <3>3. Cardinality(OfKey(t, byKey)) <= PerKey
      BY DEF CacheInv, CacheIsBounded
    <3> QED
      BY <3>1, <3>2, <3>3, FS_Subset, FS_CardinalityType, StaleAssumption
  <2> QED
    BY <2>1, <2>2
<1>13. entries' \subseteq kept
  BY <1>2, <1>3
<1> HIDE DEF kept
<1> QED
  BY <1>1, <1>4, <1>6, <1>7, <1>8, <1>9, <1>12, <1>13 DEF CacheInv, CacheIsBounded

-----------------------------------------------------------------------------
LEMMA CacheInvInit == Init => CacheInv
<1> SUFFICES ASSUME Init PROVE CacheInv
  OBVIOUS
<1>1. entries = {} /\ byKey = {} /\ added = 0
  BY DEF Init, StaleInit
<1>2. IsFiniteSet({}) /\ Cardinality({}) = 0
  BY FS_EmptySet
<1>3. \A t : OfKey(t, {}) = {}
  BY DEF OfKey
<1> QED
  BY <1>1, <1>2, <1>3, StaleAssumption DEF CacheInv, StaleIndexesAgree, CacheIsBounded

LEMMA CacheInvStep == CacheInv /\ StaleStep => CacheInv'
<1> SUFFICES ASSUME CacheInv, StaleStep PROVE CacheInv'
  OBVIOUS
<1>1. CASE UNCHANGED staleVars
  BY <1>1 DEF staleVars, CacheInv, StaleIndexesAgree, CacheIsBounded
<1>2. ASSUME NEW rows, op \in Operation, Insert(op.template, op.occurrence, rows)
      PROVE  CacheInv'
  BY <1>2, InsertKeepsBounds DEF Operation
<1>3. CASE Crash
  <2>1. entries' = {} /\ byKey' = {} /\ added' = 0
    BY <1>3 DEF Crash
  <2>2. IsFiniteSet({}) /\ Cardinality({}) = 0
    BY FS_EmptySet
  <2>3. \A t : OfKey(t, {}) = {}
    BY DEF OfKey
  <2> QED
    BY <2>1, <2>2, <2>3, StaleAssumption DEF CacheInv, StaleIndexesAgree, CacheIsBounded
<1> QED
  BY <1>1, <1>2, <1>3 DEF StaleStep

LEMMA CacheInvariant == Spec => []CacheInv
BY TypeCorrect, CacheInvInit, NextIsStaleStep, CacheInvStep, PTL DEF Spec

\* history() finds every occurrence it looks up, and nothing is left behind in
\* either dictionary, however the two limits interleave their evictions
\* (stale_cache.py, add and _remove).
THEOREM IndexesAlwaysAgree == Spec => []StaleIndexesAgree
BY CacheInvariant, PTL DEF CacheInv

\* The cache never outgrows its limits (stale_cache.py, add).
THEOREM CacheAlwaysBounded == Spec => []CacheIsBounded
BY CacheInvariant, PTL DEF CacheInv

-----------------------------------------------------------------------------
(* What OLD_BONE delivers *)

\* Only OLD_BONE records an event of its name, and then it delivers the entry
\* that the event names.
ReplayStep ==
  \/ UNCHANGED log
  \/ \E event : event.name # "OLD_BONE" /\ log' = Append(log, event)
  \/ \E entry \in entries : /\ log' = Append(log, StaleEventOf(entry))
                             /\ pc = "result" /\ ScopedSelect
                             /\ entry.key = op.template
                             /\ delivered' = Delivery(entry.rows)

\* Every entry of the cache is a result the client was given.
ReplayInv ==
  /\ \E S : deliveries \in Seq(S)
  /\ \A e \in entries : \E j \in DOMAIN deliveries :
       IsEntryOf(e, deliveries[j]) /\ deliveries[j].rows = e.rows
  /\ ReplaysWhatWasDelivered

LEMMA NextIsReplayStep == [Next]_vars => ReplayStep
<1> SUFFICES ASSUME [Next]_vars PROVE ReplayStep
  OBVIOUS
<1> USE DEF ReplayStep, Emit, Inject, Record, RecordFails
<1>1. /\ \A type, name, phase : OperationEventOf(type, name, phase).name = name
      /\ \A type, name, phase, t : TreasureEventOf(type, name, phase, t).name = name
      /\ \A next : MoodChanged(next).name = "MOOD"
  BY DEF OperationEventOf, TreasureEventOf, MoodChanged
<1>2. ASSUME Begin PROVE ReplayStep
  <2>1. ASSUME NEW entry, ReturnDue(entry) PROVE ReplayStep
    BY <1>1, <2>1 DEF ReturnDue, Returned, logVars
  <2>2. ASSUME AdvanceMood PROVE ReplayStep
    BY <1>1, <2>2 DEF AdvanceMood, logVars
  <2> QED
    BY <1>2, <2>1, <2>2 DEF Begin, NoMood, logVars
<1>3. ASSUME Dispatch PROVE ReplayStep
  BY <1>3 DEF Dispatch, Passthrough, BeginDecision, logVars
<1>4. ASSUME Before PROVE ReplayStep
  <2>1. ASSUME NEW fault \in BeforeExecuteErrors, RaiseBefore(fault) PROVE ReplayStep
    BY <1>1, <2>1 DEF RaiseBefore, Injected, BeforeExecuteErrors
  <2>2. ASSUME Delay \/ PassBefore PROVE ReplayStep
    BY <1>1, <2>2 DEF Delay, PassBefore, Debugged, Injected, DecisionEvaluated, logVars
  <2> QED
    BY <1>4, <2>1, <2>2 DEF Before
<1>5. ASSUME Backend PROVE ReplayStep
  <2>1. ASSUME BackendRaises \/ ExceedCap PROVE ReplayStep
    BY <1>1, <2>1 DEF BackendRaises, ExceedCap, LimitExceeded, logVars
  <2>2. ASSUME NEW rows, BackendReturns(rows) PROVE ReplayStep
    BY <1>1, <2>2 DEF BackendReturns, Debugged, DecisionEvaluated, logVars
  <2> QED
    BY <1>5, <2>1, <2>2 DEF Backend
<1>6. ASSUME OnResult PROVE ReplayStep
  <2>1. ASSUME SkipOnResult \/ HideTreasures \/ \E row : StashRefused(row) PROVE ReplayStep
    BY <2>1 DEF SkipOnResult, HideTreasures, StashRefused, logVars
  <2>2. ASSUME ExceedInterventionLimit \/ LoseResponse PROVE ReplayStep
    BY <1>1, <2>2 DEF ExceedInterventionLimit, LimitExceeded, LoseResponse, Injected
  <2>3. ASSUME NEW row, Stash(row) PROVE ReplayStep
    BY <1>1, <2>3 DEF Stash
  <2>4. ASSUME NEW fault, Reshape(fault) PROVE ReplayStep
    BY <1>1, <2>4 DEF Reshape, Injected
  <2>5. ASSUME NEW entry \in entries, Replay(entry) PROVE ReplayStep
    BY <2>5 DEF Replay, History, OfKey, Choose, PastNoDrop, EvaluateOnResult, Deliver, Leave
  <2>6. ASSUME DeliverWhole PROVE ReplayStep
    BY <1>1, <2>6 DEF DeliverWhole, Debugged, DecisionEvaluated, logVars
  <2> QED
    BY <1>6, <2>1, <2>2, <2>3, <2>4, <2>5, <2>6 DEF OnResult
<1>7. ASSUME NEW t, LogReturned(t) PROVE ReplayStep
  BY <1>1, <1>7 DEF LogReturned, Returned
<1>8. ASSUME Client PROVE ReplayStep
  BY <1>1, <1>8 DEF Client, Call, ReturnTreasure, ReturnAll, Returned, logVars
<1>9. ASSUME Crash PROVE ReplayStep
  BY <1>9 DEF Crash, LogReopen
<1>10. ASSUME UNCHANGED vars PROVE ReplayStep
  BY <1>10 DEF vars, logVars
<1> QED
  BY <1>2, <1>3, <1>4, <1>5, <1>6, <1>7, <1>8, <1>9, <1>10 DEF Next, Progress

\* The history only grows, and a delivery is put at its end.
LEMMA HistoryGrows ==
  ASSUME \E S : deliveries \in Seq(S), HistoryNext
  PROVE  /\ \E S : deliveries' \in Seq(S)
         /\ \A j \in DOMAIN deliveries :
              j \in DOMAIN deliveries' /\ deliveries'[j] = deliveries[j]
         /\ \A rows :
              pc = "result" /\ ScopedSelect /\ delivered' = Delivery(rows) =>
                \E k \in DOMAIN deliveries' :
                  /\ \A j \in DOMAIN deliveries : j < k
                  /\ deliveries'[k] = [key |-> op.template, occurrence |-> op.occurrence,
                                       rows |-> rows]
<1>1. PICK S : deliveries \in Seq(S)
  OBVIOUS
<1>2. CASE Delivers
  <2> DEFINE d == [key |-> op.template, occurrence |-> op.occurrence, rows |-> delivered'.rows]
  <2>1. deliveries' = Append(deliveries, d)
    BY <1>2 DEF HistoryNext
  <2>2. deliveries \in Seq(S \cup {d})
    BY <1>1
  <2>3. deliveries' \in Seq(S \cup {d})
    BY <2>1, <2>2
  <2>4. /\ \A j \in DOMAIN deliveries :
             j \in DOMAIN deliveries' /\ deliveries'[j] = deliveries[j]
        /\ Len(deliveries) + 1 \in DOMAIN deliveries'
        /\ \A j \in DOMAIN deliveries : j < Len(deliveries) + 1
        /\ deliveries'[Len(deliveries) + 1] = d
    <3> HIDE DEF d
    <3> QED
      BY <2>1, <2>2
  <2>5. \A rows : delivered' = Delivery(rows) => d.rows = rows
    BY DEF Delivery
  <2> QED
    BY <2>3, <2>4, <2>5
<1>3. CASE ~Delivers
  <2>1. deliveries' = deliveries
    BY <1>3 DEF HistoryNext
  <2>2. \A rows : Delivery(rows).status = "rows"
    BY DEF Delivery
  <2> QED
    BY <1>1, <1>3, <2>1, <2>2 DEF Delivers
<1> QED
  BY <1>2, <1>3

LEMMA ReplayInvStep ==
  ASSUME TypeOK, TypeOK', ReplayInv, HistoryNext
  PROVE  ReplayInv'
<1> DEFINE d(rows) == [key |-> op.template, occurrence |-> op.occurrence, rows |-> rows]
<1>1. StaleStep /\ ReplayStep
  BY NextIsStaleStep, NextIsReplayStep DEF HistoryNext
<1>2. /\ \E S : deliveries' \in Seq(S)
      /\ \A j \in DOMAIN deliveries :
           j \in DOMAIN deliveries' /\ deliveries'[j] = deliveries[j]
      /\ \A rows :
           pc = "result" /\ ScopedSelect /\ delivered' = Delivery(rows) =>
             \E k \in DOMAIN deliveries' :
               (\A j \in DOMAIN deliveries : j < k) /\ deliveries'[k] = d(rows)
  BY HistoryGrows DEF ReplayInv
<1>3. ASSUME NEW e \in entries'
      PROVE  \E j \in DOMAIN deliveries' :
               IsEntryOf(e, deliveries'[j]) /\ deliveries'[j].rows = e.rows
  <2>1. CASE e \in entries
    BY <1>2, <2>1 DEF ReplayInv
  <2>2. CASE e \notin entries
    <3>1. PICK rows : /\ delivered' = Delivery(rows) /\ pc = "result" /\ ScopedSelect
                      /\ Insert(op.template, op.occurrence, rows)
      BY <1>1, <2>2 DEF StaleStep, staleVars, Crash
    <3>2. e.key = op.template /\ e.occurrence = op.occurrence /\ e.rows = rows
      BY <2>2, <3>1 DEF Insert
    <3> QED
      BY <1>2, <3>1, <3>2 DEF IsEntryOf
  <2> QED
    BY <2>1, <2>2
<1>4. log \in Seq(Event) /\ log' \in Seq(Event)
  BY DEF TypeOK, LogTypeOK
<1>5. ASSUME NEW i \in DOMAIN log', log'[i].name = "OLD_BONE"
      PROVE  \E j, k \in DOMAIN deliveries' :
               /\ j < k
               /\ log'[i].template = deliveries'[j].key
               /\ log'[i].stale = deliveries'[j].occurrence
               /\ log'[i].template = deliveries'[k].key
               /\ log'[i].occurrence = deliveries'[k].occurrence
               /\ deliveries'[j].rows = deliveries'[k].rows
  <2>1. CASE i \in DOMAIN log /\ log'[i] = log[i]
    <3>1. PICK j \in DOMAIN deliveries, k \in DOMAIN deliveries :
            /\ j < k
            /\ log[i].template = deliveries[j].key
            /\ log[i].stale = deliveries[j].occurrence
            /\ log[i].template = deliveries[k].key
            /\ log[i].occurrence = deliveries[k].occurrence
            /\ deliveries[j].rows = deliveries[k].rows
      BY <1>5, <2>1 DEF ReplayInv, ReplaysWhatWasDelivered, Replays, ReplayedAt, ReplayOf,
         IsEntryOf
    <3>2. /\ j \in DOMAIN deliveries' /\ deliveries'[j] = deliveries[j]
          /\ k \in DOMAIN deliveries' /\ deliveries'[k] = deliveries[k]
      BY <1>2
    <3> QED
      BY <2>1, <3>1, <3>2
  <2>2. CASE ~(i \in DOMAIN log /\ log'[i] = log[i])
    <3>1. PICK entry \in entries : /\ log' = Append(log, StaleEventOf(entry))
                                   /\ pc = "result" /\ ScopedSelect
                                   /\ entry.key = op.template
                                   /\ delivered' = Delivery(entry.rows)
      <4>1. ASSUME NEW event, event.name # "OLD_BONE", log' = Append(log, event)
            PROVE  FALSE
        BY <1>4, <1>5, <2>2, <4>1
      <4> QED
        BY <1>1, <2>2, <4>1 DEF ReplayStep
    <3>2. log'[i] = StaleEventOf(entry)
      BY <1>4, <2>2, <3>1
    <3>3. PICK j \in DOMAIN deliveries :
            IsEntryOf(entry, deliveries[j]) /\ deliveries[j].rows = entry.rows
      BY DEF ReplayInv
    <3>4. PICK k \in DOMAIN deliveries' :
            (\A l \in DOMAIN deliveries : l < k) /\ deliveries'[k] = d(entry.rows)
      BY <1>2, <3>1
    <3> QED
      BY <1>2, <3>1, <3>2, <3>3, <3>4 DEF IsEntryOf, StaleEventOf
  <2> QED
    BY <2>1, <2>2
<1> HIDE DEF d
<1> QED
  BY <1>2, <1>3, <1>5 DEF ReplayInv, ReplaysWhatWasDelivered, Replays, ReplayedAt, ReplayOf,
     IsEntryOf

\* Every old bone is a result its template was served before, row by row,
\* over any restarts (faults.py, _old_bone; stale_cache.py).
THEOREM ReplaysAlwaysWereDelivered == HistorySpec => []ReplaysWhatWasDelivered
<1>1. HistoryInit => TypeOK /\ ReplayInv
  <2>1. HistoryInit => ReplayInv
    <3> SUFFICES ASSUME HistoryInit PROVE ReplayInv
      OBVIOUS
    <3>1. deliveries = <<>> /\ entries = {} /\ log = <<>>
      BY DEF HistoryInit, Init, StaleInit, LogInit
    <3>2. deliveries \in Seq({})
      BY <3>1
    <3> QED
      BY <3>1, <3>2 DEF ReplayInv, ReplaysWhatWasDelivered
  <2> QED
    BY <2>1, InitTyped DEF HistoryInit
<1>2. TypeOK /\ ReplayInv /\ [HistoryNext]_<<vars, deliveries>> => TypeOK' /\ ReplayInv'
  <2> SUFFICES ASSUME TypeOK, ReplayInv, [HistoryNext]_<<vars, deliveries>>
               PROVE  TypeOK' /\ ReplayInv'
    OBVIOUS
  <2>1. [Next]_vars
    BY DEF HistoryNext
  <2>2. TypeOK'
    BY <2>1, NextTyped
  <2>3. CASE HistoryNext
    BY <2>2, <2>3, ReplayInvStep
  <2>4. CASE UNCHANGED <<vars, deliveries>>
    <3>1. UNCHANGED <<log, entries, deliveries>>
      BY <2>4 DEF vars, staleVars, logVars
    <3>2. ReplaysWhatWasDelivered'
      BY <3>1 DEF ReplayInv, ReplaysWhatWasDelivered, Replays, ReplayedAt, ReplayOf, IsEntryOf
    <3> QED
      BY <2>2, <3>1, <3>2 DEF ReplayInv, IsEntryOf
  <2> QED
    BY <2>2, <2>3, <2>4
<1>3. ReplayInv => ReplaysWhatWasDelivered
  BY DEF ReplayInv
<1> QED
  BY <1>1, <1>2, <1>3, PTL DEF HistorySpec

-----------------------------------------------------------------------------
(* What is forgotten: the occurrences of the deliveries *)

Serving == pc \in {"before", "backend", "result"}

\* A delivery is told by its template and occurrence, and the read in progress
\* has the latest occurrence of its template.
Numbered ==
  /\ \A j \in DOMAIN deliveries :
       /\ deliveries[j].key \in Templates
       /\ deliveries[j].occurrence \in Nat
       /\ deliveries[j].occurrence <= occurrence[deliveries[j].key]
  /\ \A j, k \in DOMAIN deliveries : IsEntryOf(deliveries[j], deliveries[k]) => j = k
  /\ Serving =>
       /\ op.occurrence = occurrence[op.template]
       /\ \A j \in DOMAIN deliveries :
            deliveries[j].key = op.template => deliveries[j].occurrence < op.occurrence

\* What a step may do to the numbers.
NumberStep ==
  \/ /\ UNCHANGED occurrence
     /\ Serving' => Serving /\ op'.template = op.template /\ op'.occurrence = op.occurrence
  \/ /\ pc = "dispatch"
     /\ occurrence' = [occurrence EXCEPT ![op.template] = @ + 1]
     /\ op'.template = op.template
     /\ op'.occurrence = occurrence[op.template] + 1

\* What a step may do to the history and the cache.
DeliveryStep ==
  \/ UNCHANGED <<deliveries, staleVars>>
  \/ \E rows :
       /\ pc = "result" /\ pc' = "idle"
       /\ op \in Operation
       /\ delivered' = Delivery(rows)
       /\ deliveries' = Append(deliveries, [key |-> op.template, occurrence |-> op.occurrence,
                                            rows |-> rows])
       /\ IF OldBoneOn THEN StaleAdd(op.template, op.occurrence, rows)
                       ELSE UNCHANGED staleVars

\* The phase on_result ends the call, with rows or with an error.
LEMMA ResultsAreDelivered ==
  ASSUME TypeOK, OnResult
  PROVE  /\ pc = "result" /\ op \in Operation
         /\ UNCHANGED occurrence
         /\ pc' = "idle"
         /\ (\E rows : Deliver(rows)) \/ Exit(Nothing)
<1>1. op \in Operation /\ pc = "result"
  BY DEF OnResult, SkipOnResult, ExceedInterventionLimit, LoseResponse, HideTreasures,
     PastNoDrop, Choose, Stash, StashRefused, Reshape, Replay, DeliverWhole, TypeOK, CallTypeOK
<1>2. UNCHANGED occurrence
  BY DEF OnResult, SkipOnResult, ExceedInterventionLimit, LoseResponse, HideTreasures,
     Stash, StashRefused, Reshape, Replay, DeliverWhole
<1>3. (\E rows : Deliver(rows)) \/ Exit(Nothing)
  BY DEF OnResult, SkipOnResult, ExceedInterventionLimit, LoseResponse, HideTreasures,
     Stash, StashRefused, Reshape, Replay, DeliverWhole, Debugged, Emit, Inject
<1>4. pc' = "idle"
  BY <1>3 DEF Deliver, Exit, Leave
<1> QED
  BY <1>1, <1>2, <1>3, <1>4

\* Without a restart, every other step leaves the cache alone.
LEMMA OtherStepsKeepTheCache ==
  ASSUME TypeOK, ~MayCrash, Next, ~OnResult
  PROVE  pc # "result" /\ UNCHANGED staleVars /\ NumberStep
<1> USE DEF Exit, Leave, Goto, Continue, Emit, Inject
<1>1. CASE Begin
  <2>1. pc = "begin" /\ UNCHANGED <<occurrence, staleVars>> /\ pc' \in {"begin", "dispatch", "idle"}
    BY <1>1 DEF Begin, ReturnDue, AdvanceMood, NoMood
  <2> QED
    BY <2>1 DEF NumberStep, Serving
<1>2. CASE Passthrough
  BY <1>2 DEF Passthrough, NumberStep, Serving
<1>3. CASE BeginDecision
  <2>1. op \in Operation
    BY <1>3 DEF BeginDecision, TypeOK, CallTypeOK
  <2> QED
    BY <1>3, <2>1 DEF BeginDecision, NumberStep, Operation
<1>4. CASE Before
  <2>1. op \in Operation /\ pc = "before"
    BY <1>4 DEF Before, RaiseBefore, Delay, PassBefore, TypeOK, CallTypeOK
  <2>2. \A s : LET o == [op EXCEPT !.slot = s]
               IN  o.template = op.template /\ o.occurrence = op.occurrence
    BY <2>1 DEF Operation
  <2>3. UNCHANGED <<occurrence, staleVars>>
    BY <1>4 DEF Before, RaiseBefore, Delay, PassBefore, Debugged
  <2>4. pc' = "idle" \/ \E s : op' = [op EXCEPT !.slot = s]
    BY <1>4 DEF Before, RaiseBefore, Delay, PassBefore, Debugged
  <2> QED
    BY <2>1, <2>2, <2>3, <2>4 DEF NumberStep, Serving
<1>5. CASE Backend
  <2>1. op \in Operation /\ pc = "backend"
    BY <1>5 DEF Backend, BackendRaises, ExceedCap, BackendReturns, TypeOK, CallTypeOK
  <2>2. \A n : LET o == [op EXCEPT !.rows = n]
               IN  o.template = op.template /\ o.occurrence = op.occurrence
    BY <2>1 DEF Operation
  <2>3. UNCHANGED <<occurrence, staleVars>>
    BY <1>5 DEF Backend, BackendRaises, ExceedCap, BackendReturns, Debugged
  <2>4. pc' = "idle" \/ \E n : op' = [op EXCEPT !.rows = n]
    BY <1>5 DEF Backend, BackendRaises, ExceedCap, BackendReturns, Debugged
  <2> QED
    BY <2>1, <2>2, <2>3, <2>4 DEF NumberStep, Serving
<1>6. ASSUME NEW t, LogReturned(t) PROVE pc # "result" /\ UNCHANGED staleVars /\ NumberStep
  BY <1>6 DEF LogReturned, NumberStep, Serving
<1>7. CASE Client
  <2>1. pc = "idle" /\ UNCHANGED <<occurrence, staleVars>> /\ pc' \in {"begin", "returning", "idle"}
    BY <1>7 DEF Client, Call, ReturnTreasure, ReturnAll, callVars
  <2> QED
    BY <2>1 DEF NumberStep, Serving
<1>8. ~Crash
  BY DEF Crash
<1> QED
  BY <1>1, <1>2, <1>3, <1>4, <1>5, <1>6, <1>7, <1>8 DEF Next, Progress, Dispatch

LEMMA NextIsDeliveryStep ==
  ASSUME TypeOK, ~MayCrash, HistoryNext
  PROVE  NumberStep /\ DeliveryStep
<1>1. CASE OnResult
  <2>1. /\ pc = "result" /\ op \in Operation /\ UNCHANGED occurrence /\ pc' = "idle"
        /\ (\E rows : Deliver(rows)) \/ Exit(Nothing)
    BY <1>1, ResultsAreDelivered
  <2>2. NumberStep
    BY <2>1 DEF NumberStep, Serving
  <2>3. ASSUME Exit(Nothing) PROVE DeliveryStep
    <3>1. UNCHANGED staleVars /\ delivered' = Nothing
      BY <2>3 DEF Exit, Leave
    <3>2. ~Delivers
      BY <3>1 DEF Nothing, Delivers
    <3> QED
      BY <3>1, <3>2 DEF HistoryNext, DeliveryStep
  <2>4. ASSUME NEW rows, Deliver(rows), ScopedSelect PROVE DeliveryStep
    <3>1. delivered' = Delivery(rows) /\ delivered'.status = "rows" /\ delivered'.rows = rows
      BY <2>4 DEF Deliver, Leave, Delivery
    <3>2. deliveries' = Append(deliveries, [key |-> op.template, occurrence |-> op.occurrence,
                                            rows |-> rows])
      BY <2>1, <2>4, <3>1 DEF HistoryNext, Delivers
    <3> QED
      BY <2>1, <2>4, <3>1, <3>2 DEF Deliver, DeliveryStep
  <2>5. ASSUME NEW rows, Deliver(rows), ~ScopedSelect PROVE DeliveryStep
    BY <2>5 DEF Deliver, HistoryNext, Delivers, DeliveryStep
  <2> QED
    BY <2>1, <2>2, <2>3, <2>4, <2>5
<1>2. CASE ~OnResult
  BY <1>2, OtherStepsKeepTheCache DEF HistoryNext, Delivers, DeliveryStep
<1> QED
  BY <1>1, <1>2

\* What appending a delivery to the history does.
LEMMA HistoryAppended ==
  ASSUME \E S : deliveries \in Seq(S), NEW d, deliveries' = Append(deliveries, d)
  PROVE  LET n == Len(deliveries) + 1
         IN  /\ DOMAIN deliveries' = DOMAIN deliveries \cup {n}
             /\ n \in Nat /\ n \notin DOMAIN deliveries
             /\ \A j \in DOMAIN deliveries : j \in Nat /\ j < n /\ deliveries'[j] = deliveries[j]
             /\ deliveries'[n] = d
<1>1. PICK S : deliveries \in Seq(S)
  OBVIOUS
<1>2. deliveries \in Seq(S \cup {d})
  BY <1>1
<1>3. d \in S \cup {d}
  OBVIOUS
<1> QED
  BY <1>2, <1>3

\* A read that begins takes the next number of its template, and delivers once.
LEMMA NumberedStep ==
  ASSUME TypeOK, TypeOK', ~MayCrash, HistoryNext,
         \E S : deliveries \in Seq(S), Numbered
  PROVE  Numbered'
<1>1. NumberStep /\ DeliveryStep
  BY NextIsDeliveryStep
<1>2. occurrence \in [Templates -> Nat]
  BY DEF TypeOK
<1>3. CASE UNCHANGED deliveries /\ UNCHANGED occurrence
           /\ (Serving' => Serving /\ op'.template = op.template /\ op'.occurrence = op.occurrence)
  BY <1>3 DEF Numbered, IsEntryOf
<1>4. CASE UNCHANGED deliveries /\ pc = "dispatch"
           /\ occurrence' = [occurrence EXCEPT ![op.template] = @ + 1]
           /\ op'.template = op.template
           /\ op'.occurrence = occurrence[op.template] + 1
  <2>1. op.template \in Templates
    BY <1>4 DEF TypeOK, CallTypeOK, Operation
  <2>2. /\ occurrence'[op.template] = occurrence[op.template] + 1
        /\ \A t \in Templates : t # op.template => occurrence'[t] = occurrence[t]
        /\ \A t \in Templates : occurrence[t] \in Nat
    BY <1>2, <1>4, <2>1
  <2>3. \A j \in DOMAIN deliveries :
          /\ deliveries[j].key \in Templates
          /\ deliveries[j].occurrence \in Nat
          /\ deliveries[j].occurrence <= occurrence[deliveries[j].key]
    BY DEF Numbered
  <2>4. \A j \in DOMAIN deliveries :
          /\ deliveries[j].occurrence <= occurrence'[deliveries[j].key]
          /\ deliveries[j].key = op.template => deliveries[j].occurrence < occurrence[op.template] + 1
    BY <2>1, <2>2, <2>3
  <2> QED
    BY <1>4, <2>2, <2>3, <2>4 DEF Numbered, IsEntryOf
<1>5. CASE ~UNCHANGED deliveries
  <2>1. PICK rows :
          /\ pc = "result" /\ pc' = "idle" /\ op \in Operation
          /\ deliveries' = Append(deliveries, [key |-> op.template, occurrence |-> op.occurrence,
                                               rows |-> rows])
    BY <1>1, <1>5 DEF DeliveryStep
  <2>2. UNCHANGED occurrence /\ ~Serving'
    BY <1>1, <2>1 DEF NumberStep, Serving
  <2> DEFINE n == Len(deliveries) + 1
             d == [key |-> op.template, occurrence |-> op.occurrence, rows |-> rows]
  <2>3. /\ DOMAIN deliveries' = DOMAIN deliveries \cup {n}
        /\ n \notin DOMAIN deliveries
        /\ \A j \in DOMAIN deliveries : deliveries'[j] = deliveries[j]
        /\ deliveries'[n] = d
    BY <2>1, HistoryAppended
  <2>4. op.template \in Templates /\ op.occurrence \in Nat
        /\ op.occurrence = occurrence[op.template]
        /\ \A j \in DOMAIN deliveries :
             deliveries[j].key = op.template => deliveries[j].occurrence < op.occurrence
    BY <2>1 DEF Operation, Numbered, Serving
  <2>5. \A j \in DOMAIN deliveries : ~IsEntryOf(d, deliveries[j]) /\ ~IsEntryOf(deliveries[j], d)
    BY <2>4 DEF IsEntryOf, Numbered
  <2>6. \A j \in DOMAIN deliveries' :
          /\ deliveries'[j].key \in Templates
          /\ deliveries'[j].occurrence \in Nat
          /\ deliveries'[j].occurrence <= occurrence'[deliveries'[j].key]
    <3>1. d.key = op.template /\ d.occurrence = op.occurrence
      OBVIOUS
    <3> HIDE DEF d, n
    <3> QED
      BY <2>2, <2>3, <2>4, <3>1 DEF Numbered
  <2> HIDE DEF d, n
  <2>7. \A j, k \in DOMAIN deliveries' : IsEntryOf(deliveries'[j], deliveries'[k]) => j = k
    BY <2>3, <2>5 DEF Numbered
  <2> QED
    BY <2>2, <2>6, <2>7 DEF Numbered, IsEntryOf
<1> QED
  BY <1>1, <1>3, <1>4, <1>5 DEF NumberStep

-----------------------------------------------------------------------------
(* What is forgotten: the entries that an insertion evicts *)

\* What is as new as one of the newest is one of them.
LEMMA NewestIsUpward ==
  ASSUME NEW S, IsFiniteSet(S), NEW n \in Nat, \A s \in S : s.at \in Nat,
         NEW s \in Newest(S, n), NEW u \in S, u.at >= s.at
  PROVE  u \in Newest(S, n)
<1> DEFINE newer(e) == {x \in S : x.at > e.at}
<1>1. s \in S /\ Cardinality(newer(s)) < n
  BY DEF Newest
<1>2. newer(u) \subseteq newer(s) /\ newer(s) \subseteq S
  BY <1>1
<1> HIDE DEF newer
<1>3. /\ IsFiniteSet(newer(s)) /\ Cardinality(newer(u)) <= Cardinality(newer(s))
      /\ Cardinality(newer(s)) \in Nat /\ Cardinality(newer(u)) \in Nat
  BY <1>2, FS_Subset, FS_CardinalityType
<1>4. Cardinality(newer(u)) < n
  BY <1>1, <1>3
<1> QED
  BY <1>4 DEF newer, Newest

\* Nothing is evicted from a set that is small enough.
LEMMA NewestOfFew ==
  ASSUME NEW S, IsFiniteSet(S), NEW n \in Nat, \A s \in S : s.at \in Nat,
         Cardinality(S) <= n
  PROVE  Newest(S, n) = S
<1> SUFFICES ASSUME NEW s \in S PROVE s \in Newest(S, n)
  BY DEF Newest
<1> DEFINE newer == {u \in S : u.at > s.at}
<1>1. newer \subseteq S \ {s}
  OBVIOUS
<1>2. IsFiniteSet(S \ {s}) /\ Cardinality(S \ {s}) = Cardinality(S) - 1
  BY FS_RemoveElement
<1> HIDE DEF newer
<1>3. Cardinality(newer) <= Cardinality(S) - 1 /\ Cardinality(newer) \in Nat
      /\ Cardinality(S) \in Nat
  BY <1>1, <1>2, FS_Subset, FS_CardinalityType
<1>4. Cardinality(newer) < n
  BY <1>3
<1> QED
  BY <1>4 DEF newer, Newest

\* From a set of one too many the oldest alone is evicted.
LEMMA OldestIsEvicted ==
  ASSUME NEW S, IsFiniteSet(S), NEW n \in Nat, \A s \in S : s.at \in Nat,
         Cardinality(S) <= n + 1, NEW s \in S, s \notin Newest(S, n)
  PROVE  /\ Newest(S, n) = S \ {s}
         /\ Cardinality(Newest(S, n)) = n
         /\ \A u \in S \ {s} : u.at > s.at
<1> DEFINE newer(e) == {u \in S : u.at > e.at}
<1>1. newer(s) \subseteq S \ {s}
  OBVIOUS
<1>2. /\ IsFiniteSet(S \ {s}) /\ Cardinality(S \ {s}) = Cardinality(S) - 1
      /\ Cardinality(S) \in Nat
  BY FS_RemoveElement, FS_CardinalityType
<1>3. ~(Cardinality(newer(s)) < n)
  BY DEF Newest
<1>4. newer(s) = S \ {s} /\ Cardinality(S \ {s}) = n
  <2> HIDE DEF newer
  <2>1. Cardinality(newer(s)) <= Cardinality(S \ {s}) /\ Cardinality(newer(s)) \in Nat
        /\ (Cardinality(newer(s)) = Cardinality(S \ {s}) => newer(s) = S \ {s})
    BY <1>1, <1>2, FS_Subset, FS_CardinalityType
  <2>2. Cardinality(newer(s)) = n /\ Cardinality(S \ {s}) = n
    BY <1>2, <1>3, <2>1
  <2> QED
    BY <2>1, <2>2
<1>5. \A u \in S \ {s} : u.at > s.at
  BY <1>4
<1>6. ASSUME NEW u \in S \ {s} PROVE u \in Newest(S, n)
  <2> DEFINE rest == (S \ {s}) \ {u}
  <2>1. IsFiniteSet(rest) /\ Cardinality(rest) = n - 1
    BY <1>2, <1>4, FS_RemoveElement
  <2>2. newer(u) \subseteq rest
    BY <1>5
  <2> HIDE DEF newer, rest
  <2>3. Cardinality(newer(u)) <= n - 1 /\ Cardinality(newer(u)) \in Nat
    BY <2>1, <2>2, FS_Subset, FS_CardinalityType
  <2>4. Cardinality(newer(u)) < n
    BY <2>3
  <2> QED
    BY <2>4 DEF newer, Newest
<1>7. Newest(S, n) = S \ {s}
  <2>1. Newest(S, n) \subseteq S
    BY DEF Newest
  <2> QED
    BY <1>6, <2>1
<1> QED
  BY <1>4, <1>5, <1>7

\* An insertion forgets an entry when as many of its key are newer as the limit
\* leaves room for, or as the oldest of a cache that stays full; what is newer
\* than an entry that stays, and of its key, stays with it.
LEMMA InsertForgets ==
  ASSUME NEW key \in Templates, NEW o, NEW rows, CacheInv, Insert(key, o, rows)
  PROVE  LET entry == [key |-> key, occurrence |-> o, rows |-> rows, at |-> added + 1]
         IN  /\ entry \in entries'
             /\ entries' \subseteq entries \cup {entry}
             /\ \A e \in entries : e \notin entries' =>
                  \/ /\ e.key = key
                     /\ Cardinality({b \in OfKey(key, byKey) : b.at > e.at}) >= PerKey - 1
                  \/ /\ Cardinality(entries') = Total
                     /\ \A f \in entries' : f.at > e.at
             /\ \A e, f \in entries :
                  e \in entries' /\ f.key = e.key /\ f.at >= e.at => f \in entries'
             /\ Cardinality(entries) = Total => Cardinality(entries') = Total
<1> DEFINE old == OfKey(key, byKey)
           spared == Newest(old, PerKey - 1)
           entry == [key |-> key, occurrence |-> o, rows |-> rows, at |-> added + 1]
           remaining == {e \in entries : Index(e) \notin old \ spared}
           kept == remaining \cup {entry}
<1>1. entries' = Newest(kept, Total)
  <2>1. entries' = kept \ (kept \ Newest(kept, Total))
    BY DEF Insert
  <2>2. Newest(kept, Total) \subseteq kept
    BY DEF Newest
  <2> QED
    BY <2>1, <2>2
<1>2. /\ PerKey \in Nat \ {0} /\ PerKey - 1 \in Nat
      /\ Total \in Nat \ {0}
      /\ added \in Nat
  BY StaleAssumption DEF CacheInv
<1>3. /\ IsFiniteSet(entries) /\ Cardinality(entries) \in Nat /\ Cardinality(entries) <= Total
      /\ \A e \in entries : e.at \in Nat /\ e.at <= added
      /\ \A e, f \in entries : e.at = f.at => e = f
  BY FS_CardinalityType DEF CacheInv, CacheIsBounded
<1>4. /\ byKey = {Index(e) : e \in entries}
      /\ \A e : Index(e).at = e.at /\ Index(e).key = e.key
  BY DEF CacheInv, StaleIndexesAgree, Index
<1>5. /\ IsFiniteSet(old) /\ Cardinality(old) <= (PerKey - 1) + 1
      /\ \A b \in old : b.at \in Nat
      /\ \A b, c \in old : b.at = c.at => b = c
  <2>1. IsFiniteSet(byKey)
    BY IndexIsFinite DEF CacheInv
  <2>2. old \subseteq byKey
    BY DEF OfKey
  <2>3. Cardinality(old) <= PerKey
    BY DEF CacheInv, CacheIsBounded
  <2>4. IsFiniteSet(old)
    BY <2>1, <2>2, FS_Subset
  <2>5. /\ \A b \in byKey : b.at \in Nat
        /\ \A b, c \in byKey : b.at = c.at => b = c
    BY <1>3, <1>4
  <2> HIDE DEF old
  <2> QED
    BY <1>2, <2>2, <2>3, <2>4, <2>5
<1>6. entry \notin entries /\ entry.at = added + 1
  BY <1>2, <1>3
<1>7. IsFiniteSet(remaining) /\ Cardinality(remaining) \in Nat
      /\ Cardinality(remaining) <= Cardinality(entries)
  BY <1>3, FS_Subset, FS_CardinalityType
<1>8. /\ IsFiniteSet(kept) /\ Cardinality(kept) = Cardinality(remaining) + 1
  <2>1. entry \notin remaining
    BY <1>6
  <2> HIDE DEF entry, remaining
  <2> QED
    BY <1>7, <2>1, FS_AddElement
<1>9. \A e \in kept : e.at \in Nat /\ (e # entry => entry.at > e.at)
  <2>1. \A e \in remaining : e \in entries
    OBVIOUS
  <2> HIDE DEF remaining
  <2>2. \A e \in kept : e # entry => e \in entries
    BY <2>1
  <2> HIDE DEF kept, entry
  <2> QED
    BY <1>2, <1>3, <1>6, <2>2
<1>10. Cardinality(kept) <= Total + 1
  BY <1>2, <1>3, <1>7, <1>8
<1>11. entry \in entries'
  <2>1. {u \in kept : u.at > entry.at} = {}
    <3> HIDE DEF kept, entry
    <3> QED
      BY <1>2, <1>6, <1>9
  <2>2. Cardinality({}) = 0
    BY FS_EmptySet
  <2>3. entry \in kept
    OBVIOUS
  <2> HIDE DEF kept, entry
  <2> QED
    BY <1>1, <1>2, <2>1, <2>2, <2>3 DEF Newest
<1>12. entries' \subseteq kept /\ entries' \subseteq entries \cup {entry}
  BY <1>1 DEF Newest
<1>13. ASSUME NEW e \in entries, e \notin entries'
       PROVE  \/ /\ e.key = key
                 /\ Cardinality({b \in old : b.at > e.at}) >= PerKey - 1
              \/ /\ Cardinality(entries') = Total
                 /\ \A f \in entries' : f.at > e.at
  <2>1. CASE Index(e) \in old \ spared
    <3>1. Index(e) \in old /\ e.key = key /\ Index(e).at = e.at
      BY <1>4, <2>1 DEF OfKey
    <3>2. ~(Cardinality({b \in old : b.at > e.at}) < PerKey - 1)
      BY <2>1, <3>1 DEF Newest
    <3>3. Cardinality({b \in old : b.at > e.at}) \in Nat
      <4> HIDE DEF old
      <4> QED
        BY <1>5, FS_Subset, FS_CardinalityType
    <3> QED
      BY <1>2, <3>1, <3>2, <3>3
  <2>2. CASE Index(e) \notin old \ spared
    <3>1. e \in kept /\ e \notin Newest(kept, Total)
      BY <1>1, <1>13, <2>2
    <3> HIDE DEF kept
    <3> QED
      BY <1>1, <1>2, <1>8, <1>9, <1>10, <3>1, OldestIsEvicted
  <2> QED
    BY <2>1, <2>2
<1>14. ASSUME NEW e \in entries, NEW f \in entries, e \in entries', f.key = e.key, f.at >= e.at
       PROVE  f \in entries'
  <2>1. Index(e) \notin old \ spared
    BY <1>6, <1>12, <1>14
  <2>2. Index(f) \notin old \ spared
    <3> SUFFICES ASSUME Index(f) \in old PROVE Index(f) \in spared
      OBVIOUS
    <3>1. Index(e) \in old
      BY <1>4, <1>14 DEF OfKey
    <3>2. Index(e) \in spared
      BY <2>1, <3>1
    <3>3. Index(f).at >= Index(e).at
      BY <1>4, <1>14
    <3> HIDE DEF old
    <3> QED
      BY <1>2, <1>5, <3>2, <3>3, NewestIsUpward
  <2>3. f \in kept
    BY <2>2
  <2> HIDE DEF kept
  <2> QED
    BY <1>1, <1>2, <1>8, <1>9, <1>14, <2>3, NewestIsUpward
<1>15. ASSUME Cardinality(entries) = Total PROVE Cardinality(entries') = Total
  <2>1. CASE old \ spared = {}
    <3>1. remaining = entries
      BY <2>1
    <3>2. Cardinality(kept) = Total + 1
      BY <1>8, <1>15, <3>1
    <3>3. \A e, f \in kept : e.at = f.at => e = f
      <4>1. \A e \in kept : e = entry \/ e \in entries
        OBVIOUS
      <4> HIDE DEF kept, entry
      <4> QED
        BY <1>2, <1>3, <1>6, <4>1
    <3> HIDE DEF kept
    <3>4. Cardinality(Newest(kept, Total)) <= Total
      BY <1>2, <1>8, <1>9, <3>3, NewestIsSmall
    <3>5. Newest(kept, Total) # kept
      BY <1>2, <3>2, <3>4
    <3>6. PICK s \in kept : s \notin Newest(kept, Total)
      BY <3>5 DEF Newest
    <3> QED
      BY <1>1, <1>2, <1>8, <1>9, <1>10, <3>6, OldestIsEvicted
  <2>2. CASE old \ spared # {}
    <3>1. PICK b \in old : b \notin spared
      BY <2>2
    <3>2. old \ spared = {b}
      <4>1. spared = old \ {b}
        <5> HIDE DEF old
        <5> QED
          BY <1>2, <1>5, <3>1, OldestIsEvicted
      <4> QED
        BY <3>1, <4>1
    <3>3. PICK g \in entries : Index(g) = b
      BY <1>4, <3>1 DEF OfKey
    <3>4. remaining = entries \ {g}
      <4>1. \A e \in entries : Index(e) = b <=> e = g
        BY <1>3, <1>4, <3>3
      <4> HIDE DEF old, spared
      <4> QED
        BY <3>2, <4>1
    <3> HIDE DEF kept, remaining
    <3>5. Cardinality(kept) = Total
      <4>1. Cardinality(entries \ {g}) = Cardinality(entries) - 1
        BY <1>3, FS_RemoveElement
      <4> QED
        BY <1>2, <1>8, <1>15, <3>4, <4>1
    <3>6. Newest(kept, Total) = kept
      BY <1>2, <1>8, <1>9, <3>5, NewestOfFew
    <3> QED
      BY <1>1, <3>5, <3>6
  <2> QED
    BY <2>1, <2>2
<1> HIDE DEF spared, remaining, kept
<1> QED
  BY <1>11, <1>12, <1>13, <1>14, <1>15

-----------------------------------------------------------------------------
(* What is forgotten: entries and deliveries *)

\* Every entry is a delivery small enough to keep, the entries are in the order
\* of their deliveries, and of a template it is the latest that are cached.
CacheFollowsHistory ==
  /\ \A e \in entries : \E j \in Cacheable : IsEntryOf(e, deliveries[j])
  /\ \A e, f \in entries, j, k \in DOMAIN deliveries :
       IsEntryOf(e, deliveries[j]) /\ IsEntryOf(f, deliveries[k]) => (e.at < f.at <=> j < k)
  /\ \A j, k \in Cacheable :
       j < k /\ deliveries[j].key = deliveries[k].key /\ Cached(j) => Cached(k)
  /\ ~OldBoneOn => entries = {}

Later(i) == {j \in Cacheable : j > i /\ deliveries[j].key = deliveries[i].key}

\* Only so many results were delivered.
LEMMA CacheableIsFinite ==
  ASSUME \E S : deliveries \in Seq(S)
  PROVE  /\ IsFiniteSet(Cacheable) /\ Cacheable \subseteq Nat
         /\ \A i : IsFiniteSet(Later(i)) /\ Cardinality(Later(i)) \in Nat
<1>1. DOMAIN deliveries = 1 .. Len(deliveries) /\ Len(deliveries) \in Nat
  OBVIOUS
<1>2. IsFiniteSet(DOMAIN deliveries) /\ DOMAIN deliveries \subseteq Nat
  BY <1>1, FS_Interval
<1>3. Cacheable \subseteq DOMAIN deliveries /\ \A i : Later(i) \subseteq DOMAIN deliveries
  BY DEF Cacheable, Later
<1> QED
  BY <1>2, <1>3, FS_Subset, FS_CardinalityType

\* No entry is told apart from its delivery by one that comes later.
LEMMA EntriesMatchThePast ==
  ASSUME CacheFollowsHistory, Numbered',
         \A j \in DOMAIN deliveries : j \in DOMAIN deliveries' /\ deliveries'[j] = deliveries[j],
         NEW e \in entries, NEW j \in DOMAIN deliveries', IsEntryOf(e, deliveries'[j])
  PROVE  j \in DOMAIN deliveries /\ IsEntryOf(e, deliveries[j])
<1>1. PICK k \in DOMAIN deliveries : IsEntryOf(e, deliveries[k])
  BY DEF CacheFollowsHistory, Cacheable
<1>2. k \in DOMAIN deliveries' /\ IsEntryOf(deliveries'[k], deliveries'[j])
  BY <1>1 DEF IsEntryOf
<1>3. k = j
  BY <1>2 DEF Numbered
<1> QED
  BY <1>1, <1>3

\* The entries of a template that are newer than one are results delivered later.
LEMMA NewerWereDeliveredLater ==
  ASSUME \E S : deliveries \in Seq(S), CacheInv, CacheFollowsHistory,
         NEW e \in entries, NEW i \in DOMAIN deliveries, IsEntryOf(e, deliveries[i])
  PROVE  Cardinality({b \in OfKey(e.key, byKey) : b.at > e.at}) <= Cardinality(Later(i))
<1> DEFINE newer == {b \in OfKey(e.key, byKey) : b.at > e.at}
           place == [b \in newer |->
                       CHOOSE j \in Cacheable : IsEntryOf(b, deliveries[j])]
<1>1. ASSUME NEW b \in newer
      PROVE  \E f \in entries : /\ f.key = b.key /\ f.occurrence = b.occurrence
                                /\ f.at = b.at /\ b = Index(f)
  <2>1. b \in {Index(f) : f \in entries}
    BY DEF CacheInv, StaleIndexesAgree, OfKey
  <2>2. PICK f \in entries : b = Index(f)
    BY <2>1
  <2>3. f.key = b.key /\ f.occurrence = b.occurrence /\ f.at = b.at
    BY <2>2 DEF Index
  <2> QED
    BY <2>2, <2>3
<1>2. ASSUME NEW b \in newer
      PROVE  place[b] \in Cacheable /\ IsEntryOf(b, deliveries[place[b]])
  <2>1. \E j \in Cacheable : IsEntryOf(b, deliveries[j])
    BY <1>1 DEF CacheFollowsHistory, IsEntryOf
  <2> QED
    BY <2>1
<1>3. \A b \in newer : b.key = e.key /\ b.at > e.at
  BY DEF OfKey
<1>4. \A f \in entries : f.at \in Nat
  BY DEF CacheInv
<1>5. \A b \in newer : place[b] \in Later(i)
  <2> SUFFICES ASSUME NEW b \in newer PROVE place[b] \in Later(i)
    OBVIOUS
  <2>1. PICK f \in entries : f.key = b.key /\ f.occurrence = b.occurrence /\ f.at = b.at
    BY <1>1
  <2>2. IsEntryOf(f, deliveries[place[b]]) /\ place[b] \in DOMAIN deliveries
    BY <1>2, <2>1 DEF IsEntryOf, Cacheable
  <2>3. e.at < f.at
    BY <1>3, <1>4, <2>1
  <2>4. i < place[b]
    BY <2>2, <2>3 DEF CacheFollowsHistory
  <2>5. deliveries[place[b]].key = deliveries[i].key
    BY <1>2, <1>3 DEF IsEntryOf
  <2>6. i \in Nat /\ place[b] \in Nat
    BY <2>2
  <2> HIDE DEF place
  <2> QED
    BY <1>2, <2>4, <2>5, <2>6 DEF Later
<1>6. \A b, c \in newer : place[b] = place[c] => b = c
  <2> SUFFICES ASSUME NEW b \in newer, NEW c \in newer, place[b] = place[c] PROVE b = c
    OBVIOUS
  <2>1. PICK f \in entries : /\ f.key = b.key /\ f.occurrence = b.occurrence
                             /\ f.at = b.at /\ b = Index(f)
    BY <1>1
  <2>2. PICK g \in entries : /\ g.key = c.key /\ g.occurrence = c.occurrence
                             /\ g.at = c.at /\ c = Index(g)
    BY <1>1
  <2> DEFINE k == place[b]
  <2>3. k \in DOMAIN deliveries /\ k \in Nat
    BY <1>2 DEF Cacheable
  <2>4. IsEntryOf(f, deliveries[k]) /\ IsEntryOf(g, deliveries[k])
    BY <1>2, <2>1, <2>2 DEF IsEntryOf
  <2> HIDE DEF k, place, newer
  <2>5. ~(f.at < g.at) /\ ~(g.at < f.at)
    BY <2>3, <2>4 DEF CacheFollowsHistory
  <2>6. f = g
    BY <1>4, <2>5 DEF CacheInv
  <2> QED
    BY <2>1, <2>2, <2>6
<1>7. place \in Injection(newer, Later(i))
  <2>1. place \in [newer -> Later(i)]
    BY <1>5
  <2> HIDE DEF place, newer
  <2> QED
    BY <1>6, <2>1, Fun_IsInj
<1>8. IsFiniteSet(Later(i))
  BY CacheableIsFinite
<1> HIDE DEF place
<1> QED
  BY <1>7, <1>8, FS_Injection

\* As many of a template as were delivered and kept since an entry are cached
\* beside it, so they are fewer than the limit.
LEMMA FewWereDeliveredSince ==
  ASSUME \E S : deliveries \in Seq(S), CacheInv, CacheFollowsHistory, Numbered,
         NEW e \in entries, NEW i \in Cacheable, IsEntryOf(e, deliveries[i])
  PROVE  Cardinality(Later(i)) < PerKey
<1> DEFINE others == OfKey(e.key, byKey) \ {Index(e)}
           entry(j) == CHOOSE f \in entries : IsEntryOf(f, deliveries[j])
           index == [j \in Later(i) |-> Index(entry(j))]
<1>1. ASSUME NEW j \in Later(i)
      PROVE  entry(j) \in entries /\ IsEntryOf(entry(j), deliveries[j])
  <2>1. Cached(i)
    BY DEF Cached
  <2>2. j \in Cacheable /\ i < j /\ deliveries[i].key = deliveries[j].key
    <3>1. Cacheable \subseteq Nat
      BY CacheableIsFinite
    <3> QED
      BY <3>1 DEF Later
  <2>3. Cached(j)
    BY <2>1, <2>2 DEF CacheFollowsHistory
  <2> QED
    BY <2>3 DEF Cached
<1>2. /\ byKey = {Index(f) : f \in entries}
      /\ \A f : Index(f).key = f.key /\ Index(f).occurrence = f.occurrence
  BY DEF CacheInv, StaleIndexesAgree, Index
<1>3. ASSUME NEW j \in Later(i) PROVE index[j] \in others
  <2> HIDE DEF entry
  <2>1. j \in DOMAIN deliveries /\ j # i /\ deliveries[j].key = e.key
    <3>1. Cacheable \subseteq Nat
      BY CacheableIsFinite
    <3> QED
      BY <3>1 DEF Later, Cacheable, IsEntryOf
  <2>2. Index(entry(j)) \in OfKey(e.key, byKey)
    BY <1>1, <1>2, <2>1 DEF OfKey, IsEntryOf
  <2>3. Index(entry(j)) # Index(e)
    <3> SUFFICES ASSUME Index(entry(j)) = Index(e) PROVE FALSE
      OBVIOUS
    <3>1. entry(j).key = e.key /\ entry(j).occurrence = e.occurrence
      BY <1>2
    <3>2. IsEntryOf(deliveries[i], deliveries[j])
      BY <1>1, <3>1 DEF IsEntryOf
    <3> QED
      BY <2>1, <3>2 DEF Numbered, Cacheable
  <2> QED
    BY <2>2, <2>3
<1>4. ASSUME NEW j \in Later(i), NEW k \in Later(i), index[j] = index[k] PROVE j = k
  <2> HIDE DEF entry
  <2>1. entry(j).key = entry(k).key /\ entry(j).occurrence = entry(k).occurrence
    BY <1>2, <1>4
  <2>2. IsEntryOf(deliveries[j], deliveries[k])
    BY <1>1, <2>1 DEF IsEntryOf
  <2> QED
    BY <2>2 DEF Numbered, Later, Cacheable
<1>5. index \in Injection(Later(i), others)
  <2>1. index \in [Later(i) -> others]
    BY <1>3
  <2> HIDE DEF index, others
  <2> QED
    BY <1>4, <2>1, Fun_IsInj
<1>6. /\ IsFiniteSet(OfKey(e.key, byKey)) /\ Cardinality(OfKey(e.key, byKey)) \in Nat
      /\ Cardinality(OfKey(e.key, byKey)) <= PerKey
  <2>1. IsFiniteSet(byKey)
    BY IndexIsFinite DEF CacheInv
  <2>2. OfKey(e.key, byKey) \subseteq byKey
    BY DEF OfKey
  <2>3. e.key \in Templates
    BY DEF IsEntryOf, Numbered, Cacheable
  <2> QED
    BY <2>1, <2>2, <2>3, FS_Subset, FS_CardinalityType DEF CacheInv, CacheIsBounded
<1>7. Index(e) \in OfKey(e.key, byKey)
  BY <1>2 DEF OfKey
<1>8. IsFiniteSet(others) /\ Cardinality(others) = Cardinality(OfKey(e.key, byKey)) - 1
  BY <1>6, <1>7, FS_RemoveElement
<1> HIDE DEF index, others
<1>9. Cardinality(Later(i)) <= Cardinality(others) /\ Cardinality(Later(i)) \in Nat
  BY <1>5, <1>8, FS_Injection, CacheableIsFinite
<1> QED
  BY <1>6, <1>8, <1>9, StaleAssumption

\* Of the results that were delivered since an entry, all that are among the last
\* PerKey of their template are cached beside it: they are fewer than Total.
LEMMA FewAreKeptSince ==
  ASSUME \E S : deliveries \in Seq(S), CacheInv, CacheFollowsHistory, Numbered,
         OnlyTheOldestAreEvicted,
         NEW e \in entries, NEW i \in Cacheable, IsEntryOf(e, deliveries[i])
  PROVE  Cardinality({j \in Cacheable : j > i /\ Cardinality(Later(j)) < PerKey}) < Total
<1> DEFINE kept == {j \in Cacheable : j > i /\ Cardinality(Later(j)) < PerKey}
           entry(j) == CHOOSE f \in entries : IsEntryOf(f, deliveries[j])
           place == [j \in kept |-> entry(j)]
<1>1. Cacheable \subseteq Nat /\ Cacheable \subseteq DOMAIN deliveries
  BY CacheableIsFinite DEF Cacheable
<1>2. ASSUME NEW j \in kept
      PROVE  entry(j) \in entries \ {e} /\ IsEntryOf(entry(j), deliveries[j])
  <2>1. Cached(i)
    BY DEF Cached
  <2>2. /\ i \in Nat /\ j \in Nat /\ j \in Cacheable
        /\ i < j /\ ~(i > j)
        /\ ~(Cardinality(Later(j)) >= PerKey)
    <3>1. Cardinality(Later(j)) \in Nat
      BY CacheableIsFinite
    <3> QED
      BY <1>1, <3>1, StaleAssumption
  <2>3. Cached(j)
    BY <2>1, <2>2 DEF OnlyTheOldestAreEvicted, Later
  <2>4. entry(j) \in entries /\ IsEntryOf(entry(j), deliveries[j])
    BY <2>3 DEF Cached
  <2> HIDE DEF entry
  <2>5. ASSUME entry(j) = e PROVE FALSE
    <3>1. IsEntryOf(deliveries[i], deliveries[j])
      BY <2>4, <2>5 DEF IsEntryOf
    <3>2. i = j
      BY <1>1, <2>2, <3>1 DEF Numbered
    <3> QED
      BY <2>2, <3>2
  <2> QED
    BY <2>4, <2>5
<1>3. ASSUME NEW j \in kept, NEW k \in kept, entry(j) = entry(k) PROVE j = k
  <2> HIDE DEF entry
  <2>1. IsEntryOf(deliveries[j], deliveries[k])
    BY <1>2, <1>3 DEF IsEntryOf
  <2> QED
    BY <1>1, <2>1 DEF Numbered
<1> HIDE DEF kept, entry
<1>4. place \in Injection(kept, entries \ {e})
  <2>1. place \in [kept -> entries \ {e}]
    BY <1>2
  <2>2. \A j, k \in kept : place[j] = place[k] => j = k
    BY <1>3
  <2> HIDE DEF place
  <2> QED
    BY <2>1, <2>2, Fun_IsInj
<1>5. /\ IsFiniteSet(entries \ {e})
      /\ Cardinality(entries \ {e}) = Cardinality(entries) - 1
      /\ Cardinality(entries) \in Nat /\ Cardinality(entries) <= Total
  BY FS_RemoveElement, FS_CardinalityType DEF CacheInv, CacheIsBounded
<1>6. Cardinality(kept) <= Cardinality(entries \ {e}) /\ Cardinality(kept) \in Nat
  <2>1. IsFiniteSet(kept)
    BY CacheableIsFinite, FS_Subset DEF kept
  <2> HIDE DEF place
  <2> QED
    BY <1>4, <1>5, <2>1, FS_Injection, FS_CardinalityType
<1>7. Cardinality(kept) < Total
  BY <1>5, <1>6, StaleAssumption
<1> QED
  BY <1>7 DEF kept

-----------------------------------------------------------------------------
(* What is forgotten: the invariant *)

\* A step delivers rows: what becomes of the history and the cache.
Delivered(rows) ==
  /\ op \in Operation
  /\ deliveries' = Append(deliveries, [key |-> op.template, occurrence |-> op.occurrence,
                                       rows |-> rows])
  /\ IF OldBoneOn THEN StaleAdd(op.template, op.occurrence, rows) ELSE UNCHANGED staleVars

\* A result that is too large to keep, or of a session without a cache.
LEMMA CacheFollowsWithoutInsert ==
  ASSUME \E S : deliveries \in Seq(S), Numbered', CacheFollowsHistory,
         NEW rows, Delivered(rows), UNCHANGED entries,
         OldBoneOn => ~(Len(rows) <= MaxInterventionRows)
  PROVE  CacheFollowsHistory'
<1> DEFINE n == Len(deliveries) + 1
<1>1. /\ DOMAIN deliveries' = DOMAIN deliveries \cup {n}
      /\ n \in Nat /\ n \notin DOMAIN deliveries
      /\ \A j \in DOMAIN deliveries : j \in Nat /\ j < n /\ deliveries'[j] = deliveries[j]
      /\ deliveries'[n].rows = rows
  <2>1. deliveries'[n] = [key |-> op.template, occurrence |-> op.occurrence, rows |-> rows]
    BY HistoryAppended DEF Delivered
  <2> QED
    BY <2>1, HistoryAppended DEF Delivered
<1> HIDE DEF n
<1>2. CASE entries = {}
  BY <1>2 DEF CacheFollowsHistory, Cached
<1>3. CASE entries # {}
  <2>1. ~(Len(rows) <= MaxInterventionRows)
    BY <1>3 DEF CacheFollowsHistory
  <2>2. Cacheable' = Cacheable
    BY <1>1, <2>1 DEF Cacheable
  <2>3. \A e \in entries, j \in DOMAIN deliveries' :
          IsEntryOf(e, deliveries'[j]) => j \in DOMAIN deliveries /\ IsEntryOf(e, deliveries[j])
    BY <1>1, EntriesMatchThePast
  <2>4. \A j \in Cacheable : j \in DOMAIN deliveries /\ deliveries'[j] = deliveries[j]
    BY <1>1 DEF Cacheable
  <2>5. \A j \in Cacheable : Cached(j)' <=> Cached(j)
    BY <2>4 DEF Cached
  <2> QED
    BY <2>2, <2>3, <2>4, <2>5 DEF CacheFollowsHistory
<1> QED
  BY <1>2, <1>3

\* What an insertion comes to, with the delivery it belongs to.
LEMMA InsertedAndDelivered ==
  ASSUME \E S : deliveries \in Seq(S), Numbered, Numbered', CacheInv, CacheFollowsHistory,
         NEW rows, Delivered(rows), OldBoneOn, Len(rows) <= MaxInterventionRows
  PROVE  LET n == Len(deliveries) + 1
             entry == [key |-> op.template, occurrence |-> op.occurrence, rows |-> rows,
                       at |-> added + 1]
         IN  /\ DOMAIN deliveries' = DOMAIN deliveries \cup {n}
             /\ Cacheable' = Cacheable \cup {n}
             /\ n \in Nat /\ n \notin DOMAIN deliveries
             /\ \A j \in DOMAIN deliveries : j \in Nat /\ j < n /\ deliveries'[j] = deliveries[j]
             /\ deliveries'[n].key = op.template
             /\ entry \in entries' /\ entries' \subseteq entries \cup {entry}
             /\ \A j \in DOMAIN deliveries' : IsEntryOf(entry, deliveries'[j]) <=> j = n
             /\ \A e \in entries : e.at < entry.at
             /\ \A e \in entries, j \in DOMAIN deliveries' :
                  IsEntryOf(e, deliveries'[j]) <=> j # n /\ IsEntryOf(e, deliveries[j])
             /\ Insert(op.template, op.occurrence, rows) /\ op.template \in Templates
<1> DEFINE n == Len(deliveries) + 1
           d == [key |-> op.template, occurrence |-> op.occurrence, rows |-> rows]
           entry == [key |-> op.template, occurrence |-> op.occurrence, rows |-> rows,
                     at |-> added + 1]
<1>1. /\ DOMAIN deliveries' = DOMAIN deliveries \cup {n}
      /\ n \in Nat /\ n \notin DOMAIN deliveries
      /\ \A j \in DOMAIN deliveries : j \in Nat /\ j < n /\ deliveries'[j] = deliveries[j]
      /\ deliveries'[n] = d
  BY HistoryAppended DEF Delivered
<1>2. d.key = op.template /\ d.occurrence = op.occurrence /\ d.rows = rows
  OBVIOUS
<1>3. entry.key = op.template /\ entry.occurrence = op.occurrence /\ entry.at = added + 1
  OBVIOUS
<1>4. Insert(op.template, op.occurrence, rows) /\ op.template \in Templates
  <2>1. ~(Len(rows) > MaxInterventionRows)
    BY StaleAssumption
  <2> QED
    BY <2>1 DEF Delivered, StaleAdd, Operation
<1>5. entry \in entries' /\ entries' \subseteq entries \cup {entry}
  BY <1>4, InsertForgets
<1>6. \A e \in entries : e.at < entry.at
  BY <1>3 DEF CacheInv
<1> HIDE DEF n, d, entry
<1>7. Cacheable' = Cacheable \cup {n}
  BY <1>1, <1>2 DEF Cacheable
<1>8. \A j \in DOMAIN deliveries' : IsEntryOf(entry, deliveries'[j]) <=> j = n
  <2> SUFFICES ASSUME NEW j \in DOMAIN deliveries'
               PROVE  IsEntryOf(entry, deliveries'[j]) <=> j = n
    OBVIOUS
  <2>1. IsEntryOf(entry, deliveries'[n]) /\ n \in DOMAIN deliveries'
    BY <1>1, <1>2, <1>3 DEF IsEntryOf
  <2>2. IsEntryOf(entry, deliveries'[j]) => IsEntryOf(deliveries'[n], deliveries'[j])
    BY <2>1 DEF IsEntryOf
  <2> QED
    BY <2>1, <2>2 DEF Numbered
<1>9. \A e \in entries, j \in DOMAIN deliveries' :
        IsEntryOf(e, deliveries'[j]) <=> j # n /\ IsEntryOf(e, deliveries[j])
  <2> SUFFICES ASSUME NEW e \in entries, NEW j \in DOMAIN deliveries'
               PROVE  IsEntryOf(e, deliveries'[j]) <=> j # n /\ IsEntryOf(e, deliveries[j])
    OBVIOUS
  <2>1. IsEntryOf(e, deliveries'[j]) => j \in DOMAIN deliveries /\ IsEntryOf(e, deliveries[j])
    BY <1>1, EntriesMatchThePast
  <2> QED
    BY <1>1, <2>1
<1> QED
  BY <1>1, <1>2, <1>4, <1>5, <1>6, <1>7, <1>8, <1>9 DEF n, entry

LEMMA CacheFollowsInsert ==
  ASSUME \E S : deliveries \in Seq(S), Numbered, Numbered', CacheInv, CacheFollowsHistory,
         NEW rows, Delivered(rows), OldBoneOn, Len(rows) <= MaxInterventionRows
  PROVE  CacheFollowsHistory'
<1> DEFINE n == Len(deliveries) + 1
           entry == [key |-> op.template, occurrence |-> op.occurrence, rows |-> rows,
                     at |-> added + 1]
<1>1. /\ DOMAIN deliveries' = DOMAIN deliveries \cup {n}
      /\ Cacheable' = Cacheable \cup {n}
      /\ n \in Nat /\ n \notin DOMAIN deliveries
      /\ \A j \in DOMAIN deliveries : j \in Nat /\ j < n /\ deliveries'[j] = deliveries[j]
      /\ deliveries'[n].key = op.template
      /\ entry \in entries' /\ entries' \subseteq entries \cup {entry}
      /\ \A j \in DOMAIN deliveries' : IsEntryOf(entry, deliveries'[j]) <=> j = n
      /\ \A e \in entries : e.at < entry.at
      /\ \A e \in entries, j \in DOMAIN deliveries' :
           IsEntryOf(e, deliveries'[j]) <=> j # n /\ IsEntryOf(e, deliveries[j])
      /\ Insert(op.template, op.occurrence, rows) /\ op.template \in Templates
  BY InsertedAndDelivered
<1>2. \A e, f \in entries :
        e \in entries' /\ f.key = e.key /\ f.at >= e.at => f \in entries'
  BY <1>1, InsertForgets
<1>3. \A e \in entries : e.at \in Nat /\ e.at < added + 1
  BY DEF CacheInv
<1>4. entry.at = added + 1 /\ entry.at \in Nat
  BY DEF CacheInv
<1> HIDE DEF n, entry
<1>5. ASSUME NEW e \in entries' PROVE \E j \in Cacheable' : IsEntryOf(e, deliveries'[j])
  <2>1. CASE e = entry
    BY <1>1, <2>1
  <2>2. CASE e \in entries
    <3>1. PICK j \in Cacheable : IsEntryOf(e, deliveries[j])
      BY <2>2 DEF CacheFollowsHistory
    <3> QED
      BY <1>1, <3>1 DEF Cacheable
  <2> QED
    BY <1>1, <2>1, <2>2
<1>6. ASSUME NEW e \in entries', NEW f \in entries',
             NEW j \in DOMAIN deliveries', NEW k \in DOMAIN deliveries',
             IsEntryOf(e, deliveries'[j]), IsEntryOf(f, deliveries'[k])
      PROVE  e.at < f.at <=> j < k
  <2>1. CASE e = entry /\ f = entry
    BY <1>1, <1>4, <1>6, <2>1
  <2>2. CASE e = entry /\ f \in entries
    BY <1>1, <1>3, <1>4, <1>6, <2>2
  <2>3. CASE e \in entries /\ f = entry
    BY <1>1, <1>3, <1>4, <1>6, <2>3
  <2>4. CASE e \in entries /\ f \in entries
    BY <1>1, <1>6, <2>4 DEF CacheFollowsHistory
  <2> QED
    BY <1>1, <2>1, <2>2, <2>3, <2>4
<1>7. ASSUME NEW j \in Cacheable', NEW k \in Cacheable',
             j < k, deliveries'[j].key = deliveries'[k].key, Cached(j)'
      PROVE  Cached(k)'
  <2>1. CASE k = n
    BY <1>1, <2>1 DEF Cached
  <2>2. CASE k \in Cacheable
    <3>1. j \in Cacheable
      BY <1>1, <1>7, <2>2 DEF Cacheable
    <3>2. PICK e \in entries' : IsEntryOf(e, deliveries'[j])
      BY <1>7 DEF Cached
    <3>3. e \in entries /\ IsEntryOf(e, deliveries[j])
      BY <1>1, <3>1, <3>2 DEF Cacheable
    <3>4. deliveries[j].key = deliveries[k].key
      BY <1>1, <1>7, <2>2, <3>1 DEF Cacheable
    <3>5. PICK f \in entries : IsEntryOf(f, deliveries[k])
      BY <1>7, <2>2, <3>1, <3>3, <3>4 DEF CacheFollowsHistory, Cached
    <3>6. f.at >= e.at
      BY <1>3, <1>7, <2>2, <3>1, <3>3, <3>5 DEF CacheFollowsHistory, Cacheable
    <3>7. f \in entries'
      BY <1>2, <3>2, <3>3, <3>4, <3>5, <3>6 DEF IsEntryOf
    <3>8. IsEntryOf(f, deliveries'[k])
      BY <1>1, <2>2, <3>5 DEF Cacheable
    <3> QED
      BY <3>7, <3>8 DEF Cached
  <2> QED
    BY <1>1, <2>1, <2>2
<1> QED
  BY <1>5, <1>6, <1>7 DEF CacheFollowsHistory

LEMMA CacheFollowsStep ==
  ASSUME \E S : deliveries \in Seq(S), Numbered, Numbered', CacheInv, CacheFollowsHistory,
         DeliveryStep
  PROVE  CacheFollowsHistory'
<1>1. CASE UNCHANGED <<deliveries, staleVars>>
  BY <1>1 DEF staleVars, CacheFollowsHistory, Cacheable, Cached
<1>2. ASSUME NEW rows, Delivered(rows) PROVE CacheFollowsHistory'
  <2>1. CASE OldBoneOn /\ Len(rows) <= MaxInterventionRows
    BY <1>2, <2>1, CacheFollowsInsert
  <2>2. CASE OldBoneOn /\ ~(Len(rows) <= MaxInterventionRows)
    <3>1. UNCHANGED entries
      BY <1>2, <2>2, StaleAssumption DEF Delivered, StaleAdd, staleVars, Insert
    <3> QED
      BY <1>2, <2>2, <3>1, CacheFollowsWithoutInsert
  <2>3. CASE ~OldBoneOn
    <3>1. UNCHANGED entries
      BY <1>2, <2>3 DEF Delivered, staleVars
    <3> QED
      BY <1>2, <2>3, <3>1, CacheFollowsWithoutInsert
  <2> QED
    BY <2>1, <2>2, <2>3
<1> QED
  BY <1>1, <1>2 DEF DeliveryStep, Delivered

-----------------------------------------------------------------------------
(* What is forgotten: only the oldest, and what is replayed is recent *)

\* An insertion evicts by its key or by the total, and each spares what is newer.
LEMMA EvictionKeepsToTheOldest ==
  ASSUME \E S : deliveries \in Seq(S), Numbered, Numbered', CacheInv, CacheFollowsHistory,
         OnlyTheOldestAreEvicted,
         NEW rows, Delivered(rows), OldBoneOn, Len(rows) <= MaxInterventionRows
  PROVE  OnlyTheOldestAreEvicted'
<1> DEFINE n == Len(deliveries) + 1
           entry == [key |-> op.template, occurrence |-> op.occurrence, rows |-> rows,
                     at |-> added + 1]
<1>1. /\ DOMAIN deliveries' = DOMAIN deliveries \cup {n}
      /\ Cacheable' = Cacheable \cup {n}
      /\ n \in Nat /\ n \notin DOMAIN deliveries
      /\ \A j \in DOMAIN deliveries : j \in Nat /\ j < n /\ deliveries'[j] = deliveries[j]
      /\ deliveries'[n].key = op.template
      /\ entry \in entries' /\ entries' \subseteq entries \cup {entry}
      /\ \A j \in DOMAIN deliveries' : IsEntryOf(entry, deliveries'[j]) <=> j = n
      /\ \A e \in entries : e.at < entry.at
      /\ \A e \in entries, j \in DOMAIN deliveries' :
           IsEntryOf(e, deliveries'[j]) <=> j # n /\ IsEntryOf(e, deliveries[j])
      /\ Insert(op.template, op.occurrence, rows) /\ op.template \in Templates
  BY InsertedAndDelivered
<1>2. /\ \A e \in entries : e \notin entries' =>
           \/ /\ e.key = op.template
              /\ Cardinality({b \in OfKey(op.template, byKey) : b.at > e.at}) >= PerKey - 1
           \/ /\ Cardinality(entries') = Total
              /\ \A f \in entries' : f.at > e.at
      /\ Cardinality(entries) = Total => Cardinality(entries') = Total
  BY <1>1, InsertForgets
<1>3. PerKey \in Nat /\ \A e \in entries : e.at \in Nat
  BY StaleAssumption DEF CacheInv
<1>4. Cacheable \subseteq DOMAIN deliveries /\ Cacheable' \subseteq DOMAIN deliveries'
  BY DEF Cacheable
<1> HIDE DEF n, entry
<1> DEFINE Since(i) == {j \in Cacheable' : j > i /\ deliveries'[j].key = deliveries'[i].key}
<1> SUFFICES ASSUME NEW i \in Cacheable'
             PROVE  \/ Cached(i)'
                    \/ Cardinality(Since(i)) >= PerKey
                    \/ /\ Cardinality(entries') = Total
                       /\ \A j \in Cacheable' : Cached(j)' => j > i
  BY DEF OnlyTheOldestAreEvicted
<1>5. CASE i = n
  BY <1>1, <1>5 DEF Cached
<1>6. CASE i \in Cacheable
  <2>1. Since(i) = IF deliveries[i].key = op.template THEN Later(i) \cup {n} ELSE Later(i)
    <3>1. n > i /\ deliveries'[i] = deliveries[i]
      BY <1>1, <1>4, <1>6
    <3>2. \A j \in Cacheable : deliveries'[j] = deliveries[j]
      BY <1>1, <1>4
    <3> QED
      BY <1>1, <3>1, <3>2 DEF Later
  <2>2. IsFiniteSet(Later(i)) /\ Cardinality(Later(i)) \in Nat /\ n \notin Later(i)
    <3>1. IsFiniteSet(Later(i)) /\ Cardinality(Later(i)) \in Nat
      BY CacheableIsFinite
    <3> QED
      BY <1>1, <1>4, <3>1 DEF Later
  <2>3. Cardinality(Since(i)) = IF deliveries[i].key = op.template
                                  THEN Cardinality(Later(i)) + 1 ELSE Cardinality(Later(i))
    <3> HIDE DEF Since
    <3> QED
      BY <2>1, <2>2, FS_AddElement
  <2> HIDE DEF Since
  <2>4. CASE Cached(i)
    <3>1. PICK e \in entries : IsEntryOf(e, deliveries[i])
      BY <2>4 DEF Cached
    <3>2. CASE e \in entries'
      BY <1>1, <1>4, <1>6, <3>1, <3>2 DEF Cached
    <3>3. CASE /\ e.key = op.template
               /\ Cardinality({b \in OfKey(op.template, byKey) : b.at > e.at}) >= PerKey - 1
      <4> DEFINE newer == {b \in OfKey(op.template, byKey) : b.at > e.at}
      <4>1. Cardinality(newer) <= Cardinality(Later(i))
        BY <1>4, <1>6, <3>1, <3>3, NewerWereDeliveredLater
      <4>2. Cardinality(newer) \in Nat
        <5>1. IsFiniteSet(byKey)
          BY IndexIsFinite DEF CacheInv
        <5>2. newer \subseteq byKey
          BY DEF OfKey
        <5> QED
          BY <5>1, <5>2, FS_Subset, FS_CardinalityType
      <4>3. Cardinality(newer) >= PerKey - 1
        BY <3>3
      <4>4. deliveries[i].key = op.template
        BY <3>1, <3>3 DEF IsEntryOf
      <4> HIDE DEF newer
      <4> QED
        BY <1>3, <2>2, <2>3, <4>1, <4>2, <4>3, <4>4
    <3>4. CASE Cardinality(entries') = Total /\ \A f \in entries' : f.at > e.at
      <4> SUFFICES ASSUME NEW j \in Cacheable', Cached(j)' PROVE j > i
        BY <3>4
      <4>1. PICK f \in entries' : IsEntryOf(f, deliveries'[j])
        BY DEF Cached
      <4>2. CASE f = entry
        BY <1>1, <1>4, <1>6, <4>1, <4>2
      <4>3. CASE f \in entries
        <5>1. j \in DOMAIN deliveries /\ IsEntryOf(f, deliveries[j])
          BY <1>1, <1>4, <4>1, <4>3
        <5>2. e.at < f.at
          BY <1>3, <3>4, <4>3
        <5>3. i < j
          BY <1>4, <1>6, <3>1, <4>3, <5>1, <5>2 DEF CacheFollowsHistory
        <5> QED
          BY <1>1, <1>4, <1>6, <5>1, <5>3
      <4> QED
        BY <1>1, <4>2, <4>3
    <3> QED
      BY <1>2, <3>2, <3>3, <3>4
  <2>5. CASE Cardinality(Later(i)) >= PerKey
    BY <1>3, <2>2, <2>3, <2>5
  <2>6. CASE Cardinality(entries) = Total /\ \A j \in Cacheable : Cached(j) => j > i
    <3> SUFFICES ASSUME NEW j \in Cacheable', Cached(j)' PROVE j > i
      BY <1>2, <2>6
    <3>1. PICK f \in entries' : IsEntryOf(f, deliveries'[j])
      BY DEF Cached
    <3>2. CASE j = n
      BY <1>1, <1>4, <1>6, <3>2
    <3>3. CASE j # n
      <4>1. j \in Cacheable /\ f \in entries
        BY <1>1, <1>4, <3>1, <3>3
      <4>2. Cached(j)
        BY <1>1, <1>4, <3>1, <4>1 DEF Cached
      <4> QED
        BY <2>6, <4>1, <4>2
    <3> QED
      BY <3>2, <3>3
  <2> QED
    BY <1>6, <2>4, <2>5, <2>6 DEF OnlyTheOldestAreEvicted, Later
<1> QED
  BY <1>1, <1>5, <1>6

LEMMA OldestStep ==
  ASSUME \E S : deliveries \in Seq(S), Numbered, Numbered', CacheInv, CacheFollowsHistory,
         DeliveryStep, OldBoneOn, OnlyTheOldestAreEvicted
  PROVE  OnlyTheOldestAreEvicted'
<1>1. CASE UNCHANGED <<deliveries, staleVars>>
  BY <1>1 DEF staleVars, OnlyTheOldestAreEvicted, Cacheable, Cached
<1>2. ASSUME NEW rows, Delivered(rows) PROVE OnlyTheOldestAreEvicted'
  <2>1. CASE Len(rows) <= MaxInterventionRows
    BY <1>2, <2>1, EvictionKeepsToTheOldest
  <2>2. CASE ~(Len(rows) <= MaxInterventionRows)
    <3>1. UNCHANGED entries
      BY <1>2, <2>2, StaleAssumption DEF Delivered, StaleAdd, staleVars, Insert
    <3> DEFINE n == Len(deliveries) + 1
    <3>2. /\ DOMAIN deliveries' = DOMAIN deliveries \cup {n}
          /\ n \notin DOMAIN deliveries
          /\ \A j \in DOMAIN deliveries : deliveries'[j] = deliveries[j]
          /\ deliveries'[n].rows = rows
      <4>1. deliveries'[n] = [key |-> op.template, occurrence |-> op.occurrence, rows |-> rows]
        BY <1>2, HistoryAppended DEF Delivered
      <4> QED
        BY <1>2, <4>1, HistoryAppended DEF Delivered
    <3> HIDE DEF n
    <3>3. Cacheable' = Cacheable /\ \A j \in Cacheable : deliveries'[j] = deliveries[j]
      BY <2>2, <3>2 DEF Cacheable
    <3>4. \A j \in Cacheable : Cached(j)' <=> Cached(j)
      BY <3>1, <3>3 DEF Cached
    <3>5. \A i \in Cacheable :
            {j \in Cacheable' : j > i /\ deliveries'[j].key = deliveries'[i].key}
              = {j \in Cacheable : j > i /\ deliveries[j].key = deliveries[i].key}
      BY <3>3
    <3> QED
      BY <3>1, <3>3, <3>4, <3>5 DEF OnlyTheOldestAreEvicted
  <2> QED
    BY <2>1, <2>2
<1> QED
  BY <1>1, <1>2 DEF DeliveryStep, Delivered

\* A replay is recent when it is delivered, and what was delivered before it
\* does not change afterwards.
LEMMA RecentStep ==
  ASSUME TypeOK, TypeOK', Numbered, CacheInv, CacheFollowsHistory, ReplayInv,
         OldBoneOn => OnlyTheOldestAreEvicted, DeliveryStep, ReplayStep, HistoryNext,
         ReplaysAreRecent
  PROVE  ReplaysAreRecent'
<1>1. log \in Seq(Event) /\ log' \in Seq(Event)
  BY DEF TypeOK, LogTypeOK
<1>2. \E S : deliveries \in Seq(S)
  BY DEF ReplayInv
<1>3. /\ \A j \in DOMAIN deliveries :
           j \in Nat /\ j \in DOMAIN deliveries' /\ deliveries'[j] = deliveries[j]
      /\ \A j \in DOMAIN deliveries', k \in DOMAIN deliveries :
           j < k => j \in DOMAIN deliveries
      /\ \A j, k \in DOMAIN deliveries' :
           j < k => j \in DOMAIN deliveries
  <2>1. CASE UNCHANGED deliveries
    BY <1>2, <2>1
  <2>2. ASSUME NEW rows, Delivered(rows)
        PROVE  /\ \A j \in DOMAIN deliveries :
                    j \in Nat /\ j \in DOMAIN deliveries' /\ deliveries'[j] = deliveries[j]
               /\ \A j \in DOMAIN deliveries', k \in DOMAIN deliveries :
                    j < k => j \in DOMAIN deliveries
               /\ \A j, k \in DOMAIN deliveries' :
                    j < k => j \in DOMAIN deliveries
    <3> DEFINE n == Len(deliveries) + 1
    <3>1. /\ DOMAIN deliveries' = DOMAIN deliveries \cup {n}
          /\ n \in Nat
          /\ \A j \in DOMAIN deliveries : j \in Nat /\ j < n /\ deliveries'[j] = deliveries[j]
      BY <1>2, <2>2, HistoryAppended DEF Delivered
    <3> HIDE DEF n
    <3> QED
      BY <3>1
  <2> QED
    BY <2>1, <2>2 DEF DeliveryStep, Delivered
<1> DEFINE Between(j, k) ==
             {l \in Cacheable : j < l /\ l < k /\ deliveries[l].key = deliveries[j].key}
           Following(j, k) ==
             {l \in Cacheable' : j < l /\ l < k /\ deliveries'[l].key = deliveries'[j].key}
           RecentNext(k) ==
             {j \in Cacheable' : j < k /\ Cardinality(Following(j, k)) < PerKey}
<1>4. ASSUME NEW k \in DOMAIN deliveries'
      PROVE  /\ \A j : j < k /\ j \in Cacheable' <=> j < k /\ j \in Cacheable
             /\ \A j \in Cacheable : j < k => Following(j, k) = Between(j, k)
  BY <1>3 DEF Cacheable
<1> HIDE DEF Following, Between
<1>5. ASSUME NEW k \in DOMAIN deliveries'
      PROVE  RecentNext(k) = {j \in Cacheable : j < k /\ Cardinality(Between(j, k)) < PerKey}
  BY <1>4
<1> HIDE DEF RecentNext
<1>6. ASSUME NEW i \in DOMAIN log', log'[i].name = "OLD_BONE"
      PROVE  \E j, k \in DOMAIN deliveries' :
               /\ IsEntryOf(ReplayedAt(i)', deliveries'[j])
               /\ IsEntryOf(ReplayOf(i)', deliveries'[k])
               /\ j \in RecentNext(k)
               /\ Cardinality({l \in RecentNext(k) : l > j}) < Total
  <2>1. CASE i \in DOMAIN log /\ log'[i] = log[i]
    <3>1. PICK j \in DOMAIN deliveries, k \in DOMAIN deliveries :
            /\ IsEntryOf(ReplayedAt(i), deliveries[j])
            /\ IsEntryOf(ReplayOf(i), deliveries[k])
            /\ j \in Recent(k)
            /\ Cardinality({l \in Recent(k) : l > j}) < Total
      BY <1>6, <2>1 DEF ReplaysAreRecent, Replays
    <3>2. ReplayedAt(i)' = ReplayedAt(i) /\ ReplayOf(i)' = ReplayOf(i)
      BY <2>1 DEF ReplayedAt, ReplayOf
    <3>3. /\ j \in DOMAIN deliveries' /\ deliveries'[j] = deliveries[j]
          /\ k \in DOMAIN deliveries' /\ deliveries'[k] = deliveries[k]
      BY <1>3
    <3>4. RecentNext(k) = Recent(k)
      BY <1>5, <3>3 DEF Recent, Between
    <3> QED
      BY <3>1, <3>2, <3>3, <3>4
  <2>2. CASE ~(i \in DOMAIN log /\ log'[i] = log[i])
    <3>1. PICK entry \in entries : /\ log' = Append(log, StaleEventOf(entry))
                                   /\ pc = "result" /\ ScopedSelect
                                   /\ entry.key = op.template
                                   /\ delivered' = Delivery(entry.rows)
      <4>1. ASSUME NEW event, event.name # "OLD_BONE", log' = Append(log, event)
            PROVE  FALSE
        BY <1>1, <1>6, <2>2, <4>1
      <4> QED
        BY <1>1, <2>2, <4>1 DEF ReplayStep
    <3>2. log'[i] = StaleEventOf(entry)
      BY <1>1, <2>2, <3>1
    <3>3. /\ log'[i].template = entry.key /\ log'[i].stale = entry.occurrence
          /\ log'[i].occurrence = op.occurrence
      BY <3>1, <3>2 DEF StaleEventOf
    <3>4. PICK j \in Cacheable : IsEntryOf(entry, deliveries[j])
      BY DEF CacheFollowsHistory
    <3>5. j \in DOMAIN deliveries
      BY DEF Cacheable
    <3>6. PICK k \in DOMAIN deliveries' :
            /\ \A l \in DOMAIN deliveries : l < k
            /\ deliveries'[k] = [key |-> op.template, occurrence |-> op.occurrence,
                                 rows |-> entry.rows]
      BY <1>2, <3>1, HistoryGrows
    <3>7. \A l \in Cacheable : l < k /\ Between(l, k) = Later(l)
      BY <1>3, <3>6 DEF Between, Later, Cacheable
    <3>8. RecentNext(k) = {l \in Cacheable : Cardinality(Later(l)) < PerKey}
      BY <1>5, <3>6, <3>7
    <3>9. Cardinality(Later(j)) < PerKey
      BY <1>2, <3>4, FewWereDeliveredSince
    <3>10. Cardinality({l \in RecentNext(k) : l > j}) < Total
      <4>1. OnlyTheOldestAreEvicted
        BY DEF CacheFollowsHistory
      <4>2. {l \in RecentNext(k) : l > j}
              = {l \in Cacheable : l > j /\ Cardinality(Later(l)) < PerKey}
        BY <3>8
      <4> QED
        BY <1>2, <3>4, <4>1, <4>2, FewAreKeptSince
    <3>11. j \in DOMAIN deliveries' /\ IsEntryOf(ReplayedAt(i)', deliveries'[j])
      BY <1>3, <3>3, <3>4, <3>5 DEF ReplayedAt, IsEntryOf
    <3>12. IsEntryOf(ReplayOf(i)', deliveries'[k])
      BY <3>1, <3>3, <3>6 DEF ReplayOf, IsEntryOf
    <3> QED
      BY <3>8, <3>9, <3>10, <3>11, <3>12
  <2> QED
    BY <2>1, <2>2
<1>7. \A k : Recent(k)' = RecentNext(k)
  BY DEF Recent, RecentNext, Following
<1> QED
  BY <1>6, <1>7 DEF ReplaysAreRecent, Replays

-----------------------------------------------------------------------------
(* What is forgotten: the theorems *)

\* The inductive invariant.
ForgetInv ==
  /\ Numbered
  /\ CacheInv
  /\ CacheFollowsHistory
  /\ ReplayInv
  /\ OldBoneOn => OnlyTheOldestAreEvicted
  /\ ReplaysAreRecent

LEMMA ForgetInvInit == HistoryInit => ForgetInv
<1> SUFFICES ASSUME HistoryInit PROVE ForgetInv
  OBVIOUS
<1>1. deliveries = <<>> /\ entries = {} /\ log = <<>> /\ pc = "idle"
  BY DEF HistoryInit, Init, StaleInit, LogInit
<1>2. CacheInv
  BY CacheInvInit DEF HistoryInit
<1>3. DOMAIN deliveries = {} /\ DOMAIN log = {} /\ Cacheable = {}
  BY <1>1 DEF Cacheable
<1>4. Numbered
  BY <1>1, <1>3 DEF Numbered, Serving
<1>5. ReplayInv
  <2>1. deliveries \in Seq({})
    BY <1>1
  <2> QED
    BY <1>1, <1>3, <2>1 DEF ReplayInv, ReplaysWhatWasDelivered
<1> QED
  BY <1>1, <1>2, <1>3, <1>4, <1>5 DEF ForgetInv, CacheFollowsHistory, OnlyTheOldestAreEvicted,
     ReplaysAreRecent

LEMMA ForgetInvStep ==
  ASSUME ~MayCrash, TypeOK, TypeOK', ForgetInv, HistoryNext
  PROVE  ForgetInv'
<1>1. \E S : deliveries \in Seq(S)
  BY DEF ForgetInv, ReplayInv
<1>2. DeliveryStep
  BY NextIsDeliveryStep
<1>3. Numbered'
  BY <1>1, NumberedStep DEF ForgetInv
<1>4. CacheInv'
  BY NextIsStaleStep, CacheInvStep DEF ForgetInv, HistoryNext
<1>5. CacheFollowsHistory'
  BY <1>1, <1>2, <1>3, CacheFollowsStep DEF ForgetInv
<1>6. ReplayInv'
  BY ReplayInvStep DEF ForgetInv
<1>7. OldBoneOn => OnlyTheOldestAreEvicted'
  BY <1>1, <1>2, <1>3, OldestStep DEF ForgetInv
<1>8. ReplaysAreRecent'
  <2>1. ReplayStep
    BY NextIsReplayStep DEF HistoryNext
  <2> QED
    BY <1>2, <2>1, RecentStep DEF ForgetInv
<1> QED
  BY <1>3, <1>4, <1>5, <1>6, <1>7, <1>8 DEF ForgetInv

LEMMA ForgetInvariant ==
  ASSUME ~MayCrash
  PROVE  HistorySpec => []ForgetInv
<1>1. HistoryInit => TypeOK /\ ForgetInv
  BY InitTyped, ForgetInvInit DEF HistoryInit
<1>2. TypeOK /\ ForgetInv /\ [HistoryNext]_<<vars, deliveries>> => TypeOK' /\ ForgetInv'
  <2> SUFFICES ASSUME TypeOK, ForgetInv, [HistoryNext]_<<vars, deliveries>>
               PROVE  TypeOK' /\ ForgetInv'
    OBVIOUS
  <2>1. TypeOK'
    BY NextTyped DEF HistoryNext
  <2>2. CASE HistoryNext
    BY <2>1, <2>2, ForgetInvStep
  <2>3. CASE UNCHANGED <<vars, deliveries>>
    <3>1. UNCHANGED <<log, staleVars, entries, byKey, added, occurrence, pc, op, deliveries>>
      BY <2>3 DEF vars, staleVars, logVars, callVars
    <3>2. Numbered'
      BY <3>1 DEF ForgetInv, Numbered, Serving, IsEntryOf
    <3>3. CacheInv'
      BY <3>1 DEF ForgetInv, CacheInv, StaleIndexesAgree, CacheIsBounded
    <3>4. Cacheable' = Cacheable /\ \A i : Cached(i)' <=> Cached(i)
      BY <3>1 DEF Cacheable, Cached
    <3>5. CacheFollowsHistory'
      BY <3>1, <3>4 DEF ForgetInv, CacheFollowsHistory
    <3>6. ReplayInv'
      BY <3>1 DEF ForgetInv, ReplayInv, ReplaysWhatWasDelivered, Replays, ReplayedAt, ReplayOf
    <3>7. OldBoneOn => OnlyTheOldestAreEvicted'
      BY <3>1, <3>4 DEF ForgetInv, OnlyTheOldestAreEvicted
    <3>8. ReplaysAreRecent'
      <4>1. \A k : Recent(k)' = Recent(k)
        BY <3>1, <3>4 DEF Recent
      <4>2. \A i : /\ Replays(i)' <=> Replays(i)
                   /\ ReplayedAt(i)' = ReplayedAt(i) /\ ReplayOf(i)' = ReplayOf(i)
        BY <3>1 DEF Replays, ReplayedAt, ReplayOf
      <4>3. DOMAIN log' = DOMAIN log /\ deliveries' = deliveries
        BY <3>1
      <4>4. ReplaysAreRecent
        BY DEF ForgetInv
      <4> QED
        BY <4>1, <4>2, <4>3, <4>4 DEF ReplaysAreRecent
    <3> QED
      BY <2>1, <3>2, <3>3, <3>5, <3>6, <3>7, <3>8 DEF ForgetInv
  <2> QED
    BY <2>1, <2>2, <2>3
<1> QED
  BY <1>1, <1>2, PTL DEF HistorySpec

\* In a session that is not started again, a result that the cache would take is
\* forgotten only for want of room: PerKey of its template came after it, or
\* the cache is full of later ones (stale_cache.py, add).
THEOREM OnlyTheOldestAreForgotten ==
  ASSUME OldBoneOn, ~MayCrash
  PROVE  HistorySpec => []OnlyTheOldestAreEvicted
BY ForgetInvariant, PTL DEF ForgetInv

\* In a session that is not started again, what OLD_BONE delivers was given before,
\* as one of the last PerKey results of its template, with fewer than Total such
\* results since then (stale_cache.py, add and history).
THEOREM ReplaysAlwaysAreRecent ==
  ASSUME ~MayCrash
  PROVE  HistorySpec => []ReplaysAreRecent
BY ForgetInvariant, PTL DEF ForgetInv

=============================================================================
