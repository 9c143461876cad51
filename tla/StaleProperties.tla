--------------------------- MODULE StaleProperties ---------------------------
(***************************************************************************)
(* What OLD_BONE may deliver: properties of the stale read cache in a      *)
(* session, over the history of what the client was given.                 *)
(***************************************************************************)
EXTENDS SessionProperties

VARIABLE deliveries     \* history: the results of scoped reads, in order

\* A read of the client comes back with rows.
Delivers == pc = "result" /\ delivered'.status = "rows" /\ ScopedSelect

HistoryInit == Init /\ deliveries = <<>>

HistoryNext ==
  /\ Next
  /\ deliveries' =
       IF Delivers
         THEN Append(deliveries, [key |-> op.template, occurrence |-> op.occurrence,
                                  rows |-> delivered'.rows])
         ELSE deliveries

HistorySpec == HistoryInit /\ [][HistoryNext]_<<vars, deliveries>>

-----------------------------------------------------------------------------
\* The two dictionaries of the cache hold the same entries, whichever limit
\* evicted: otherwise history() raises KeyError in the middle of a read, or a
\* result is replayed that was to be forgotten (stale_cache.py, _remove).
StaleIndexesAgree == byKey = {Index(e) : e \in entries}

\* Neither limit is ever passed (stale_cache.py, the two loops of add).
CacheIsBounded ==
  /\ Cardinality(entries) <= Total
  /\ \A t \in Templates : Cardinality(OfKey(t, byKey)) <= PerKey

Cacheable == {i \in DOMAIN deliveries : Len(deliveries[i].rows) <= MaxInterventionRows}

IsEntryOf(e, d) == e.key = d.key /\ e.occurrence = d.occurrence

Cached(i) == \E e \in entries : IsEntryOf(e, deliveries[i])

\* Only the oldest results are forgotten, and only for want of room: one that
\* is not in the cache was followed by PerKey of its template, or by every one
\* of a full cache (stale_cache.py, add).
OnlyTheOldestAreEvicted ==
  \A i \in Cacheable :
    \/ Cached(i)
    \/ Cardinality({j \in Cacheable : j > i /\ deliveries[j].key = deliveries[i].key}) >= PerKey
    \/ /\ Cardinality(entries) = Total
       /\ \A j \in Cacheable : Cached(j) => j > i

Replays(i) == log[i].name = "OLD_BONE"
ReplayedAt(i) == [key |-> log[i].template, occurrence |-> log[i].stale]
ReplayOf(i) == [key |-> log[i].template, occurrence |-> log[i].occurrence]

\* What OLD_BONE delivers is what the client was given at the earlier occurrence
\* the event names, hidden, reshaped or replayed as it was then: not what the
\* backend returned, nor the current rows (faults.py, _old_bone; openspec
\* stale-read-cache: the results the client actually received).
ReplaysWhatWasDelivered ==
  \A i \in DOMAIN log : Replays(i) =>
    \E j, k \in DOMAIN deliveries :
      /\ j < k
      /\ IsEntryOf(ReplayedAt(i), deliveries[j])
      /\ IsEntryOf(ReplayOf(i), deliveries[k])
      /\ deliveries[j].rows = deliveries[k].rows

\* The latest PerKey results of each template that were given before the k-th
\* and are small enough to keep.
Recent(k) ==
  {j \in Cacheable :
     /\ j < k
     /\ Cardinality({l \in Cacheable : j < l /\ l < k
                       /\ deliveries[l].key = deliveries[j].key}) < PerKey}

\* What OLD_BONE delivers was given earlier, as one of the last PerKey results of
\* its template, and of all such results fewer than Total are more recent: no
\* replay reaches back past either limit, however their evictions interleave
\* (stale_cache.py, add and history).
ReplaysAreRecent ==
  \A i \in DOMAIN log : Replays(i) =>
    \E j, k \in DOMAIN deliveries :
      /\ IsEntryOf(ReplayedAt(i), deliveries[j])
      /\ IsEntryOf(ReplayOf(i), deliveries[k])
      /\ j \in Recent(k)
      /\ Cardinality({l \in Recent(k) : l > j}) < Total

=============================================================================
