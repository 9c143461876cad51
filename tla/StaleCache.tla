----------------------------- MODULE StaleCache -----------------------------
(***************************************************************************)
(* The results OLD_BONE may deliver again (core/stale_cache.py).           *)
(*                                                                         *)
(* _entries and _by_key are ordered by insertion; `at` is the number of    *)
(* the insertion, and the loops that evict the oldest ones until few       *)
(* enough are left keep the Newest.  The key is the template: parameters   *)
(* only split it further.                                                  *)
(***************************************************************************)
EXTENDS Vocabulary, Naturals, Sequences, FiniteSets

CONSTANTS OldBoneOn,            \* whether OLD_BONE has a probability
          PerKey,               \* per_fingerprint
          Total,                \* total_limit
          MaxInterventionRows   \* max_intervention_rows

ASSUME StaleAssumption ==
  /\ OldBoneOn \in BOOLEAN
  /\ PerKey \in Nat \ {0}
  /\ Total \in Nat \ {0}
  /\ MaxInterventionRows \in Nat

VARIABLES entries,      \* _entries
          byKey,        \* _by_key, as the set of its pairs
          added         \* how many insertions there were

staleVars == <<entries, byKey, added>>

Index(e) == [key |-> e.key, occurrence |-> e.occurrence, at |-> e.at]

StaleTypeOK ==
  /\ \A e \in entries : Index(e) \in [key: Templates, occurrence: Nat, at: Nat]
  /\ byKey \subseteq [key: Templates, occurrence: Nat, at: Nat]
  /\ added \in Nat

StaleInit ==
  /\ entries = {}
  /\ byKey = {}
  /\ added = 0

OfKey(key, S) == {s \in S : s.key = key}

\* Mutant: one more than the limit is kept.
NewestAndOne(S, n) == {s \in S : Cardinality({u \in S : u.at > s.at}) <= n}

\* Mutant: the newest are evicted.
Oldest(S, n) == {s \in S : Cardinality({u \in S : u.at < s.at}) < n}

Newest(S, n) == {s \in S : Cardinality({u \in S : u.at > s.at}) < n}

\* history(): the occurrences of the key, looked up in the entries.
History(key) == {e \in OfKey(key, entries) : Index(e) \in byKey}

\* Mutant: the total limit evicts from the entries alone.
AddDroppingEntries(key, occurrence, rows) ==
  LET evicted == OfKey(key, byKey) \ Newest(OfKey(key, byKey), PerKey - 1)
      entry == [key |-> key, occurrence |-> occurrence, rows |-> rows, at |-> added + 1]
      kept == {e \in entries : Index(e) \notin evicted} \cup {entry}
  IN  /\ entries' = Newest(kept, Total)
      /\ byKey' = (byKey \ evicted) \cup {Index(entry)}
      /\ added' = added + 1

\* The oldest of the key go first, then the oldest of all; _remove takes an
\* entry out of both dictionaries.
Insert(key, occurrence, rows) ==
  LET evicted == OfKey(key, byKey) \ Newest(OfKey(key, byKey), PerKey - 1)
      entry == [key |-> key, occurrence |-> occurrence, rows |-> rows, at |-> added + 1]
      kept == {e \in entries : Index(e) \notin evicted} \cup {entry}
      dropped == kept \ Newest(kept, Total)
  IN  /\ entries' = kept \ dropped
      /\ byKey' = ((byKey \ evicted) \cup {Index(entry)}) \ {Index(e) : e \in dropped}
      /\ added' = added + 1

\* add(): a result of too many rows is not kept.
StaleAdd(key, occurrence, rows) ==
  IF Len(rows) > MaxInterventionRows THEN UNCHANGED staleVars
                                     ELSE Insert(key, occurrence, rows)

=============================================================================
