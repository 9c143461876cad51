----------------------------- MODULE FaultPolicy -----------------------------
(***************************************************************************)
(* Which fault an operation may suffer (core/faults.py).  A fault fires    *)
(* when a hash of the decision key falls below its probability times the   *)
(* multiplier of the mood.  The hash is independent for each fault and     *)
(* each decision, so a product strictly between 0 and 1 may go either way: *)
(* Weight[m][f] is "never", "maybe" or "always".                           *)
(*                                                                         *)
(* STASH_ERROR and STASH are one fault in two modes and never candidates   *)
(* together: the model has STASH and the constant StashRaises.             *)
(***************************************************************************)
EXTENDS Vocabulary, Naturals, Sequences

CONSTANT Weight

BeforeExecutePriority == <<"BARK", "GUARD_BOWL", "IGNORE", "SLOTH">>

OnResultPriority ==
  <<"NO_DROP", "STASH", "FALSE_EMPTY", "TAIL_CHASE", "PAGE_HOLE", "ECHO",
    "SHUFFLE", "TANGLED_LEASH", "CHEW", "WRONG_COUNT", "OLD_BONE">>

BeforeExecuteErrors == {"BARK", "GUARD_BOWL", "IGNORE"}

Members(priority) == {priority[i] : i \in DOMAIN priority}

Faults == Members(BeforeExecutePriority) \cup Members(OnResultPriority)

ASSUME WeightAssumption ==
  Weight \in [Moods -> [Faults -> {"never", "maybe", "always"}]]

\* has_effective_weight
HasEffectiveWeight(priority, m) ==
  \E f \in Members(priority) : Weight[m][f] # "never"

\* select_candidate: the outcomes it may have, "none" if nothing fires.
Selections(priority, eligible, m) ==
  LET certain(f) == f \in eligible /\ Weight[m][f] = "always"
      reached(i) == \A j \in 1 .. (i - 1) : ~certain(priority[j])
  IN  {priority[i] : i \in {k \in DOMAIN priority :
         /\ priority[k] \in eligible
         /\ Weight[m][priority[k]] # "never"
         /\ reached(k)}}
      \cup (IF \E f \in Members(priority) : certain(f) THEN {} ELSE {"none"})

=============================================================================
