---------------------------- MODULE MCDebugReplay ----------------------------
(***************************************************************************)
(* A mood that rules STASH out, one that makes it certain.                 *)
(***************************************************************************)
EXTENDS DebugReplay

CONSTANTS read, calm, zoomy

Reads ==
  [t \in Templates |-> [kind |-> "SELECT", scoped |-> TRUE, ordered |-> TRUE,
                        paged |-> FALSE, columns |-> 1]]

Positional == {<<"execute", "positional">>}

StashByMood ==
  [m \in Moods |-> [f \in Faults |->
     IF m = calm /\ f = "STASH" THEN "always" ELSE "never"]]

=============================================================================
