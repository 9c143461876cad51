------------------------------- MODULE Journal -------------------------------
(***************************************************************************)
(* What a file of events promises its readers, whatever becomes of the     *)
(* writes: an event is read at the place where it was written, a session's *)
(* numbers only grow, and the only event a reader may see and later miss   *)
(* is the last one, when its writing was not completed.                    *)
(***************************************************************************)
EXTENDS Naturals

CONSTANT Sessions

VARIABLE readable   \* the events a reader gets, with their places

Init == readable = {}

Write(entry) ==
  /\ entry \in [place: Nat, session: Sessions, seq: Nat, safe: BOOLEAN]
  /\ \A e \in readable : e.place < entry.place
  /\ \A e \in readable : e.session = entry.session => e.seq < entry.seq
  /\ readable' = readable \cup {entry}

Lose(entry) ==
  /\ ~entry.safe
  /\ \A e \in readable : e.place <= entry.place
  /\ readable' = readable \ {entry}

Next ==
  \/ \E entry \in readable' : Write(entry)
  \/ \E entry \in readable : Lose(entry)

Spec == Init /\ [][Next]_readable

=============================================================================
