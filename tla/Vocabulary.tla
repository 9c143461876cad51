----------------------------- MODULE Vocabulary -----------------------------
(***************************************************************************)
(* The sets the components of a session share.                             *)
(***************************************************************************)
CONSTANTS Templates,    \* SQL template fingerprints
          Moods         \* the moods of the dog (MOODS in core/mood.py)

=============================================================================
