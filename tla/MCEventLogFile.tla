--------------------------- MODULE MCEventLogFile ---------------------------
(***************************************************************************)
(* Two sessions that share one file.                                       *)
(***************************************************************************)
EXTENDS EventLogFile, TLC

CONSTANTS run, rerun

Renamed == Permutations(Sessions)

=============================================================================
