------------------------------- MODULE MCStale -------------------------------
(***************************************************************************)
(* Sessions with a stale read cache.                                       *)
(***************************************************************************)
EXTENDS MCSession, StaleProperties

\* Reads whose result may be replayed, grow past the limit of the cache, or lose
\* a row to the house.
ReplayWeight == [m \in Moods |-> Only({"OLD_BONE", "STASH", "ECHO"})]

=============================================================================
