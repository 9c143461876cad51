--------------------------- MODULE OperationOrder ---------------------------
(***************************************************************************)
(* The order in which the parts of one operation appear in the log, over   *)
(* the history of the operation each event was appended in.                *)
(***************************************************************************)
EXTENDS SessionProperties

VARIABLE operations     \* history: _logical_tick when each event was appended

OrderInit == Init /\ operations = <<>>

OrderNext ==
  /\ Next
  /\ operations' = IF log' = log THEN operations ELSE Append(operations, tick)

OrderSpec == OrderInit /\ [][OrderNext]_<<vars, operations>>

-----------------------------------------------------------------------------
\* Where an event stands among those of its operation; what the client returns
\* by hand comes after the operation before it.
PlaceOfPhase == [auto_return |-> 1, before_execute |-> 3, on_result |-> 4, manual_return |-> 5]

Place(event) == IF event.name = "MOOD" THEN 2 ELSE PlaceOfPhase[event.phase]

\* The treasures that are due go home first, then the mood moves on, and only
\* then come the verdicts on the operation, before and after the backend: each
\* once, except for the returns (connection.py, _begin_operation and execute;
\* openspec dog-house: an automatic return has a smaller seq than the events of
\* the operation it makes way for).
OperationsInOrder ==
  \A i, j \in DOMAIN log :
    (i < j /\ operations[i] = operations[j]) =>
      \/ Place(log[i]) < Place(log[j])
      \/ /\ log[i].name = "RETURN" /\ log[j].name = "RETURN"
         /\ log[i].phase = log[j].phase

=============================================================================
