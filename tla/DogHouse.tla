------------------------------ MODULE DogHouse ------------------------------
(***************************************************************************)
(* What the Dog House promises a client of a session, whatever happens     *)
(* inside: a row that is hidden stays hidden until it is brought back, a   *)
(* template has one hidden row at most, and a template whose row came back *)
(* is spared: a read of it has to pass that hides nothing before another   *)
(* row of it may be hidden.  Whether that read brings all of its rows, or  *)
(* another fault or an error gets in, is no part of the promise.           *)
(***************************************************************************)
EXTENDS Vocabulary, Naturals, FiniteSets

CONSTANTS HouseLimit,
          Rows,       \* row positions of a result
          MayForget   \* whether a session may end and be opened again

VARIABLES hidden,      \* the hidden rows, <<template, row>>
          owed          \* templates whose next read may hide nothing

Init == hidden = {} /\ owed = {}

Hide(template, row) ==
  /\ \A h \in hidden : h[1] # template
  /\ template \notin owed
  /\ Cardinality(hidden) < HouseLimit
  /\ hidden' = hidden \cup {<<template, row>>}
  /\ UNCHANGED owed

Bring(rows) ==
  /\ hidden' = hidden \ rows
  /\ owed' = owed \cup {h[1] : h \in rows}

\* A read of the template hides nothing.
Spare(template) ==
  /\ template \in owed
  /\ owed' = owed \ {template}
  /\ UNCHANGED hidden

\* A session that is opened again starts with an empty house.
Forget == MayForget /\ hidden' = {} /\ owed' = {}

Next ==
  \/ \E template \in Templates, row \in Rows : Hide(template, row)
  \/ \E rows \in SUBSET hidden : Bring(rows)
  \/ \E template \in Templates : Spare(template)
  \/ Forget

Spec == Init /\ [][Next]_<<hidden, owed>>

=============================================================================
