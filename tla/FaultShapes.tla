----------------------------- MODULE FaultShapes -----------------------------
(***************************************************************************)
(* What each fault does to the rows of a result (core/faults.py).  A row   *)
(* stands for its identity; row numbers are 1-based here and 0-based in    *)
(* the code.                                                               *)
(***************************************************************************)
EXTENDS Naturals, Sequences, FiniteSets

\* STASH: one row is left out.
WithoutRow(rows, i) == SubSeq(rows, 1, i - 1) \o SubSeq(rows, i + 1, Len(rows))

\* TAIL_CHASE: the last rows are cut off, one at least.
TailChase(rows, truncated) == SubSeq(rows, 1, Len(rows) - truncated)

\* PAGE_HOLE: the first rows are cut off, one at least.
PageHole(rows, removed) == SubSeq(rows, removed + 1, Len(rows))

\* ECHO: a row is delivered twice in a row.
Echo(rows, i) == SubSeq(rows, 1, i) \o SubSeq(rows, i, Len(rows))

\* SHUFFLE: any order but the one the backend gave.  The code compares the rows by
\* value, so that it also swaps the first two when rows of equal value were moved;
\* here rows are told apart, and that swap is an order like the others.
Shuffles(rows) ==
  LET orders == {p \in [DOMAIN rows -> DOMAIN rows] :
                   \A i, j \in DOMAIN rows : p[i] = p[j] => i = j}
  IN  {[i \in DOMAIN rows |-> rows[p[i]]] : p \in orders} \ {rows}

\* The rows a fault that leaves the house alone may deliver.  TANGLED_LEASH,
\* CHEW and WRONG_COUNT change labels, a value or the count, not the rows.
Shapes(fault, rows) ==
  CASE fault = "FALSE_EMPTY" -> {<<>>}
    [] fault = "TAIL_CHASE"  -> {TailChase(rows, k) : k \in DOMAIN rows}
    [] fault = "PAGE_HOLE"   -> {PageHole(rows, k) : k \in DOMAIN rows}
    [] fault = "ECHO"        -> {Echo(rows, k) : k \in DOMAIN rows}
    [] fault = "SHUFFLE"     -> Shuffles(rows)
    [] OTHER                 -> {rows}

\* The k-th of a set of positions.
Nth(S, k) == CHOOSE i \in S : Cardinality({j \in S : j <= i}) = k

\* Mutant: the indexes are taken for positions that start at 1.
HidePositions(rows, hidden) ==
  LET kept == {i \in DOMAIN rows : i \notin hidden}
  IN  [k \in 1 .. Cardinality(kept) |-> rows[Nth(kept, k)]]

\* Sticky treasures: the rows at their (0-based) indexes are left out.
HideRows(rows, hidden) ==
  LET kept == {i \in DOMAIN rows : (i - 1) \notin hidden}
  IN  [k \in 1 .. Cardinality(kept) |-> rows[Nth(kept, k)]]

=============================================================================
