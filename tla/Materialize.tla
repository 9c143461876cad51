----------------------------- MODULE Materialize -----------------------------
(***************************************************************************)
(* The loop that reads the result of a statement from the backend in       *)
(* batches, and gives up past the row cap (adapters/base.py, materialize). *)
(* The backend is external: a batch has what was asked for or less, and    *)
(* none only when no rows are left.                                        *)
(***************************************************************************)
EXTENDS Naturals

CONSTANTS ChunkSize,    \* _FETCH_CHUNK_SIZE
          Caps,         \* row caps
          NoCap

ASSUME MaterializeAssumption ==
  /\ ChunkSize \in Nat \ {0}
  /\ Caps \subseteq Nat \cup {NoCap}
  /\ NoCap \notin Nat

VARIABLES status,   \* of the statement: reading, or how the reading ended
          cap,      \* row_cap
          total,    \* the rows the backend has for the statement
          rows      \* how many of them were read

readVars == <<status, cap, total, rows>>

ReadTypeOK ==
  /\ status \in {"idle", "reading", "result", "exceeded", "raised"}
  /\ cap \in Caps \cup {NoCap}
  /\ total \in Nat
  /\ rows \in Nat

ReadInit == status = "idle" /\ cap = NoCap /\ total = 0 /\ rows = 0

\* Mutant: asks for the cap, not for one row more.
AmountToCap ==
  IF cap - rows < ChunkSize THEN cap - rows ELSE ChunkSize

\* Mutant: always asks for a whole chunk.
AmountOfChunk == ChunkSize

Amount ==
  IF cap + 1 - rows < ChunkSize THEN cap + 1 - rows ELSE ChunkSize

ReadBegin(row_cap, n) ==
  /\ status' = "reading"
  /\ cap' = row_cap
  /\ total' = n
  /\ rows' = 0

\* fetchall()
ReadAll ==
  /\ status = "reading" /\ cap = NoCap
  /\ rows' = total
  /\ status' = "result"
  /\ UNCHANGED <<cap, total>>

\* fetchmany() with rows: one row past the cap is enough to give up.
ReadBatch(batch) ==
  /\ status = "reading" /\ cap # NoCap
  /\ batch \in 1 .. Amount /\ rows + batch <= total
  /\ rows' = rows + batch
  /\ status' = IF rows' > cap THEN "exceeded" ELSE "reading"
  /\ UNCHANGED <<cap, total>>

\* Mutant: goes on after an empty batch.
ReadEmptyAgain ==
  /\ status = "reading" /\ cap # NoCap
  /\ rows = total \/ Amount = 0
  /\ UNCHANGED readVars

\* fetchmany() without rows, because none are left or none were asked for.
ReadEmpty ==
  /\ status = "reading" /\ cap # NoCap
  /\ rows = total \/ Amount = 0
  /\ status' = "result"
  /\ UNCHANGED <<cap, total, rows>>

\* The backend raises while the rows are read.
ReadRaises ==
  /\ status = "reading"
  /\ status' = "raised"
  /\ UNCHANGED <<cap, total, rows>>

Answers ==
  \/ ReadAll
  \/ \E batch \in 1 .. ChunkSize : ReadBatch(batch)
  \/ ReadEmpty

-----------------------------------------------------------------------------
\* A result is the whole answer of the backend and within the cap, and a read
\* is given up only when there is more, also where the cap is a multiple of
\* the chunk or the backend answers in small batches (materialize).
VerdictIsExact ==
  /\ status = "result" => rows = total /\ (cap # NoCap => total <= cap)
  /\ status = "exceeded" => cap # NoCap /\ total > cap

\* No more than one row past the cap is ever read: a read that is given up
\* costs what the cap allows, however many rows there are (materialize; spec
\* of backend-adapters: row_cap + 1).
NeverReadsPastCap == cap # NoCap => rows <= cap + 1

=============================================================================
