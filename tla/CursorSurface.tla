---------------------------- MODULE CursorSurface ----------------------------
(***************************************************************************)
(* The cursors a client fetches from: CursorProxy of SQLite, DuckDBProxy   *)
(* and its clones (proxy/connection.py).  Each keeps a result and an       *)
(* offset of its own; their statements run one after the other, on one     *)
(* engine.  The rows of a result are told by their positions, and what the *)
(* faults do to them is the subject of Session: here a result is delivered *)
(* as it was read, or the engine raises.                                   *)
(***************************************************************************)
EXTENDS Materialize, Integers, Sequences

CONSTANTS Cursors,
          Sizes,        \* sizes given to fetchmany
          MaxResult,    \* bounds the rows of a result
          MaxCalls      \* bounds the calls of the client

ASSUME SurfaceAssumption ==
  /\ Sizes \subseteq Int
  /\ MaxResult \in Nat
  /\ MaxCalls \in Nat

VARIABLES result,   \* _result.rows of a cursor
          offset,   \* _offset of a cursor
          cursor,   \* the cursor whose statement ran last
          handed,   \* the rows the last call returned
          calls

vars == <<readVars, result, offset, cursor, handed, calls>>

TypeOK ==
  /\ ReadTypeOK
  /\ result \in [Cursors -> Seq(Nat)]
  /\ offset \in [Cursors -> Nat]
  /\ \A c \in Cursors : offset[c] <= Len(result[c])
  /\ cursor \in Cursors
  /\ handed \in Seq(Nat)
  /\ calls \in Nat

Init ==
  /\ ReadInit
  /\ result = [c \in Cursors |-> <<>>]
  /\ offset = [c \in Cursors |-> 0]
  /\ cursor \in Cursors
  /\ handed = <<>>
  /\ calls = 0

Call == status = "idle" /\ calls < MaxCalls /\ calls' = calls + 1

-----------------------------------------------------------------------------
(* Statements *)

Positions(n) == [k \in 1 .. n |-> k]

\* execute(): the backend has n rows for the statement, which is capped when
\* it is a read.
Execute(c, row_cap, n) ==
  /\ Call
  /\ ReadBegin(row_cap, n)
  /\ cursor' = c
  /\ handed' = <<>>
  /\ UNCHANGED <<result, offset>>

\* Mutant: the offset into the former result stays.
ReturnsKeepingOffset ==
  /\ status = "result"
  /\ result' = [result EXCEPT ![cursor] = Positions(rows)]
  /\ status' = "idle"
  /\ UNCHANGED <<cap, total, rows, offset, cursor, handed, calls>>

\* The engine returns a result.
Returns ==
  /\ status = "result"
  /\ result' = [result EXCEPT ![cursor] = Positions(rows)]
  /\ offset' = [offset EXCEPT ![cursor] = 0]
  /\ status' = "idle"
  /\ UNCHANGED <<cap, total, rows, cursor, handed, calls>>

\* The engine raises: the row cap, the backend, or a fault.
Raises ==
  /\ status \in {"result", "exceeded", "raised"}
  /\ status' = "idle"
  /\ UNCHANGED <<cap, total, rows, result, offset, cursor, handed, calls>>

\* executemany(): a result without rows, or the engine raises and the former
\* result stays.
ExecuteMany(c) ==
  /\ Call
  /\ \/ /\ result' = [result EXCEPT ![c] = <<>>]
        /\ offset' = [offset EXCEPT ![c] = 0]
     \/ UNCHANGED <<result, offset>>
  /\ cursor' = c
  /\ handed' = <<>>
  /\ UNCHANGED readVars

-----------------------------------------------------------------------------
(* Fetching *)

\* s[from:to] of a list: an end below 0 counts from the back.
Slice(s, from, to) ==
  LET end == IF to < 0 THEN Len(s) + to ELSE to
  IN  SubSeq(s, from + 1, IF end > Len(s) THEN Len(s) ELSE end)

Hands(c, some) ==
  /\ Call
  /\ handed' = some
  /\ UNCHANGED <<readVars, result, cursor>>

\* fetchone() and __next__(), of a cursor that has a row left or none
FetchOne(c) ==
  IF offset[c] >= Len(result[c])
    THEN Hands(c, <<>>) /\ UNCHANGED offset
    ELSE /\ Hands(c, <<result[c][offset[c] + 1]>>)
         /\ offset' = [offset EXCEPT ![c] = @ + 1]

FetchMany(c, size) ==
  LET some == Slice(result[c], offset[c], offset[c] + size)
  IN  Hands(c, some) /\ offset' = [offset EXCEPT ![c] = @ + Len(some)]

FetchAll(c) ==
  /\ Hands(c, SubSeq(result[c], offset[c] + 1, Len(result[c])))
  /\ offset' = [offset EXCEPT ![c] = Len(result[c])]

-----------------------------------------------------------------------------
BackendAnswers == Answers /\ UNCHANGED <<result, offset, cursor, handed, calls>>
BackendRaises == ReadRaises /\ UNCHANGED <<result, offset, cursor, handed, calls>>

Client ==
  \E c \in Cursors :
    \/ \E row_cap \in Caps, n \in 0 .. MaxResult : Execute(c, row_cap, n)
    \/ ExecuteMany(c)
    \/ FetchOne(c)
    \/ \E size \in Sizes : FetchMany(c, size)
    \/ FetchAll(c)

Next == BackendAnswers \/ BackendRaises \/ Returns \/ Raises \/ Client

Spec == Init /\ [][Next]_vars

\* The backend answers every fetch, or raises; the engine goes on from there.
FairSpec == Spec /\ WF_vars(BackendAnswers) /\ WF_vars(Returns \/ Raises)

-----------------------------------------------------------------------------
Remaining == [c \in Cursors |-> SubSeq(result[c], offset[c] + 1, Len(result[c]))]

R == INSTANCE ResultSets WITH
  Results <- {Positions(n) : n \in 0 .. MaxResult},
  remaining <- Remaining

\* Cursors hand out the rows of their own results from the front, whatever
\* mix of fetches and sizes is used, negative ones included, and whichever
\* other cursors run statements in between (connection.py, fetchone,
\* fetchmany, fetchall; dbapi-proxy: one position for all of them, results
\* that are independent).
KeepsResultSets == R!Spec

\* A statement comes to an end: the loop over the batches of the backend
\* stops (materialize).
StatementsEnd == status # "idle" ~> status = "idle"

\* A cursor whose statement the backend refused has nothing to fetch, as
\* sqlite3.Cursor has not (dbapi-proxy: the fetches of a cursor SHALL be those of
\* sqlite3.Cursor).
FailedExecuteLeavesNothing == 
  [][Raises /\ status = "raised" => Remaining'[cursor] = <<>>]_vars

=============================================================================
