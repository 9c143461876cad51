------------------------------ MODULE ResultSets ------------------------------
(***************************************************************************)
(* What cursors promise a client: each of them hands out the rows of its   *)
(* own last result from the front, none twice and none left out, and a     *)
(* statement on one of them leaves the others alone.                       *)
(***************************************************************************)
EXTENDS Naturals, Sequences

CONSTANTS Cursors, Results

VARIABLES remaining,    \* what a cursor has still to hand out
          handed        \* the rows the client was handed last

Init == remaining = [c \in Cursors |-> <<>>] /\ handed = <<>>

Answer(c, result) ==
  /\ remaining' = [remaining EXCEPT ![c] = result]
  /\ handed' = <<>>

NoAnswer == UNCHANGED remaining /\ handed' = <<>>

Hand(c, n) ==
  /\ handed' = SubSeq(remaining[c], 1, n)
  /\ remaining' = [remaining EXCEPT ![c] = SubSeq(@, n + 1, Len(@))]

Next ==
  \/ \E c \in Cursors, result \in Results : Answer(c, result)
  \/ NoAnswer
  \/ \E c \in Cursors : \E n \in 0 .. Len(remaining[c]) : Hand(c, n)

Spec == Init /\ [][Next]_<<remaining, handed>>

=============================================================================
