---------------------------- MODULE SurfaceProofs ----------------------------
(***************************************************************************)
(* Proofs about reading results in batches and handing them out.           *)
(***************************************************************************)
EXTENDS CursorSurface, SequenceTheorems, TLAPS

-----------------------------------------------------------------------------
(* The loop over the batches *)

\* While the loop runs, what was read is within the cap; one row more is where
\* it stopped.
ReadInv ==
  /\ ReadTypeOK
  /\ rows <= total
  /\ status = "reading" /\ cap # NoCap => rows <= cap
  /\ NeverReadsPastCap
  /\ VerdictIsExact

LEMMA ReadStepKeepsReadInv ==
  ASSUME ReadInv, Answers \/ ReadRaises
  PROVE  ReadInv'
<1> USE MaterializeAssumption DEF ReadInv, ReadTypeOK, NeverReadsPastCap, VerdictIsExact
<1>1. CASE ReadAll
  BY <1>1 DEF ReadAll
<1>2. ASSUME NEW batch \in 1 .. ChunkSize, ReadBatch(batch) PROVE ReadInv'
  <2>1. /\ cap \in Nat /\ cap' = cap /\ total' = total /\ rows' = rows + batch
        /\ batch <= Amount /\ rows + batch <= total
        /\ status' = IF rows' > cap THEN "exceeded" ELSE "reading"
    BY <1>2 DEF ReadBatch
  <2>2. rows' <= cap + 1
    BY <2>1, <1>2 DEF Amount, ReadBatch
  <2> QED
    BY <2>1, <2>2
<1>3. CASE ReadEmpty
  <2>1. Amount # 0
    BY <1>3 DEF ReadEmpty, Amount
  <2> QED
    BY <1>3, <2>1 DEF ReadEmpty
<1>4. CASE ReadRaises
  BY <1>4 DEF ReadRaises
<1> QED
  BY <1>1, <1>2, <1>3, <1>4 DEF Answers

LEMMA NextKeepsReadInv == ReadInv /\ [Next]_vars => ReadInv'
<1> SUFFICES ASSUME ReadInv, [Next]_vars PROVE ReadInv'
  OBVIOUS
<1>1. CASE BackendAnswers \/ BackendRaises
  BY <1>1, ReadStepKeepsReadInv DEF BackendAnswers, BackendRaises
<1>2. CASE Returns \/ Raises
  BY <1>2 DEF Returns, Raises, ReadInv, ReadTypeOK, NeverReadsPastCap, VerdictIsExact
<1>3. ASSUME NEW c \in Cursors, NEW row_cap \in Caps, NEW n \in 0 .. MaxResult,
             Execute(c, row_cap, n)
      PROVE  ReadInv'
  BY <1>3, MaterializeAssumption, SurfaceAssumption
     DEF Execute, ReadBegin, ReadInv, ReadTypeOK, NeverReadsPastCap, VerdictIsExact
<1>4. CASE UNCHANGED readVars
  BY <1>4 DEF readVars, ReadInv, ReadTypeOK, NeverReadsPastCap, VerdictIsExact
<1> QED
  BY <1>1, <1>2, <1>3, <1>4
     DEF Next, Client, ExecuteMany, FetchOne, FetchMany, FetchAll, Hands, vars

LEMMA ReadInvariant == Spec => []ReadInv
<1>1. Init => ReadInv
  BY MaterializeAssumption
     DEF Init, ReadInit, ReadInv, ReadTypeOK, NeverReadsPastCap, VerdictIsExact
<1> QED
  BY <1>1, NextKeepsReadInv, PTL DEF Spec

\* A result is the whole answer within the cap, and only a longer one is given
\* up, for any chunk, cap and sizes of the batches (base.py, materialize).
THEOREM VerdictAlwaysExact == Spec => []VerdictIsExact
<1>1. ReadInv => VerdictIsExact
  BY DEF ReadInv
<1> QED
  BY <1>1, ReadInvariant, PTL

\* One row past the cap is all that is ever read beyond it (base.py).
THEOREM NeverEverReadsPastCap == Spec => []NeverReadsPastCap
<1>1. ReadInv => NeverReadsPastCap
  BY DEF ReadInv
<1> QED
  BY <1>1, ReadInvariant, PTL

\* The loop asks for a row at least, so an empty batch means that none is left.
THEOREM RowsAreAlwaysAskedFor ==
  Spec => [](status = "reading" /\ cap # NoCap => Amount \in 1 .. ChunkSize)
<1>1. ASSUME ReadInv, status = "reading", cap # NoCap PROVE Amount \in 1 .. ChunkSize
  <2>1. cap \in Nat /\ rows \in Nat /\ rows <= cap /\ ChunkSize \in Nat \ {0}
    BY <1>1, MaterializeAssumption DEF ReadInv, ReadTypeOK
  <2> QED
    BY <2>1 DEF Amount
<1> QED
  BY <1>1, ReadInvariant, PTL

\* Every answer of the backend ends the loop or leaves it fewer rows to read,
\* whatever the batches (base.py, materialize): what StatementsEnd rests on.
THEOREM EveryAnswerShortensTheRead ==
  Spec => [][Answers => \/ status' # "reading"
                        \/ /\ total' - rows' \in Nat
                           /\ total' - rows' < total - rows]_vars
<1>1. ASSUME ReadInv, Answers
      PROVE  \/ status' # "reading"
             \/ total' - rows' \in Nat /\ total' - rows' < total - rows
  <2>1. rows \in Nat /\ total \in Nat /\ rows <= total /\ ChunkSize \in Nat
    BY <1>1, MaterializeAssumption DEF ReadInv, ReadTypeOK
  <2>2. CASE ReadAll \/ ReadEmpty
    BY <2>2 DEF ReadAll, ReadEmpty
  <2>3. ASSUME NEW batch \in 1 .. ChunkSize, ReadBatch(batch)
        PROVE  total' - rows' \in Nat /\ total' - rows' < total - rows
    <3>1. rows' = rows + batch /\ rows + batch <= total /\ total' = total
      BY <2>3 DEF ReadBatch
    <3> QED
      BY <2>1, <3>1
  <2> QED
    BY <1>1, <2>2, <2>3 DEF Answers
<1>2. ReadInv /\ [Next]_vars =>
        [Answers => \/ status' # "reading"
                    \/ /\ total' - rows' \in Nat
                       /\ total' - rows' < total - rows]_vars
  BY <1>1
<1> QED
  BY <1>2, ReadInvariant, PTL DEF Spec

-----------------------------------------------------------------------------
(* Taking rows from the front of what is left *)

Left(s, from) == SubSeq(s, from + 1, Len(s))

LEMMA LeftOfSequence ==
  ASSUME NEW s \in Seq(Nat), NEW from \in 0 .. Len(s)
  PROVE  /\ Left(s, from) \in Seq(Nat)
         /\ Len(Left(s, from)) = Len(s) - from
         /\ \A i \in 1 .. Len(s) - from : Left(s, from)[i] = s[from + i]
<1>1. \A i \in from + 1 .. Len(s) : s[i] \in Nat
  OBVIOUS
<1> QED
  BY <1>1, SubSeqProperties DEF Left

\* A piece that starts where the rest starts is a front of it, and what is
\* left after it is the rest's own rest.
LEMMA FrontOfTheRest ==
  ASSUME NEW s \in Seq(Nat), NEW from \in 0 .. Len(s), NEW n \in 0 .. Len(s) - from
  PROVE  /\ SubSeq(s, from + 1, from + n) = SubSeq(Left(s, from), 1, n)
         /\ Left(s, from + n) = SubSeq(Left(s, from), n + 1, Len(Left(s, from)))
<1> DEFINE r == Left(s, from)
<1>1. r \in Seq(Nat) /\ Len(r) = Len(s) - from /\ \A i \in 1 .. Len(r) : r[i] = s[from + i]
  BY LeftOfSequence
<1> HIDE DEF r
<1>2. SubSeq(s, from + 1, from + n) = SubSeq(r, 1, n)
  <2>1. /\ SubSeq(s, from + 1, from + n) \in Seq(Nat)
        /\ Len(SubSeq(s, from + 1, from + n)) = n
        /\ \A i \in 1 .. n : SubSeq(s, from + 1, from + n)[i] = s[from + i]
    <3>1. \A i \in from + 1 .. from + n : s[i] \in Nat
      OBVIOUS
    <3> QED
      BY <3>1, SubSeqProperties
  <2>2. /\ SubSeq(r, 1, n) \in Seq(Nat)
        /\ Len(SubSeq(r, 1, n)) = n
        /\ \A i \in 1 .. n : SubSeq(r, 1, n)[i] = r[i]
    <3>1. \A i \in 1 .. n : r[i] \in Nat
      BY <1>1
    <3> QED
      BY <3>1, SubSeqProperties
  <2> QED
    BY <2>1, <2>2, <1>1, SeqEqual
<1>3. Left(s, from + n) = SubSeq(r, n + 1, Len(r))
  <2> DEFINE a == Left(s, from + n)
             b == SubSeq(r, n + 1, Len(r))
  <2>1. /\ a \in Seq(Nat)
        /\ Len(a) = Len(s) - (from + n)
        /\ \A i \in 1 .. Len(s) - (from + n) : a[i] = s[from + n + i]
    <3>1. from + n \in 0 .. Len(s)
      OBVIOUS
    <3> QED
      BY <3>1, LeftOfSequence
  <2>2. /\ b \in Seq(Nat)
        /\ Len(b) = Len(r) - n
        /\ \A i \in 1 .. Len(r) - n : b[i] = r[n + i]
    <3>1. \A i \in n + 1 .. Len(r) : r[i] \in Nat
      BY <1>1
    <3>2. n \in Nat /\ Len(r) \in Nat /\ n <= Len(r)
      BY <1>1
    <3>3. /\ b \in Seq(Nat)
          /\ Len(b) = IF n + 1 <= Len(r) THEN Len(r) - (n + 1) + 1 ELSE 0
          /\ \A i \in 1 .. Len(r) - (n + 1) + 1 : b[i] = r[n + 1 + i - 1]
      BY <3>1, <3>2, SubSeqProperties
    <3>4. Len(b) = Len(r) - n
      BY <3>2, <3>3
    <3>5. ASSUME NEW i \in 1 .. Len(r) - n PROVE b[i] = r[n + i]
      <4>1. i \in 1 .. Len(r) - (n + 1) + 1 /\ n + 1 + i - 1 = n + i
        BY <3>2
      <4> QED
        BY <3>3, <4>1
    <3> QED
      BY <3>3, <3>4, <3>5
  <2> HIDE DEF a, b
  <2>3. Len(a) = Len(b)
    BY <1>1, <2>1, <2>2
  <2>4. \A i \in 1 .. Len(a) : a[i] = b[i]
    <3> SUFFICES ASSUME NEW i \in 1 .. Len(a) PROVE a[i] = b[i]
      OBVIOUS
    <3>1. i \in 1 .. Len(s) - (from + n) /\ i \in 1 .. Len(r) - n
      BY <1>1, <2>1
    <3>2. n + i \in 1 .. Len(r) /\ from + (n + i) = from + n + i
      BY <1>1, <3>1
    <3>3. a[i] = s[from + n + i]
      BY <2>1, <3>1
    <3>4. b[i] = r[n + i]
      BY <2>2, <3>1
    <3>5. r[n + i] = s[from + (n + i)]
      BY <1>1, <3>2
    <3> QED
      BY <3>2, <3>3, <3>4, <3>5
  <2>5. a = b
    BY <2>1, <2>2, <2>3, <2>4, SeqEqual
  <2> QED
    BY <2>5 DEF a, b
<1> QED
  BY <1>2, <1>3 DEF r

\* A slice that starts at the offset is such a piece, wherever it is to end.
LEMMA SliceIsFront ==
  ASSUME NEW s \in Seq(Nat), NEW from \in 0 .. Len(s), NEW to \in Int
  PROVE  \E n \in 0 .. Len(s) - from : /\ Slice(s, from, to) = SubSeq(s, from + 1, from + n)
                                      /\ Len(Slice(s, from, to)) = n
<1> DEFINE e == IF to < 0 THEN Len(s) + to ELSE to
           last == IF e > Len(s) THEN Len(s) ELSE e
<1>1. last \in Int /\ last <= Len(s) /\ Slice(s, from, to) = SubSeq(s, from + 1, last)
  BY DEF Slice
<1> HIDE DEF last
<1>2. CASE last < from
  <2>1. SubSeq(s, from + 1, last) = <<>> /\ SubSeq(s, from + 1, from + 0) = <<>>
    BY <1>1, <1>2, SubSeqEmpty
  <2>2. 0 \in 0 .. Len(s) - from /\ Len(<<>>) = 0
    OBVIOUS
  <2> QED
    BY <2>1, <2>2, <1>1
<1>3. CASE last >= from
  <2>1. \A i \in from + 1 .. last : s[i] \in Nat
    BY <1>1
  <2>2. Len(SubSeq(s, from + 1, last)) = last - from
    BY <2>1, <1>1, <1>3, SubSeqProperties
  <2>3. last - from \in 0 .. Len(s) - from /\ from + (last - from) = last
    BY <1>1, <1>3
  <2> QED
    BY <1>1, <2>2, <2>3
<1>4. last < from \/ last >= from
  BY <1>1
<1> QED
  BY <1>2, <1>3, <1>4

LEMMA OneIsSubSeq ==
  ASSUME NEW s \in Seq(Nat), NEW k \in 1 .. Len(s)
  PROVE  SubSeq(s, k, k) = <<s[k]>>
<1> DEFINE a == SubSeq(s, k, k)
<1>1. a \in Seq(Nat) /\ Len(a) = 1 /\ a[1] = s[k]
  <2>1. \A i \in k .. k : s[i] \in Nat
    OBVIOUS
  <2> QED
    BY <2>1, SubSeqProperties
<1> HIDE DEF a
<1>2. a = <<s[k]>>
  BY <1>1
<1> QED
  BY <1>2 DEF a

-----------------------------------------------------------------------------
(* The cursors are ResultSets *)

Results == {Positions(n) : n \in 0 .. MaxResult}

\* Every cursor is inside its result, and a statement that runs has handed
\* nothing to the client.
CursorInv ==
  /\ ReadInv
  /\ total \in 0 .. MaxResult
  /\ result \in [Cursors -> Results]
  /\ offset \in [Cursors -> Nat]
  /\ \A c \in Cursors : offset[c] <= Len(result[c])
  /\ cursor \in Cursors
  /\ status # "idle" => handed = <<>>

\* What is left in a cursor that a step does not touch.
LEMMA OtherCursorsKeepTheirRest ==
  ASSUME NEW c \in Cursors,
         \A d \in Cursors : d # c => result'[d] = result[d] /\ offset'[d] = offset[d]
  PROVE  \A d \in Cursors : d # c => Remaining'[d] = Remaining[d]
<1> SUFFICES ASSUME NEW d \in Cursors, d # c PROVE Remaining'[d] = Remaining[d]
  OBVIOUS
<1>1. /\ Remaining[d] = SubSeq(result[d], offset[d] + 1, Len(result[d]))
      /\ Remaining'[d] = SubSeq(result'[d], offset'[d] + 1, Len(result'[d]))
  BY DEF Remaining
<1>2. result'[d] = result[d] /\ offset'[d] = offset[d]
  OBVIOUS
<1> QED
  BY <1>1, <1>2

LEMMA ResultsAreSequences ==
  /\ \A s \in Results : s \in Seq(Nat)
  /\ <<>> \in Results
<1>1. \A n \in Nat : Positions(n) \in Seq(Nat)
  BY DEF Positions
<1>2. Positions(0) = <<>>
  BY DEF Positions
<1> QED
  BY <1>1, <1>2, SurfaceAssumption DEF Results

\* A fetch that moves the offset by what it returns, and returns a piece that
\* starts there, is one the abstract cursors may make.
LEMMA FetchIsHand ==
  ASSUME CursorInv, NEW c \in Cursors, NEW n \in 0 .. Len(result[c]) - offset[c],
         NEW some, Hands(c, some), some = SubSeq(result[c], offset[c] + 1, offset[c] + n),
         NEW next, offset' = [offset EXCEPT ![c] = next], next = offset[c] + n
  PROVE  CursorInv' /\ R!Next
<1>1. /\ result[c] \in Seq(Nat) /\ offset[c] \in 0 .. Len(result[c])
      /\ UNCHANGED <<readVars, result, cursor>>
      /\ handed' = SubSeq(result[c], offset[c] + 1, offset[c] + n)
      /\ status = "idle"
  BY ResultsAreSequences DEF CursorInv, Hands, Call
<1>2. offset'[c] = offset[c] + n /\ \A d \in Cursors : d # c => offset'[d] = offset[d]
  BY DEF CursorInv
<1>3. Remaining[c] = Left(result[c], offset[c])
  BY DEF Remaining, Left
<1>4. Len(Remaining[c]) = Len(result[c]) - offset[c] /\ n \in 0 .. Len(Remaining[c])
  BY <1>1, <1>3, LeftOfSequence
<1>5. handed' = SubSeq(Remaining[c], 1, n)
  BY <1>1, <1>3, FrontOfTheRest
<1>6. Remaining' = [Remaining EXCEPT ![c] = SubSeq(@, n + 1, Len(@))]
  <2>1. Remaining'[c] = Left(result[c], offset[c] + n)
    BY <1>1, <1>2 DEF Remaining, Left
  <2>2. Remaining'[c] = SubSeq(Remaining[c], n + 1, Len(Remaining[c]))
    BY <2>1, <1>1, <1>3, FrontOfTheRest
  <2>3. \A d \in Cursors : d # c => Remaining'[d] = Remaining[d]
    BY <1>1, <1>2, OtherCursorsKeepTheirRest
  <2> QED
    BY <2>2, <2>3 DEF Remaining
<1>7. R!Next
  BY <1>4, <1>5, <1>6 DEF R!Next, R!Hand, Remaining
<1>8. CursorInv'
  <2>1. ReadInv'
    BY <1>1 DEF CursorInv, readVars, ReadInv, ReadTypeOK, NeverReadsPastCap, VerdictIsExact
  <2>2. offset' \in [Cursors -> Nat]
    BY <1>1 DEF CursorInv
  <2>3. \A d \in Cursors : offset'[d] <= Len(result'[d])
    BY <1>1, <1>2 DEF CursorInv
  <2> QED
    BY <2>1, <2>2, <2>3, <1>1 DEF CursorInv, readVars
<1> QED
  BY <1>7, <1>8

\* A statement that gives its cursor a result is one the abstract cursors may
\* answer.
LEMMA ResultIsAnswer ==
  ASSUME CursorInv, ReadInv', NEW c \in Cursors, NEW s \in Results,
         result' = [result EXCEPT ![c] = s], offset' = [offset EXCEPT ![c] = 0],
         handed' = <<>>, cursor' \in Cursors, total' = total
  PROVE  CursorInv' /\ R!Next
<1>1. result'[c] = s /\ offset'[c] = 0
  BY DEF CursorInv
<1>2. \A d \in Cursors : d # c => result'[d] = result[d] /\ offset'[d] = offset[d]
  BY DEF CursorInv
<1>3. CursorInv'
  <2>1. result' \in [Cursors -> Results] /\ offset' \in [Cursors -> Nat]
    BY DEF CursorInv
  <2>2. \A d \in Cursors : offset'[d] <= Len(result'[d])
    BY <1>1, <1>2, ResultsAreSequences DEF CursorInv
  <2> QED
    BY <2>1, <2>2 DEF CursorInv
<1>4. Remaining' = [Remaining EXCEPT ![c] = s]
  <2>1. SubSeq(s, 1, Len(s)) = s
    BY ResultsAreSequences, SubSeqFull
  <2>2. Remaining'[c] = s
    BY <2>1, <1>1 DEF Remaining
  <2>3. \A d \in Cursors : d # c => Remaining'[d] = Remaining[d]
    BY <1>2, OtherCursorsKeepTheirRest
  <2> QED
    BY <2>2, <2>3 DEF Remaining
<1>5. R!Next
  BY <1>4 DEF R!Next, R!Answer, Remaining, Results
<1> QED
  BY <1>3, <1>5

LEMMA NextIsResultSetsStep ==
  CursorInv /\ [Next]_vars => CursorInv' /\ [R!Next]_<<Remaining, handed>>
<1> SUFFICES ASSUME CursorInv, [Next]_vars
             PROVE  CursorInv' /\ [R!Next]_<<Remaining, handed>>
  OBVIOUS
<1>1. ReadInv'
  BY NextKeepsReadInv DEF CursorInv
<1>2. CASE UNCHANGED <<result, offset, cursor, handed, total>> /\ status' # "idle" /\ status # "idle"
  BY <1>1, <1>2 DEF CursorInv, Remaining
<1>3. CASE UNCHANGED <<result, offset, cursor, handed, total>> /\ status' = "idle"
  BY <1>1, <1>3 DEF CursorInv, Remaining
<1>4. CASE BackendAnswers
  <2>1. status = "reading" /\ status' # "idle" /\ total' = total
    BY <1>4 DEF BackendAnswers, Answers, ReadAll, ReadBatch, ReadEmpty
  <2> QED
    BY <2>1, <1>2, <1>4 DEF BackendAnswers
<1>5. CASE BackendRaises
  BY <1>2, <1>5 DEF BackendRaises, ReadRaises
<1>6. CASE Raises
  BY <1>3, <1>6 DEF Raises
<1>7. CASE Returns
  <2>1. status = "result" /\ rows = total /\ handed' = <<>> /\ cursor' = cursor /\ total' = total
    BY <1>7 DEF Returns, CursorInv, ReadInv, VerdictIsExact
  <2>2. Positions(rows) \in Results
    BY <2>1 DEF CursorInv, Results
  <2>3. cursor \in Cursors
    BY DEF CursorInv
  <2> QED
    BY <2>1, <2>2, <2>3, <1>1, <1>7, ResultIsAnswer DEF Returns
<1>8. ASSUME NEW c \in Cursors, NEW row_cap \in Caps, NEW n \in 0 .. MaxResult,
             Execute(c, row_cap, n)
      PROVE  CursorInv' /\ [R!Next]_<<Remaining, handed>>
  <2>1. /\ UNCHANGED <<result, offset>> /\ handed' = <<>> /\ cursor' = c
        /\ total' = n
    BY <1>8 DEF Execute, ReadBegin
  <2>2. CursorInv'
    BY <2>1, <1>1 DEF CursorInv
  <2>3. R!Next
    BY <2>1 DEF R!Next, R!NoAnswer, Remaining
  <2> QED
    BY <2>2, <2>3
<1>9. ASSUME NEW c \in Cursors, ExecuteMany(c)
      PROVE  CursorInv' /\ [R!Next]_<<Remaining, handed>>
  <2>1. handed' = <<>> /\ cursor' = c /\ total' = total /\ cursor' \in Cursors
    BY <1>9 DEF ExecuteMany, readVars
  <2>2. CASE /\ result' = [result EXCEPT ![c] = <<>>]
             /\ offset' = [offset EXCEPT ![c] = 0]
    BY <1>1, <2>1, <2>2, ResultIsAnswer, ResultsAreSequences
  <2>3. CASE UNCHANGED <<result, offset>>
    <3>1. CursorInv'
      BY <1>1, <2>1, <2>3 DEF CursorInv
    <3>2. R!Next
      BY <2>1, <2>3 DEF R!Next, R!NoAnswer, Remaining
    <3> QED
      BY <3>1, <3>2
  <2> QED
    BY <1>9, <2>2, <2>3 DEF ExecuteMany
<1>10. ASSUME NEW c \in Cursors,
              FetchOne(c) \/ (\E size \in Sizes : FetchMany(c, size)) \/ FetchAll(c)
       PROVE  CursorInv' /\ [R!Next]_<<Remaining, handed>>
  <2> DEFINE s == result[c]
             from == offset[c]
  <2>1. s \in Seq(Nat) /\ from \in 0 .. Len(s)
    BY ResultsAreSequences DEF CursorInv
  <2>2. CASE FetchOne(c)
    <3>1. CASE from >= Len(s)
      <4>1. /\ <<>> = SubSeq(s, from + 1, from + 0)
            /\ from = from + 0 /\ 0 \in 0 .. Len(s) - from
        BY <2>1, <3>1, SubSeqEmpty
      <4>2. Hands(c, <<>>) /\ offset' = [offset EXCEPT ![c] = from]
        BY <2>2, <3>1 DEF FetchOne, CursorInv
      <4> QED
        BY <4>1, <4>2, FetchIsHand
    <3>2. CASE from < Len(s)
      <4>1. SubSeq(s, from + 1, from + 1) = <<s[from + 1]>> /\ 1 \in 0 .. Len(s) - from
        <5>1. from + 1 \in 1 .. Len(s) /\ 1 \in 0 .. Len(s) - from
          BY <2>1, <3>2
        <5> HIDE DEF s, from
        <5>2. SubSeq(s, from + 1, from + 1) = <<s[from + 1]>>
          BY <2>1, <5>1, OneIsSubSeq
        <5> QED
          BY <5>1, <5>2
      <4>2. Hands(c, <<s[from + 1]>>) /\ offset' = [offset EXCEPT ![c] = from + 1]
        BY <2>1, <2>2, <3>2 DEF FetchOne
      <4> QED
        BY <4>1, <4>2, FetchIsHand
    <3> QED
      BY <2>1, <3>1, <3>2
  <2>3. ASSUME NEW size \in Sizes, FetchMany(c, size)
        PROVE  CursorInv' /\ [R!Next]_<<Remaining, handed>>
    <3> DEFINE some == Slice(s, from, from + size)
    <3>1. from + size \in Int
      BY <2>1, SurfaceAssumption
    <3>2. PICK n \in 0 .. Len(s) - from : some = SubSeq(s, from + 1, from + n) /\ Len(some) = n
      BY <2>1, <3>1, SliceIsFront
    <3>3. Hands(c, some) /\ offset' = [offset EXCEPT ![c] = @ + Len(some)]
      BY <2>3 DEF FetchMany
    <3> HIDE DEF some
    <3> QED
      BY <3>2, <3>3, FetchIsHand
  <2>4. CASE FetchAll(c)
    <3>1. from + (Len(s) - from) = Len(s) /\ Len(s) - from \in 0 .. Len(s) - from
      BY <2>1
    <3>2. /\ Hands(c, SubSeq(s, from + 1, from + (Len(s) - from)))
          /\ offset' = [offset EXCEPT ![c] = @ + (Len(s) - from)]
      BY <2>4, <3>1 DEF FetchAll
    <3> QED
      BY <3>1, <3>2, FetchIsHand
  <2> QED
    BY <1>10, <2>2, <2>3, <2>4
<1>11. CASE UNCHANGED vars
  BY <1>1, <1>11 DEF vars, readVars, CursorInv, Remaining
<1> QED
  BY <1>4, <1>5, <1>6, <1>7, <1>8, <1>9, <1>10, <1>11 DEF Next, Client

LEMMA CursorInvariant ==
  /\ Init => CursorInv /\ R!Init
  /\ Spec => []CursorInv
<1>1. Init => CursorInv /\ R!Init
  <2> SUFFICES ASSUME Init PROVE CursorInv /\ R!Init
    OBVIOUS
  <2>1. ReadInv
    BY MaterializeAssumption
       DEF Init, ReadInit, ReadInv, ReadTypeOK, NeverReadsPastCap, VerdictIsExact
  <2>2. CursorInv
    BY <2>1, ResultsAreSequences, SurfaceAssumption DEF Init, ReadInit, CursorInv
  <2>3. SubSeq(<<>>, 0 + 1, Len(<<>>)) = <<>>
    BY SubSeqEmpty
  <2>4. R!Init
    BY <2>3 DEF Init, R!Init, Remaining
  <2> QED
    BY <2>2, <2>4
<1> QED
  BY <1>1, NextIsResultSetsStep, PTL DEF Spec

\* Whatever statements run and however a client fetches, every cursor hands out
\* its own result from the front, once (connection.py, fetchone, fetchmany,
\* fetchall).
THEOREM CursorsKeepResultSets == Spec => KeepsResultSets
<1>1. CursorInv /\ [Next]_vars => [R!Next]_<<Remaining, handed>>
  BY NextIsResultSetsStep
<1> QED
  BY <1>1, CursorInvariant, PTL DEF Spec, KeepsResultSets, R!Spec

=============================================================================
