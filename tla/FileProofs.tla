------------------------------ MODULE FileProofs ------------------------------
(***************************************************************************)
(* Proofs about the file of events: numbers grow, torn writes cost one     *)
(* event each, and readers see a Journal.                                  *)
(***************************************************************************)
EXTENDS EventLogFile, FiniteSetTheorems, TLAPS

\* What the open log holds, and where the events that were recorded are.
FileInv ==
  /\ TypeOK
  /\ ReadableNumbersGrow
  /\ \A i \in OfSession(session) : file[i][1].seq <= seq
  /\ IsFiniteSet(returned)
  /\ \A e \in returned : e.line \in 1..Len(file) /\ (ended \/ e.line < Len(file))
  /\ TornWritesCostOneEvent

Lines == Seq(Piece) \ {<<>>}

\* A line that can be read is one piece.
LEMMA IntactLinesAreEvents ==
  ASSUME TypeOK
  PROVE  \A i \in Intact : /\ i \in Nat /\ i <= Len(file) /\ Len(file) \in Nat
                           /\ file[i][1] \in Piece
                           /\ file[i][1].seq \in Nat /\ file[i][1].session \in Sessions
<1>1. \A i \in Intact : /\ i \in Nat /\ i <= Len(file) /\ Len(file) \in Nat
                        /\ file[i][1] \in Piece
  BY DEF Intact, TypeOK, Readable
<1> QED
  BY <1>1 DEF Piece

-----------------------------------------------------------------------------
(* What a write does to the lines *)

\* On an ended line a piece starts the next line.
LEMMA PutOnEndedLine ==
  ASSUME file \in Seq(Lines), ended, NEW p \in Piece, Put(p)
  PROVE  /\ file' \in Seq(Lines)
         /\ Len(file') = Len(file) + 1
         /\ file'[Len(file) + 1] = <<p>>
         /\ \A i \in DOMAIN file : file'[i] = file[i]
         /\ Intact' = IF p.whole THEN Intact \cup {Len(file) + 1} ELSE Intact
<1>1. file' = Append(file, <<p>>)
  BY DEF Put
<1>2. <<p>> \in Lines
  BY DEF Lines
<1>3. /\ file' \in Seq(Lines)
      /\ Len(file') = Len(file) + 1
      /\ file'[Len(file) + 1] = <<p>>
      /\ \A i \in DOMAIN file : file'[i] = file[i]
  BY <1>1, <1>2
<1>4. Readable(<<p>>) <=> p.whole
  BY DEF Readable
<1>5. /\ DOMAIN file = 1..Len(file)
      /\ DOMAIN file' = 1..(Len(file) + 1)
      /\ Len(file) \in Nat
  BY <1>3
<1>6. DOMAIN file' = DOMAIN file \cup {Len(file) + 1}
  BY <1>5
<1> QED
  BY <1>3, <1>4, <1>5, <1>6 DEF Intact

\* On a line that is not ended a piece spoils that line, whatever it held.
LEMMA PutOnOpenLine ==
  ASSUME file \in Seq(Lines), file # <<>>, ~ended, NEW p \in Piece, Put(p)
  PROVE  /\ file' \in Seq(Lines)
         /\ Len(file') = Len(file)
         /\ \A i \in DOMAIN file : i # Len(file) => file'[i] = file[i]
         /\ Intact' = Intact \ {Len(file)}
<1> DEFINE last == file[Len(file)]
<1>1. file' = [file EXCEPT ![Len(file)] = Append(last, p)]
  BY DEF Put
<1>2. Len(file) \in DOMAIN file
  OBVIOUS
<1>3. last \in Seq(Piece) /\ last # <<>>
  BY <1>2 DEF Lines
<1>4. Append(last, p) \in Lines /\ Len(Append(last, p)) > 1
  BY <1>3 DEF Lines
<1>5. DOMAIN file' = DOMAIN file /\ file'[Len(file)] = Append(last, p)
  BY <1>1, <1>2
<1>6. \A i \in DOMAIN file : i # Len(file) => file'[i] = file[i]
  BY <1>1
<1>7. file' \in Seq(Lines) /\ Len(file') = Len(file)
  BY <1>1, <1>2, <1>4
<1>8. ~Readable(file'[Len(file)])
  BY <1>4, <1>5 DEF Readable
<1> QED
  BY <1>2, <1>5, <1>6, <1>7, <1>8 DEF Intact

\* Either way, the lines that can be read were there and are the same ones,
\* save a whole piece that has a line of its own.
LEMMA PutKeepsLines ==
  ASSUME TypeOK, NEW p \in Piece, Put(p)
  PROVE  /\ file' \in Seq(Lines)
         /\ Len(file') = (IF ended THEN Len(file) + 1 ELSE Len(file))
         /\ \A i \in Intact' :
              \/ i \in Intact /\ file'[i] = file[i]
              \/ ended /\ p.whole /\ i = Len(file) + 1 /\ file'[i] = <<p>>
         /\ \A i \in Intact : i \in Intact' \/ (~ended /\ i = Len(file))
         /\ ended /\ p.whole => Len(file) + 1 \in Intact'
<1> USE DEF TypeOK, Lines
<1>1. CASE ended
  BY <1>1, PutOnEndedLine DEF Intact
<1>2. CASE ~ended
  BY <1>2, PutOnOpenLine DEF Intact
<1> QED
  BY <1>1, <1>2 DEF TypeOK

-----------------------------------------------------------------------------
(* The parts of the invariant, append by append *)

\* An append that writes a piece under the next number.
Writes(p) == p \in Piece /\ p.session = session /\ p.seq = seq + 1 /\ Put(p)

LEMMA WriteKeepsGrowth ==
  ASSUME FileInv, session # Closed, NEW p, Writes(p), seq' = seq + 1, session' \in {session, Closed}
  PROVE  /\ ReadableNumbersGrow'
         /\ \A i \in OfSession(session)' : file'[i][1].seq <= seq'
<1>1. /\ \A i \in Intact' :
           \/ i \in Intact /\ file'[i] = file[i]
           \/ ended /\ p.whole /\ i = Len(file) + 1 /\ file'[i] = <<p>>
      /\ seq \in Nat
  BY PutKeepsLines DEF Writes, FileInv, TypeOK
<1>2. \A i \in Intact : /\ i \in Nat /\ i <= Len(file) /\ Len(file) \in Nat
                        /\ file[i][1] \in Piece
  BY IntactLinesAreEvents DEF FileInv
<1>3. \A i \in Intact : file[i][1].session = session => file[i][1].seq <= seq
  BY DEF FileInv, OfSession
<1>4. \A i \in Intact' : file'[i][1].session = session =>
        /\ file'[i][1].seq <= seq + 1
        /\ i \in Intact => file'[i][1].seq <= seq
  <2> SUFFICES ASSUME NEW i \in Intact', file'[i][1].session = session
               PROVE  /\ file'[i][1].seq <= seq + 1
                      /\ i \in Intact => file'[i][1].seq <= seq
    OBVIOUS
  <2>1. CASE i \in Intact /\ file'[i] = file[i]
    BY <2>1, <1>1, <1>2, <1>3 DEF Piece
  <2>2. CASE i = Len(file) + 1 /\ file'[i] = <<p>>
    BY <2>2, <1>1, <1>2 DEF Writes
  <2> QED
    BY <1>1, <2>1, <2>2
<1>5. ReadableNumbersGrow'
  <2> SUFFICES ASSUME NEW i \in Intact', NEW j \in Intact', i < j,
                      file'[i][1].session = file'[j][1].session
               PROVE  file'[i][1].seq < file'[j][1].seq
    BY DEF ReadableNumbersGrow
  <2>1. CASE j \in Intact /\ file'[j] = file[j]
    <3>1. i \in Intact /\ file'[i] = file[i]
      BY <2>1, <1>1, <1>2
    <3> QED
      BY <2>1, <3>1 DEF FileInv, ReadableNumbersGrow
  <2>2. CASE j = Len(file) + 1 /\ file'[j] = <<p>>
    <3>1. i \in Intact /\ file'[i] = file[i]
      BY <2>2, <1>1
    <3>2. file'[j][1].session = session /\ file'[j][1].seq = seq + 1
      BY <2>2 DEF Writes
    <3>3. file[i][1].seq <= seq /\ file[i][1].seq \in Nat
      BY <3>1, <3>2, <1>2, <1>3 DEF Piece
    <3> QED
      BY <3>1, <3>2, <3>3, <1>1
  <2> QED
    BY <1>1, <2>1, <2>2
<1>6. session \in Sessions /\ Closed \notin Sessions
  BY FileAssumption DEF FileInv, TypeOK
<1>7. \A i \in Intact' : file'[i][1].session \in Sessions
  BY <1>1, <1>2 DEF Piece, Writes
<1> QED
  BY <1>4, <1>5, <1>6, <1>7 DEF OfSession

\* An event that was recorded is found where it was written.
LEMMA WriteKeepsReturned ==
  ASSUME FileInv, NEW p, Writes(p)
  PROVE  /\ \A e \in returned : e.line \in 1..Len(file') /\ e.line < Line
         /\ {e \in returned : e.line \notin Intact'} = Lost
         /\ Line \in 1..Len(file')
         /\ Len(file') = Line
<1>1. /\ Len(file') = (IF ended THEN Len(file) + 1 ELSE Len(file))
      /\ \A i \in Intact' : i \in Intact \/ i = Line
      /\ \A i \in Intact : i \in Intact' \/ (~ended /\ i = Len(file))
      /\ Len(file) \in Nat
      /\ ~ended => Len(file) > 0
  BY PutKeepsLines DEF Writes, FileInv, TypeOK, Line
<1>2. \A e \in returned : e.line \in 1..Len(file) /\ e.line < Line /\ (ended \/ e.line < Len(file))
  BY <1>1 DEF FileInv, Line
<1> QED
  BY <1>1, <1>2 DEF Line, Lost

LEMMA LostIsFinite ==
  ASSUME FileInv
  PROVE  IsFiniteSet(Lost) /\ Cardinality(Lost) \in Nat
BY FS_Subset, FS_CardinalityType DEF FileInv, Lost

-----------------------------------------------------------------------------
(* The invariant *)

LEMMA InitFileInv == Init => FileInv
<1> SUFFICES ASSUME Init PROVE FileInv
  OBVIOUS
<1>1. file = <<>> /\ Intact = {} /\ Lost = {}
  BY DEF Init, Intact, Lost
<1> QED
  BY <1>1, FS_EmptySet DEF Init, FileInv, TypeOK, ReadableNumbersGrow, OfSession,
     TornWritesCostOneEvent

LEMMA OpenKeepsFileInv ==
  ASSUME FileInv, NEW s \in Sessions, Open(s)
  PROVE  FileInv'
<1>1. UNCHANGED <<file, ended, appends, returned, torn>> /\ session' = s /\ opens' = opens + 1
  BY DEF Open
<1>2. Intact' = Intact /\ Lost' = Lost
  BY <1>1 DEF Intact, Lost
<1>3. \A i \in OfSession(s) : file[i][1].seq \in Nat
  BY IntactLinesAreEvents DEF OfSession, FileInv
<1>4. seq' \in Nat /\ \A i \in OfSession(s) : file[i][1].seq <= seq'
  BY <1>3 DEF Open
<1>5. TypeOK'
  BY <1>1, <1>4 DEF FileInv, TypeOK
<1>6. ReadableNumbersGrow'
  BY <1>1, <1>2 DEF FileInv, ReadableNumbersGrow
<1>7. \A i \in OfSession(session)' : file'[i][1].seq <= seq'
  BY <1>1, <1>2, <1>4 DEF OfSession
<1> QED
  BY <1>1, <1>2, <1>5, <1>6, <1>7 DEF FileInv, TornWritesCostOneEvent

LEMMA AppendReturnsKeepsFileInv ==
  ASSUME FileInv, AppendReturns
  PROVE  FileInv'
<1> DEFINE p == [session |-> session, seq |-> seq + 1, whole |-> TRUE]
           e == [line |-> Line, session |-> session, seq |-> seq + 1]
<1>1. /\ session # Closed /\ seq' = seq + 1 /\ appends' = appends + 1
      /\ ended' = TRUE /\ returned' = returned \cup {e}
      /\ UNCHANGED <<session, opens, torn>> /\ Put(p)
  BY DEF AppendReturns, Count
<1>2. session \in Sessions /\ seq \in Nat /\ Line \in Nat /\ torn \in Nat
  BY <1>1 DEF FileInv, TypeOK, Line
<1>3. Writes(p)
  BY <1>1, <1>2 DEF Writes, Piece
<1>4. /\ file' \in Seq(Lines)
      /\ ended => Line \in Intact'
  BY <1>3, PutKeepsLines DEF Writes, FileInv, Line
<1>5. TypeOK'
  BY <1>1, <1>2, <1>4 DEF FileInv, TypeOK, Lines
<1>6. ReadableNumbersGrow' /\ \A i \in OfSession(session)' : file'[i][1].seq <= seq'
  BY <1>1, <1>3, WriteKeepsGrowth
<1>7. IsFiniteSet(returned') /\ \A f \in returned' : f.line \in 1..Len(file')
  <2>1. IsFiniteSet(returned')
    BY <1>1, FS_AddElement DEF FileInv
  <2>2. Line \in 1..Len(file') /\ \A f \in returned : f.line \in 1..Len(file')
    BY <1>3, WriteKeepsReturned
  <2> QED
    BY <1>1, <2>1, <2>2
<1>8. TornWritesCostOneEvent'
  <2>1. Lost' = {f \in returned : f.line \notin Intact'} \cup {f \in {e} : f.line \notin Intact'}
    BY <1>1 DEF Lost
  <2>2. Lost' = Lost \cup {f \in {e} : f.line \notin Intact'}
    BY <2>1, <1>3, WriteKeepsReturned
  <2>3. CASE ended
    <3>1. Lost' = Lost
      BY <2>2, <2>3, <1>4
    <3> QED
      BY <3>1, <2>3, <1>1 DEF TornWritesCostOneEvent, FileInv
  <2>4. CASE ~ended
    <3>1. Lost' = Lost \/ Lost' = Lost \cup {e}
      BY <2>2
    <3>2. Cardinality(Lost') <= Cardinality(Lost) + 1 /\ Cardinality(Lost') \in Nat
      <4>1. Cardinality(Lost \cup {e}) \in {Cardinality(Lost), Cardinality(Lost) + 1}
        BY LostIsFinite, FS_AddElement
      <4> HIDE DEF e
      <4> QED
        BY <3>1, <4>1, LostIsFinite
    <3>3. Cardinality(Lost) + 1 <= torn
      BY <2>4 DEF FileInv, TornWritesCostOneEvent
    <3> QED
      BY <3>2, <3>3, <1>1, <1>2, LostIsFinite DEF TornWritesCostOneEvent
  <2> QED
    BY <2>3, <2>4
<1> QED
  BY <1>1, <1>5, <1>6, <1>7, <1>8 DEF FileInv

LEMMA AppendStopsKeepsFileInv ==
  ASSUME FileInv, NEW next \in {session, Closed}, AppendStops(next)
  PROVE  FileInv'
<1>1. /\ session # Closed /\ seq' = seq + 1 /\ appends' = appends + 1
      /\ session' = next /\ torn' = torn + 1 /\ UNCHANGED <<opens, returned>>
  BY DEF AppendStops, Count
<1>2. session \in Sessions /\ seq \in Nat /\ torn \in Nat
  BY <1>1 DEF FileInv, TypeOK
<1>3. CASE UNCHANGED <<file, ended>>
  <2>1. Intact' = Intact /\ Lost' = Lost
    BY <1>1, <1>3 DEF Intact, Lost
  <2>2. TypeOK'
    BY <1>1, <1>2, <1>3 DEF FileInv, TypeOK
  <2>3. ReadableNumbersGrow'
    BY <2>1, <1>3 DEF FileInv, ReadableNumbersGrow
  <2>4. \A i \in OfSession(session)' : file'[i][1].seq <= seq'
    <3>1. \A i \in Intact : file[i][1].session # Closed /\ file[i][1].seq \in Nat
      BY FileAssumption, IntactLinesAreEvents DEF FileInv
    <3> QED
      BY <3>1, <2>1, <1>1, <1>2, <1>3 DEF FileInv, OfSession
  <2>5. TornWritesCostOneEvent'
    BY <2>1, <1>1, <1>2, <1>3, LostIsFinite DEF FileInv, TornWritesCostOneEvent
  <2> QED
    BY <2>2, <2>3, <2>4, <2>5, <1>1, <1>3 DEF FileInv
<1>4. ASSUME NEW whole \in BOOLEAN, ended' = FALSE,
             Put([session |-> session, seq |-> seq + 1, whole |-> whole])
      PROVE  FileInv'
  <2> DEFINE p == [session |-> session, seq |-> seq + 1, whole |-> whole]
  <2>1. Writes(p)
    BY <1>2, <1>4 DEF Writes, Piece
  <2>2. file' \in Seq(Lines) /\ Len(file') = Line /\ Line \in Nat /\ Line > 0
    BY <2>1, PutKeepsLines, WriteKeepsReturned DEF Writes, FileInv, TypeOK, Line
  <2>3. TypeOK'
    <3>1. file' # <<>>
      BY <2>2
    <3>2. session' \in Sessions \cup {Closed} /\ ended' \in BOOLEAN
      BY <1>1, <1>2, <1>4
    <3>3. /\ seq' \in Nat /\ opens' \in Nat /\ appends' \in Nat /\ torn' \in Nat
          /\ returned' \subseteq [line: Nat, session: Sessions, seq: Nat]
      BY <1>1 DEF FileInv, TypeOK
    <3> QED
      BY <2>2, <3>1, <3>2, <3>3 DEF TypeOK, Lines
  <2>4. ReadableNumbersGrow' /\ \A i \in OfSession(session)' : file'[i][1].seq <= seq'
    BY <1>1, <2>1, WriteKeepsGrowth
  <2>5. /\ IsFiniteSet(returned')
        /\ \A e \in returned' : e.line \in 1..Len(file') /\ e.line < Len(file')
        /\ Lost' = Lost
    BY <1>1, <2>1, WriteKeepsReturned DEF FileInv, Lost
  <2>6. TornWritesCostOneEvent'
    BY <2>5, <1>1, <1>2, <1>4, LostIsFinite DEF FileInv, TornWritesCostOneEvent
  <2> QED
    BY <2>3, <2>4, <2>5, <2>6 DEF FileInv
<1> QED
  BY <1>1, <1>3, <1>4 DEF AppendStops

LEMMA NextKeepsFileInv == FileInv /\ [Next]_vars => FileInv'
<1> SUFFICES ASSUME FileInv, [Next]_vars PROVE FileInv'
  OBVIOUS
<1>1. ASSUME NEW s \in Sessions, Open(s) PROVE FileInv'
  BY <1>1, OpenKeepsFileInv
<1>2. CASE AppendReturns
  BY <1>2, AppendReturnsKeepsFileInv
<1>3. ASSUME NEW next \in {session, Closed}, AppendStops(next) PROVE FileInv'
  BY <1>3, AppendStopsKeepsFileInv
<1>4. CASE UNCHANGED vars
  BY <1>4 DEF vars, FileInv, TypeOK, ReadableNumbersGrow, OfSession, Intact, Lost,
     TornWritesCostOneEvent
<1> QED
  BY <1>1, <1>2, <1>3, <1>4 DEF Next

LEMMA FileInvariant == Spec => []FileInv
<1> QED
  BY InitFileInv, NextKeepsFileInv, PTL DEF Spec

\* Numbers grow for the readers of the file, for any sessions, torn writes and
\* new openings (event_log.py, __init__ and append).
THEOREM ReadableNumbersAlwaysGrow == Spec => []ReadableNumbersGrow
<1>1. FileInv => ReadableNumbersGrow
  BY DEF FileInv
<1> QED
  BY <1>1, FileInvariant, PTL

\* No mix of torn writes, dying processes and appends loses more events that
\* were recorded than writes were torn (event_log.py, append).
THEOREM TornWritesAlwaysCostOneEvent == Spec => []TornWritesCostOneEvent
<1>1. FileInv => TornWritesCostOneEvent
  BY DEF FileInv
<1> QED
  BY <1>1, FileInvariant, PTL

-----------------------------------------------------------------------------
(* The file is a Journal *)

Events == {EventAt(i) : i \in Intact}

LEMMA WriteIsJournalStep ==
  ASSUME FileInv, NEW p, Writes(p)
  PROVE  J!Next \/ UNCHANGED Events
<1>1. /\ Len(file') = (IF ended THEN Len(file) + 1 ELSE Len(file))
      /\ \A i \in Intact' :
           \/ i \in Intact /\ file'[i] = file[i]
           \/ ended /\ p.whole /\ i = Len(file) + 1 /\ file'[i] = <<p>>
      /\ \A i \in Intact : i \in Intact' \/ (~ended /\ i = Len(file))
      /\ ended /\ p.whole => Len(file) + 1 \in Intact'
  BY PutKeepsLines DEF Writes, FileInv
<1>2. \A i \in Intact : i \in Nat /\ i <= Len(file) /\ Len(file) \in Nat
  BY IntactLinesAreEvents DEF FileInv
<1>3. Len(file) \in Nat
  BY DEF FileInv, TypeOK
<1>4. CASE ended
  <2>1. \A i \in Intact : EventAt(i)' = EventAt(i) /\ i \in Intact'
    <3> SUFFICES ASSUME NEW i \in Intact PROVE EventAt(i)' = EventAt(i) /\ i \in Intact'
      OBVIOUS
    <3>1. i \in Intact' /\ file'[i] = file[i]
      BY <1>1, <1>2, <1>4
    <3>2. (ended' \/ i < Len(file')) = TRUE /\ (ended \/ i < Len(file)) = TRUE
      BY <1>1, <1>2, <1>4
    <3> QED
      BY <3>1, <3>2 DEF EventAt
  <2>2. CASE p.whole
    <3>1. PICK k \in Nat : k = Len(file) + 1
      BY <1>3
    <3> DEFINE entry == EventAt(k)'
    <3>2. Intact' = Intact \cup {k} /\ file'[k] = <<p>> /\ k \notin Intact
      BY <2>1, <2>2, <3>1, <1>1, <1>2, <1>4
    <3>3. Events' = Events \cup {entry}
      <4>1. Events' = {EventAt(i)' : i \in Intact'}
        BY DEF Events
      <4>2. {EventAt(i)' : i \in Intact} = Events
        BY <2>1 DEF Events
      <4> QED
        BY <4>1, <4>2, <3>2
    <3>4. entry.place = k /\ entry.session = session /\ entry.seq = seq + 1
      BY <3>2 DEF EventAt, Writes
    <3>5. entry \in [place: Nat, session: Sessions, seq: Nat, safe: BOOLEAN]
      <4>1. (ended' \/ k < Len(file')) \in BOOLEAN
        OBVIOUS
      <4>2. file'[k][1].session \in Sessions /\ file'[k][1].seq \in Nat
        BY <3>2 DEF Writes, Piece
      <4> QED
        BY <4>1, <4>2 DEF EventAt
    <3>6. \A e \in Events : e.place < entry.place
      BY <3>1, <3>4, <1>2 DEF Events, EventAt
    <3>7. \A e \in Events : e.session = session => e.seq < entry.seq
      <4>1. \A i \in Intact : file[i][1].session = session =>
              file[i][1].seq < seq + 1
        BY IntactLinesAreEvents DEF FileInv, OfSession, TypeOK
      <4> QED
        BY <4>1, <3>4 DEF Events, EventAt
    <3> HIDE DEF entry
    <3>8. J!Write(entry)
      BY <3>3, <3>4, <3>5, <3>6, <3>7 DEF J!Write, Events
    <3> QED
      BY <3>3, <3>8 DEF J!Next, Events
  <2>3. CASE ~p.whole
    <3>1. Intact' = Intact
      BY <2>1, <2>3, <1>1
    <3> QED
      BY <3>1, <2>1 DEF Events
  <2> QED
    BY <2>2, <2>3
<1>5. CASE ~ended
  <2>1. Intact' \subseteq Intact /\ \A i \in Intact' : file'[i] = file[i]
    BY <1>1, <1>5
  <2>2. Len(file') = Len(file) /\ Len(file) \notin Intact'
    BY <1>5, PutOnOpenLine DEF FileInv, TypeOK, Lines, Writes
  <2>3. \A i \in Intact' : EventAt(i)' = EventAt(i)
    <3> SUFFICES ASSUME NEW i \in Intact' PROVE EventAt(i)' = EventAt(i)
      OBVIOUS
    <3>1. i < Len(file)
      BY <2>1, <2>2, <1>2
    <3>2. (ended' \/ i < Len(file')) = TRUE /\ (ended \/ i < Len(file)) = TRUE
      BY <3>1, <2>2
    <3> QED
      BY <2>1, <3>2 DEF EventAt
  <2>4. CASE Len(file) \in Intact
    <3> DEFINE entry == EventAt(Len(file))
    <3>1. Intact' = Intact \ {Len(file)}
      BY <2>1, <2>2, <1>1
    <3>2. \A i \in Intact : i # Len(file) => EventAt(i) # entry
      BY DEF EventAt
    <3>3. Events' = Events \ {entry}
      BY <3>1, <3>2, <2>3, <2>4 DEF Events
    <3>4. ~entry.safe
      <4>1. (ended \/ Len(file) < Len(file)) = FALSE
        BY <1>3, <1>5
      <4>2. entry.safe = (ended \/ Len(file) < Len(file))
        BY Zenon DEF EventAt
      <4> QED
        BY <4>1, <4>2
    <3>5. \A e \in Events : e.place <= entry.place
      BY <1>2 DEF Events, EventAt
    <3>6. entry \in Events
      BY <2>4 DEF Events
    <3> QED
      BY <3>3, <3>4, <3>5, <3>6 DEF J!Next, J!Lose, Events
  <2>5. CASE Len(file) \notin Intact
    <3>1. Intact' = Intact
      BY <2>1, <2>2, <2>5, <1>1
    <3> QED
      BY <3>1, <2>3 DEF Events
  <2> QED
    BY <2>4, <2>5
<1> QED
  BY <1>4, <1>5

LEMMA NextIsJournalStep == FileInv /\ [Next]_vars => J!Next \/ UNCHANGED Events
<1> SUFFICES ASSUME FileInv, [Next]_vars PROVE J!Next \/ UNCHANGED Events
  OBVIOUS
<1>1. CASE UNCHANGED <<file, ended>>
  BY <1>1 DEF Events, EventAt, Intact
<1>2. ASSUME session # Closed, seq' = seq + 1, NEW whole \in BOOLEAN,
             Put([session |-> session, seq |-> seq', whole |-> whole])
      PROVE  J!Next \/ UNCHANGED Events
  <2>1. session \in Sessions /\ seq + 1 \in Nat
    BY <1>2 DEF FileInv, TypeOK
  <2>2. Writes([session |-> session, seq |-> seq + 1, whole |-> whole])
    BY <2>1, <1>2 DEF Writes, Piece
  <2> QED
    BY <2>2, WriteIsJournalStep
<1> QED
  BY <1>1, <1>2 DEF Next, vars, Open, AppendReturns, AppendStops, Count

\* What readers of the file see is a Journal, for any sessions and any number
\* of openings, appends and torn writes (event_log.py, append, read_events).
THEOREM FileKeepsJournal == Spec => KeepsJournal
<1>1. Init => J!Init
  BY DEF Init, J!Init, Intact
<1>2. FileInv /\ [Next]_vars => [J!Next]_Events
  BY NextIsJournalStep
<1> QED
  BY <1>1, <1>2, FileInvariant, PTL DEF Spec, KeepsJournal, J!Spec, Events

=============================================================================
