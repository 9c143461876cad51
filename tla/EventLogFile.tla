---------------------------- MODULE EventLogFile ----------------------------
(***************************************************************************)
(* The JSONL file behind an event log (core/event_log.py), with writes     *)
(* that stop half way and processes that die.                              *)
(*                                                                         *)
(* A line is the sequence of what was written into it: a whole event, or a *)
(* fragment of one.  A line that is not ended takes the next event too.    *)
(* The writer is one instance in one process, as the contract demands; it  *)
(* may be opened again, for the same session or for another.               *)
(***************************************************************************)
EXTENDS Naturals, Sequences, FiniteSets

CONSTANTS Sessions,
          Closed,     \* no session is open
          MaxOpens,   \* bounds how often the log is opened
          MaxAppends  \* bounds the appends

ASSUME FileAssumption ==
  /\ Closed \notin Sessions
  /\ MaxOpens \in Nat
  /\ MaxAppends \in Nat

VARIABLES file,     \* the lines
          ended,    \* whether the last of them has its newline
          session,  \* the session the log is open for
          seq,      \* _seq of the open log
          opens,    \* how often it was opened
          appends,  \* how many appends there were
          returned, \* the events whose append returned, with their lines
          torn      \* how many appends did not

vars == <<file, ended, session, seq, opens, appends, returned, torn>>

Piece == [session: Sessions, seq: Nat, whole: BOOLEAN]

TypeOK ==
  /\ file \in Seq(Seq(Piece) \ {<<>>})
  /\ ended \in BOOLEAN
  /\ ~ended => file # <<>>
  /\ session \in Sessions \cup {Closed}
  /\ seq \in Nat /\ opens \in Nat /\ appends \in Nat /\ torn \in Nat
  /\ returned \subseteq [line: Nat, session: Sessions, seq: Nat]

-----------------------------------------------------------------------------
(* Reading *)

\* Mutant: the reader takes what a line ends with.
ReadableByEnd(line) == line[Len(line)].whole

\* json.loads of a line accepts one whole event and nothing else.
Readable(line) == Len(line) = 1 /\ line[1].whole

\* The lines read_events() returns, the others being skipped with a warning.
Intact == {i \in DOMAIN file : Readable(file[i])}

OfSession(s) == {i \in Intact : file[i][1].session = s}

-----------------------------------------------------------------------------
(* Writing *)

Init ==
  /\ file = <<>> /\ ended = TRUE
  /\ session = Closed /\ seq = 0
  /\ opens = 0 /\ appends = 0
  /\ returned = {} /\ torn = 0

\* Mutant: numbering goes on after the number of the events found.
OpenCounting(s) ==
  /\ opens < MaxOpens
  /\ opens' = opens + 1
  /\ session' = s
  /\ seq' = Cardinality(OfSession(s))
  /\ UNCHANGED <<file, ended, appends, returned, torn>>

\* __init__: numbering goes on after the largest number the session has.
Open(s) ==
  /\ opens < MaxOpens
  /\ opens' = opens + 1
  /\ session' = s
  /\ \E n \in {0} \cup {file[i][1].seq : i \in OfSession(s)} :
       seq' = n /\ \A i \in OfSession(s) : file[i][1].seq <= n
  /\ UNCHANGED <<file, ended, appends, returned, torn>>

\* Where the next append writes.
Line == IF ended THEN Len(file) + 1 ELSE Len(file)

\* Mutant: the file is opened for writing, not for appending.
PutAnew(piece) == file' = <<<<piece>>>>

Put(piece) ==
  file' = IF ended THEN Append(file, <<piece>>)
                   ELSE [file EXCEPT ![Len(file)] = Append(@, piece)]

Count == appends < MaxAppends /\ appends' = appends + 1 /\ seq' = seq + 1

\* append() that returns: the event and its newline are in the file.
AppendReturns ==
  /\ session # Closed
  /\ Count
  /\ Put([session |-> session, seq |-> seq', whole |-> TRUE])
  /\ ended' = TRUE
  /\ returned' = returned \cup {[line |-> Line, session |-> session, seq |-> seq']}
  /\ UNCHANGED <<session, opens, torn>>

\* append() that does not return: nothing, a fragment or all but the newline
\* was written when the write raised, or when the process died.
AppendStops(next) ==
  /\ session # Closed
  /\ Count
  /\ session' = next
  /\ torn' = torn + 1
  /\ \/ UNCHANGED <<file, ended>>
     \/ /\ \E whole \in BOOLEAN : Put([session |-> session, seq |-> seq', whole |-> whole])
        /\ ended' = FALSE
  /\ UNCHANGED <<opens, returned>>

Next ==
  \/ \E s \in Sessions : Open(s)
  \/ AppendReturns
  \/ AppendStops(session)   \* it raised
  \/ AppendStops(Closed)    \* the process died

Spec == Init /\ [][Next]_vars

-----------------------------------------------------------------------------
(* Properties *)

\* The numbers of a session grow along the events a reader gets, over torn
\* lines, events that were read once and are lost, and new openings of the
\* session by processes that cannot know which numbers the lost ones had
\* (event_log.py, __init__ and append; "seq must grow strictly").
ReadableNumbersGrow ==
  \A i, j \in Intact :
    (i < j /\ file[i][1].session = file[j][1].session)
      => file[i][1].seq < file[j][1].seq

Lost == {e \in returned : e.line \notin Intact}

\* A write that stops half way costs one event that was recorded in full, at
\* most: the next one, which is glued to its line; and while the last line is
\* not ended, that loss is still to come (event_log.py, append).
TornWritesCostOneEvent ==
  Cardinality(Lost) + (IF ended THEN 0 ELSE 1) <= torn

\* A line is safe when it is ended: nothing can be added to it.
EventAt(i) ==
  [place |-> i, session |-> file[i][1].session, seq |-> file[i][1].seq,
   safe |-> ended \/ i < Len(file)]

J == INSTANCE Journal WITH readable <- {EventAt(i) : i \in Intact}

\* To its readers the file is a Journal: an event stays where it was written,
\* and the only one they can miss later is a last one whose newline was not
\* written (event_log.py, append and read_events).
KeepsJournal == J!Spec

=============================================================================
