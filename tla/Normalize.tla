------------------------------ MODULE Normalize ------------------------------
(***************************************************************************)
(* The scan that turns an SQL text into the template it is counted, drawn  *)
(* and hidden under (core/fingerprints.py, normalize_sql).  A character    *)
(* stands for its class: "A" and "a" are a letter and its lower case, "a"  *)
(* also whatever else the scan only copies, and " " is any white space     *)
(* that ends no line comment.                                              *)
(***************************************************************************)
EXTENDS Naturals, Sequences

CONSTANT Statements     \* the texts to be normalised

Quotes == {"'", "\""}
Spaces == {" ", "\n"}
Characters == {"a", "A", "-", "/", "*"} \cup Quotes \cup Spaces

ASSUME StatementsAssumption == Statements \subseteq Seq(Characters)

VARIABLES sql, index, pending_space, normalized,
          within,       \* quote, or the comment being skipped, or "code"
          scans         \* the scan's number: a result is scanned once more

vars == <<sql, index, pending_space, normalized, within, scans>>

TypeOK ==
  /\ sql \in Seq(Characters)
  /\ index \in 1 .. Len(sql) + 1
  /\ pending_space \in BOOLEAN
  /\ normalized \in Seq(Characters)
  /\ within \in {"code", "line", "block"} \cup Quotes
  /\ scans \in {1, 2}

Init ==
  /\ sql \in Statements
  /\ index = 1
  /\ pending_space = FALSE
  /\ normalized = <<>>
  /\ within = "code"
  /\ scans = 1

-----------------------------------------------------------------------------
Lower(char) == IF char = "A" THEN "a" ELSE char

Left == index <= Len(sql)
Char == sql[index]
Ahead(char) == index < Len(sql) /\ sql[index + 1] = char

\* A literal keeps its case; an identifier has none.
Kept(char) == IF within = "'" THEN char ELSE Lower(char)

\* A quote that comes twice belongs to the text it would have ended.
QuotedChar ==
  /\ within \in Quotes /\ Left
  /\ IF Char = within /\ Ahead(within)
       THEN /\ normalized' = normalized \o <<Char, Char>>
            /\ index' = index + 2
            /\ UNCHANGED within
       ELSE /\ normalized' = Append(normalized, Kept(Char))
            /\ index' = index + 1
            /\ within' = IF Char = within THEN "code" ELSE within
  /\ UNCHANGED <<sql, pending_space, scans>>

Opens(first, second) == within = "code" /\ Left /\ Char = first /\ Ahead(second)

OpenLine ==
  /\ Opens("-", "-")
  /\ within' = "line"
  /\ index' = index + 2
  /\ UNCHANGED <<sql, pending_space, normalized, scans>>

\* Mutant: the star that opens a comment may close it too.
OpenBlockShort ==
  /\ Opens("/", "*")
  /\ within' = "block"
  /\ index' = index + 1
  /\ UNCHANGED <<sql, pending_space, normalized, scans>>

OpenBlock ==
  /\ Opens("/", "*")
  /\ within' = "block"
  /\ index' = index + 2
  /\ UNCHANGED <<sql, pending_space, normalized, scans>>

BlockCloses == Char = "*" /\ Ahead("/")

CommentEnds ==
  \/ within = "line" /\ (Left => Char = "\n")
  \/ within = "block" /\ (Left => BlockCloses)

SkipInComment ==
  /\ within \in {"line", "block"} /\ ~CommentEnds
  /\ index' = index + 1
  /\ UNCHANGED <<sql, pending_space, normalized, within, scans>>

\* Mutant: a comment leaves no gap.
CloseLeavingNoGap ==
  /\ CommentEnds
  /\ within' = "code"
  /\ index' = IF within = "block" /\ Left THEN index + 2 ELSE index
  /\ UNCHANGED <<sql, pending_space, normalized, scans>>

\* Mutant: an open comment at the end is closed like any other.
CloseAnyhow ==
  /\ CommentEnds
  /\ within' = "code"
  /\ pending_space' = (normalized # <<>>)
  /\ index' = IF within = "block" THEN index + 2 ELSE index
  /\ UNCHANGED <<sql, normalized, scans>>

\* A comment ends as it has to, or with the text; a gap is left in its place.
CloseComment ==
  /\ CommentEnds
  /\ within' = "code"
  /\ pending_space' = (normalized # <<>>)
  /\ index' = IF within = "block" /\ Left THEN index + 2 ELSE index
  /\ UNCHANGED <<sql, normalized, scans>>

SkipSpace ==
  /\ within = "code" /\ Left /\ Char \in Spaces
  /\ pending_space' = (normalized # <<>>)
  /\ index' = index + 1
  /\ UNCHANGED <<sql, normalized, within, scans>>

CodeChar ==
  /\ within = "code" /\ Left /\ Char \notin Spaces
  /\ ~Opens("-", "-") /\ ~Opens("/", "*")
  /\ normalized' = normalized \o (IF pending_space THEN <<" ">> ELSE <<>>) \o <<Lower(Char)>>
  /\ pending_space' = FALSE
  /\ within' = IF Char \in Quotes THEN Char ELSE "code"
  /\ index' = index + 1
  /\ UNCHANGED <<sql, scans>>

Done == ~Left /\ within \notin {"line", "block"}

\* The result is scanned again: no step of the code, which normalises a text
\* once, but what TemplatesStand compares the first scan with.
Again ==
  /\ Done /\ scans = 1
  /\ scans' = 2
  /\ sql' = normalized
  /\ index' = 1
  /\ pending_space' = FALSE
  /\ normalized' = <<>>
  /\ within' = "code"

Next ==
  \/ QuotedChar \/ OpenLine \/ OpenBlock \/ SkipInComment \/ CloseComment
  \/ SkipSpace \/ CodeChar \/ Again

Spec == Init /\ [][Next]_vars

-----------------------------------------------------------------------------
\* A template is its own template: to normalise it again changes nothing
\* (normalize_sql).
TemplatesStand == Done /\ scans = 2 => normalized = sql

=============================================================================
