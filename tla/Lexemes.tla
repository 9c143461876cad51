------------------------------- MODULE Lexemes -------------------------------
(***************************************************************************)
(* What an SQL text is made of: the reference for the scan of Normalize.   *)
(* It has no state: it says of each piece of a text, from where it starts, *)
(* how long it stays open, and of each character that is kept where the    *)
(* template has it.                                                        *)
(***************************************************************************)
EXTENDS Normalize, FiniteSets

Count(s, char, from, to) == Cardinality({k \in from .. to : s[k] = char})

Pair(s, i, first, second) == i < Len(s) /\ s[i] = first /\ s[i + 1] = second

\* The piece that starts at i is not open after k: its quotes are even for
\* good, its line ends there, or its block does; any other piece is a character.
Closes(s, i, k) ==
  /\ s[i] \in Quotes => Count(s, s[i], i, k) % 2 = 0 /\ (k < Len(s) => s[k + 1] # s[i])
  /\ Pair(s, i, "-", "-") => k < Len(s) /\ s[k + 1] = "\n"
  /\ Pair(s, i, "/", "*") => i + 3 <= k /\ Pair(s, k - 1, "*", "/")

\* Of the pieces with these starts, k belongs to that of i.
InPiece(starts, i, k) == i \in starts /\ i <= k /\ \A j \in i + 1 .. k : j \notin starts

\* The first n characters of s fall into pieces with these starts: each piece
\* lasts until it closes.
Lexed(s, starts, n) ==
  /\ starts \subseteq 1 .. n
  /\ n > 0 => 1 \in starts
  /\ \A i \in starts : \A k \in i .. n - 1 :
       InPiece(starts, i, k) => (k + 1 \in starts <=> Closes(s, i, k))

Lexing(s, starts) == Lexed(s, starts, Len(s))

\* White space and comments are gaps, all else is text.
IsText(s, i) == s[i] \notin Spaces /\ ~Pair(s, i, "-", "-") /\ ~Pair(s, i, "/", "*")

-----------------------------------------------------------------------------
(* What becomes of the pieces *)

\* Of the first n characters, those of the texts.
Texts(s, starts, n) == {k \in 1 .. n : \E i \in starts : InPiece(starts, i, k) /\ IsText(s, i)}

\* Those which a gap parts from the one before.
Apart(kept) == {k \in kept : k - 1 \notin kept /\ \E j \in kept : j < k}

UpTo(S, k) == Cardinality({j \in S : j <= k})

\* Where the template has a character that is kept.
Place(kept, k) == UpTo(kept, k) + UpTo(Apart(kept), k)

\* What the template has for the k-th character, of the piece that starts at i:
\* only a literal keeps its case.
Spelling(s, i, k) == IF s[i] = "'" THEN s[k] ELSE Lower(s[k])

\* The characters that are kept make the text, with a space for each gap.
Written(text, s, starts, kept) ==
  /\ Len(text) = Cardinality(kept) + Cardinality(Apart(kept))
  /\ \A k \in kept : \A i \in starts :
       InPiece(starts, i, k) => text[Place(kept, k)] = Spelling(s, i, k)
  /\ \A k \in Apart(kept) : text[Place(kept, k) - 1] = " "

\* Where the template has the texts, and the spaces between them.
Moved(starts, kept) ==
  {Place(kept, i) : i \in starts \cap kept} \cup {Place(kept, i) - 1 : i \in Apart(kept)}

-----------------------------------------------------------------------------
\* The scan decides on quotes and comments as the lexer does, whichever opens
\* first: an apostrophe in a comment opens nothing, nor does a comment mark in
\* a quoted text, and an open piece lasts to the end.  Of what is not a comment
\* nothing is lost but gaps, and the case of what is not a literal
\* (normalize_sql).
ScansAsReference ==
  Done /\ scans = 1 =>
    \E starts \in SUBSET (1 .. Len(sql)) :
      Lexing(sql, starts) /\ Written(normalized, sql, starts, Texts(sql, starts, Len(sql)))

\* The pieces of a template are the texts of its statement and one space for
\* each gap between two of them: no two tokens are joined, none is split and no
\* comment appears, so the house and the occurrences of one statement never
\* serve another (normalize_sql; spec of determinism).
TokensStayWhole ==
  Done /\ scans = 1 =>
    \E starts \in SUBSET (1 .. Len(sql)) :
      Lexing(sql, starts) /\ Lexing(normalized, Moved(starts, Texts(sql, starts, Len(sql))))

=============================================================================
