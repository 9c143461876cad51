----------------------------- MODULE MCNormalize -----------------------------
(***************************************************************************)
(* The texts are those of bounded length over alphabets in which quotes,   *)
(* comments, gaps and cases meet.                                          *)
(***************************************************************************)
EXTENDS Lexemes, SequencesExt

CONSTANTS MixedLength, QuoteLength, LineLength, BlockLength

AllTexts ==
  SeqOf(Characters, MixedLength)
  \cup SeqOf({"A", "'", "\"", " ", "-"}, QuoteLength)
  \cup SeqOf({"A", "'", "-", "\n"}, LineLength)
  \cup SeqOf({"A", "'", "/", "*"}, BlockLength)

=============================================================================
