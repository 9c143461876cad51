--------------------------- MODULE NormalizeProofs ---------------------------
(***************************************************************************)
(* Proofs about the scan of an SQL text, for texts of any length: its type *)
(* is kept, a template is its own template, and the scan reads a text as   *)
(* the reference does, of which it writes every token whole.               *)
(***************************************************************************)
EXTENDS Lexemes, FiniteSetTheorems, WellFoundedInduction, TLAPS

-----------------------------------------------------------------------------
(* Types *)

LEMMA LowerTyped ==
  ASSUME NEW c \in Characters
  PROVE  /\ Lower(c) \in Characters
         /\ Lower(Lower(c)) = Lower(c)
         /\ Lower(c) \in Spaces <=> c \in Spaces
         /\ Lower(c) \in Quotes <=> c \in Quotes
         /\ c \notin {"a", "A"} => Lower(c) = c
         /\ Kept(c) \in Characters
BY DEF Lower, Kept, Characters, Quotes, Spaces

LEMMA AppendTyped ==
  ASSUME NEW s \in Seq(Characters), NEW c \in Characters
  PROVE  /\ Append(s, c) \in Seq(Characters)
         /\ s \o <<c>> = Append(s, c)
         /\ s \o <<c, c>> = Append(Append(s, c), c)
OBVIOUS

LEMMA ScanFacts ==
  ASSUME TypeOK
  PROVE  /\ sql \in Seq(Characters) /\ normalized \in Seq(Characters)
         /\ Len(sql) \in Nat /\ Len(normalized) \in Nat
         /\ index \in Nat /\ 1 <= index /\ index <= Len(sql) + 1
BY DEF TypeOK

LEMMA CharTyped ==
  ASSUME TypeOK, Left
  PROVE  Char \in Characters
BY ScanFacts DEF Left, Char

\* What CodeChar adds its character to.
Spaced == IF pending_space THEN Append(normalized, " ") ELSE normalized

\* What CodeChar writes.
LEMMA CodeCharAppends ==
  ASSUME TypeOK, CodeChar
  PROVE  /\ Lower(Char) \in Characters
         /\ Spaced \in Seq(Characters)
         /\ normalized' = Append(Spaced, Lower(Char))
<1> DEFINE c == Lower(Char)
           gap == IF pending_space THEN <<" ">> ELSE <<>>
<1>1. c \in Characters
  BY CharTyped, LowerTyped DEF CodeChar
<1>2. normalized' = (normalized \o gap) \o <<c>>
  BY DEF CodeChar
<1>3. normalized \o gap = Spaced
  <2>1. CASE pending_space
    <3>1. gap = <<" ">>
      BY <2>1
    <3> HIDE DEF gap
    <3> QED
      BY <2>1, <3>1, ScanFacts, AppendTyped DEF Characters, Spaces, Spaced
  <2>2. CASE ~pending_space
    <3>1. gap = <<>>
      BY <2>2
    <3>2. normalized \o <<>> = normalized
      BY ScanFacts
    <3> HIDE DEF gap
    <3> QED
      BY <2>2, <3>1, <3>2 DEF Spaced
  <2> QED
    BY <2>1, <2>2
<1>4. Spaced \in Seq(Characters)
  BY ScanFacts, AppendTyped DEF Characters, Spaces, Spaced
<1> HIDE DEF c, gap
<1> QED
  BY <1>1, <1>2, <1>3, <1>4, AppendTyped DEF c

LEMMA TypeStep == TypeOK /\ [Next]_vars => TypeOK'
<1> SUFFICES ASSUME TypeOK, [Next]_vars PROVE TypeOK'
  OBVIOUS
<1> USE ScanFacts
<1>1. within \in {"code", "line", "block"} \cup Quotes /\ scans \in {1, 2}
  BY DEF TypeOK
<1>2. CASE QuotedChar
  <2>1. CASE Char = within /\ Ahead(within)
    <3>1. normalized' \in Seq(Characters)
      <4>1. normalized' = normalized \o <<Char, Char>> /\ Left
        BY <1>2, <2>1 DEF QuotedChar
      <4> QED
        BY <4>1, CharTyped, AppendTyped
    <3>2. index' \in 1 .. Len(sql) + 1
      BY <1>2, <2>1 DEF QuotedChar, Ahead
    <3> QED
      BY <1>1, <1>2, <2>1, <3>1, <3>2 DEF QuotedChar, TypeOK
  <2>2. CASE ~(Char = within /\ Ahead(within))
    <3>1. Kept(Char) \in Characters
      BY <1>2, CharTyped, LowerTyped DEF QuotedChar
    <3>2. normalized' \in Seq(Characters)
      BY <1>2, <2>2, <3>1, AppendTyped DEF QuotedChar
    <3>3. index' \in 1 .. Len(sql) + 1
      BY <1>2, <2>2 DEF QuotedChar, Left
    <3> QED
      BY <1>1, <1>2, <2>2, <3>2, <3>3 DEF QuotedChar, TypeOK
  <2> QED
    BY <2>1, <2>2
<1>3. CASE OpenLine \/ OpenBlock
  BY <1>1, <1>3 DEF OpenLine, OpenBlock, Opens, Ahead, TypeOK
<1>4. CASE SkipInComment
  BY <1>1, <1>4 DEF SkipInComment, CommentEnds, Left, TypeOK
<1>5. CASE CloseComment
  <2>1. index' \in 1 .. Len(sql) + 1
    BY <1>5 DEF CloseComment, CommentEnds, BlockCloses, Ahead, Left, Quotes
  <2>2. pending_space' \in BOOLEAN
    BY <1>5, Zenon DEF CloseComment
  <2> QED
    BY <1>1, <1>5, <2>1, <2>2 DEF CloseComment, TypeOK
<1>6. CASE SkipSpace
  <2>1. pending_space' \in BOOLEAN
    BY <1>6, Zenon DEF SkipSpace
  <2> QED
    BY <1>1, <1>6, <2>1 DEF SkipSpace, Left, TypeOK
<1>7. CASE CodeChar
  <2>1. normalized' \in Seq(Characters)
    BY <1>7, CodeCharAppends, AppendTyped DEF Characters, Spaces
  <2>2. within' \in {"code"} \cup Quotes
    BY <1>7 DEF CodeChar
  <2>3. index' \in 1 .. Len(sql) + 1
    <3>1. index' = index + 1 /\ Left
      BY <1>7 DEF CodeChar
    <3> QED
      BY <3>1 DEF Left
  <2> QED
    BY <1>1, <1>7, <2>1, <2>2, <2>3 DEF CodeChar, TypeOK
<1>8. CASE Again
  <2>1. /\ sql' \in Seq(Characters) /\ normalized' \in Seq(Characters)
        /\ index' = 1 /\ within' = "code" /\ scans' = 2
    BY <1>8 DEF Again
  <2>2. pending_space' \in BOOLEAN
    BY <1>8 DEF Again
  <2>3. index' \in 1 .. Len(sql') + 1
    BY <2>1
  <2> QED
    BY <2>1, <2>2, <2>3 DEF TypeOK
<1>9. CASE UNCHANGED vars
  BY <1>9 DEF vars, TypeOK
<1> QED
  BY <1>2, <1>3, <1>4, <1>5, <1>6, <1>7, <1>8, <1>9 DEF Next

LEMMA TypeInit == Init => TypeOK
<1> SUFFICES ASSUME Init PROVE TypeOK
  OBVIOUS
<1>1. sql \in Seq(Characters)
  BY StatementsAssumption DEF Init
<1>2. index \in 1 .. Len(sql) + 1
  BY <1>1 DEF Init
<1>3. normalized \in Seq(Characters)
  BY DEF Init
<1> QED
  BY <1>1, <1>2, <1>3 DEF Init, TypeOK

\* The scan stays within its text and writes characters, whatever the text:
\* it looks one character ahead only where there is one (normalize_sql).
THEOREM ScanTyped == Spec => []TypeOK
BY TypeInit, TypeStep, PTL DEF Spec

-----------------------------------------------------------------------------
(* How a template reads *)

Modes == {"start", "code", "gap"} \cup Quotes

\* Where the scan stands after `char`, if it stood at `mode` after `before`, and
\* what a template may hold there: a gap is one space between two texts, only a
\* literal has a case, and nothing opens a comment.
Follows(mode, before, char, next) ==
  IF mode \in Quotes
    THEN /\ next = IF char = mode THEN "code" ELSE mode
         /\ mode = "\"" => char = Lower(char)
  ELSE IF char \in Spaces
    THEN char = " " /\ mode = "code" /\ next = "gap"
  ELSE /\ char = Lower(char)
       /\ next = IF char \in Quotes THEN char ELSE "code"
       /\ mode = "code" => ~(before = "-" /\ char = "-") /\ ~(before = "/" /\ char = "*")

\* The scan of s would stand at mode[k] after k characters, and copy them all
\* unless a gap is the last.
Reading(s, mode) ==
  /\ mode \in [0 .. Len(s) -> Modes]
  /\ mode[0] = "start"
  /\ \A k \in 1 .. Len(s) : Follows(mode[k - 1], s[k - 1], s[k], mode[k])

Reads(s, mode) == Reading(s, mode) /\ mode[Len(s)] # "gap"

\* What is written so far reads as the scan stands.
FirstScan(mode) ==
  /\ Reads(normalized, mode)
  /\ within \in Quotes => mode[Len(normalized)] = within
  /\ within \notin Quotes => mode[Len(normalized)] \notin Quotes
  /\ pending_space => normalized # <<>> /\ within \notin Quotes
  /\ within = "code" /\ ~pending_space /\ normalized # <<>> /\ Left =>
       /\ ~(normalized[Len(normalized)] = "-" /\ Char = "-")
       /\ ~(normalized[Len(normalized)] = "/" /\ Char = "*")

\* The scan of a template copies it, a gap when the next text comes.
SecondScan(mode) ==
  /\ Reads(sql, mode)
  /\ within \in Quotes => mode[index - 1] = within
  /\ within \notin Quotes => within = "code" /\ mode[index - 1] \notin Quotes
  /\ pending_space <=> mode[index - 1] = "gap"
  /\ Len(normalized) = IF pending_space THEN index - 2 ELSE index - 1
  /\ \A k \in 1 .. Len(normalized) : normalized[k] = sql[k]

TemplateInv ==
  \/ scans = 1 /\ \E mode : FirstScan(mode)
  \/ scans = 2 /\ \E mode : SecondScan(mode)

\* A template that goes on as it may is a template, but for a gap at its end.
LEMMA ReadsOn ==
  ASSUME NEW s \in Seq(Characters), NEW c \in Characters, NEW mode, NEW next \in Modes,
         Reading(s, mode), Follows(mode[Len(s)], s[Len(s)], c, next)
  PROVE  LET t == Append(s, c)
         IN  /\ t \in Seq(Characters) /\ t[Len(t)] = c /\ t # <<>>
             /\ \E m : Reading(t, m) /\ m[Len(t)] = next
<1> DEFINE t == Append(s, c)
           n == Len(s)
           m == [k \in 0 .. n + 1 |-> IF k <= n THEN mode[k] ELSE next]
<1>1. n \in Nat /\ t \in Seq(Characters) /\ Len(t) = n + 1 /\ t[n + 1] = c
      /\ \A k \in 1 .. n : t[k] = s[k]
  OBVIOUS
<1> HIDE DEF t
<1>2. /\ m \in [0 .. n + 1 -> Modes]
      /\ m[n + 1] = next /\ \A k \in 0 .. n : m[k] = mode[k]
  <2> HIDE DEF n
  <2>1. n \in Nat /\ mode \in [0 .. n -> Modes]
    BY <1>1 DEF n, Reading
  <2> QED
    BY <2>1
<1> HIDE DEF m
<1>3. m[0] = "start" /\ mode[0] = "start"
  BY <1>1, <1>2 DEF Reading
<1>4. \A before, other, char, to :
        Follows("start", before, char, to) => Follows("start", other, char, to)
  BY DEF Follows, Quotes
<1>5. \A k \in 1 .. n : Follows(mode[k - 1], s[k - 1], s[k], mode[k])
  BY DEF Reading
<1>6. Follows(mode[n], s[n], c, next)
  OBVIOUS
<1> HIDE DEF n
<1>7. ASSUME NEW k \in 1 .. n + 1 PROVE Follows(m[k - 1], t[k - 1], t[k], m[k])
  <2>1. CASE k \in 1 .. n
    <3>1. k - 1 \in 0 .. n /\ k \in 0 .. n
      BY <1>1, <2>1
    <3>2. m[k - 1] = mode[k - 1] /\ m[k] = mode[k] /\ t[k] = s[k]
      BY <1>1, <1>2, <2>1, <3>1
    <3>3. Follows(m[k - 1], s[k - 1], t[k], m[k])
      BY <1>5, <2>1, <3>2
    <3>4. CASE k = 1
      <4>1. m[k - 1] = "start"
        BY <1>3, <3>4
      <4> QED
        BY <1>4, <3>3, <4>1
    <3>5. CASE k # 1
      <4>1. k - 1 \in 1 .. n
        BY <1>1, <2>1, <3>5
      <4>2. t[k - 1] = s[k - 1]
        BY <1>1, <4>1
      <4> QED
        BY <3>3, <4>2
    <3> QED
      BY <3>4, <3>5
  <2>2. CASE k = n + 1
    <3>1. k - 1 = n /\ n \in 0 .. n
      BY <1>1, <2>2
    <3>2. m[k - 1] = mode[n] /\ m[k] = next /\ t[k] = c
      BY <1>1, <1>2, <2>2, <3>1
    <3>3. Follows(m[k - 1], s[n], t[k], m[k])
      BY <1>6, <3>2
    <3>4. CASE n = 0
      <4>1. m[k - 1] = "start"
        BY <1>3, <3>1, <3>4
      <4> QED
        BY <1>4, <3>3, <4>1
    <3>5. CASE n # 0
      <4>1. t[k - 1] = s[n]
        BY <1>1, <3>1, <3>5
      <4> QED
        BY <3>3, <4>1
    <3> QED
      BY <3>4, <3>5
  <2> QED
    BY <1>1, <2>1, <2>2
<1>8. Reading(t, m)
  BY <1>1, <1>2, <1>3, <1>7 DEF Reading
<1>9. m[Len(t)] = next /\ t[Len(t)] = c /\ t # <<>>
  <2>1. t # <<>>
    BY <1>1
  <2> QED
    BY <1>1, <1>2, <2>1
<1> QED
  BY <1>1, <1>8, <1>9 DEF t

\* Only before the first character does a text stand at its start.
LEMMA OnceStarted ==
  ASSUME NEW s \in Seq(Characters), NEW mode, Reading(s, mode)
  PROVE  /\ \A k \in 1 .. Len(s) : mode[k] # "start"
         /\ s # <<>> => Len(s) \in 1 .. Len(s)
         /\ \A k \in 1 .. Len(s) : mode[k] = "gap" => s[k] = " "
<1>1. ASSUME NEW m, NEW before, NEW char, NEW next, Follows(m, before, char, next)
      PROVE  next # "start" /\ (next = "gap" => char = " ")
  <2>1. CASE m \in Quotes
    BY <1>1, <2>1 DEF Follows, Quotes
  <2>2. CASE m \notin Quotes /\ char \in Spaces
    BY <1>1, <2>2 DEF Follows
  <2>3. CASE m \notin Quotes /\ char \notin Spaces
    BY <1>1, <2>3 DEF Follows, Quotes
  <2> QED
    BY <2>1, <2>2, <2>3
<1>2. Len(s) \in Nat /\ (s # <<>> => Len(s) # 0)
  OBVIOUS
<1>3. \A k \in 1 .. Len(s) : Follows(mode[k - 1], s[k - 1], s[k], mode[k])
  BY DEF Reading
<1>4. \A k \in 1 .. Len(s) : mode[k] # "start" /\ (mode[k] = "gap" => s[k] = " ")
  BY <1>1, <1>3
<1>5. s # <<>> => Len(s) \in 1 .. Len(s)
  BY <1>2
<1> QED
  BY <1>4, <1>5

-----------------------------------------------------------------------------
(* The first scan *)

LEMMA QuotedCharReads ==
  ASSUME TypeOK, NEW mode, FirstScan(mode), QuotedChar
  PROVE  \E m : FirstScan(m)'
<1> DEFINE n == Len(normalized)
<1>1. /\ within \in Quotes /\ Left /\ Char \in Characters
      /\ normalized \in Seq(Characters)
      /\ UNCHANGED <<sql, pending_space>>
  BY ScanFacts, CharTyped DEF QuotedChar
<1>2. Reading(normalized, mode) /\ mode[n] = within /\ ~pending_space
  BY <1>1 DEF FirstScan, Reads
<1>3. within \in Modes /\ "code" \in Modes /\ within # "gap" /\ within # "code"
  BY <1>1 DEF Modes, Quotes
<1>4. CASE Char = within /\ Ahead(within)
  <2> DEFINE once == Append(normalized, Char)
             twice == Append(once, Char)
  <2>1. normalized' = twice /\ within' = within
    BY <1>1, <1>4, AppendTyped DEF QuotedChar
  <2>2. Follows(mode[n], normalized[n], Char, "code")
    BY <1>1, <1>2, <1>4 DEF Follows, Lower, Quotes
  <2>3. /\ once \in Seq(Characters) /\ once[Len(once)] = Char
        /\ \E m : Reading(once, m) /\ m[Len(once)] = "code"
    BY <1>1, <1>2, <1>3, <2>2, ReadsOn
  <2> HIDE DEF once
  <2>9. PICK m1 : Reading(once, m1) /\ m1[Len(once)] = "code"
    BY <2>3
  <2>4. Follows(m1[Len(once)], once[Len(once)], Char, within)
    BY <1>1, <1>4, <2>3, <2>9 DEF Follows, Lower, Quotes, Spaces
  <2>5. PICK m2 : Reading(twice, m2) /\ m2[Len(twice)] = within
    BY <1>1, <1>3, <2>3, <2>4, <2>9, ReadsOn
  <2> HIDE DEF twice
  <2>6. ~pending_space' /\ within' \in Quotes /\ within' # "code"
    BY <1>1, <1>2, <1>3, <2>1, Zenon
  <2>7. Reads(normalized', m2) /\ m2[Len(normalized')] = within'
    BY <1>3, <2>1, <2>5 DEF Reads
  <2>8. FirstScan(m2)'
    BY <2>6, <2>7 DEF FirstScan
  <2> QED
    BY <2>8
<1>5. CASE ~(Char = within /\ Ahead(within))
  <2> DEFINE c == Kept(Char)
             next == IF Char = within THEN "code" ELSE within
             t == Append(normalized, c)
  <2>1. normalized' = t /\ within' = next
    BY <1>1, <1>5 DEF QuotedChar
  <2>2. c \in Characters
    BY <1>1, LowerTyped
  <2>3. next \in Modes /\ next # "gap" /\ (next \in Quotes => next = within)
        /\ (next \notin Quotes => c \in Quotes)
    BY <1>1, <1>3 DEF Kept, Lower, Quotes
  <2>4. Follows(mode[n], normalized[n], c, next)
    BY <1>1, <1>2 DEF Follows, Kept, Lower, Quotes, Characters, Spaces
  <2> HIDE DEF next, c
  <2>5. t[Len(t)] = c /\ \E m : Reading(t, m) /\ m[Len(t)] = next
    BY <1>1, <1>2, <2>2, <2>3, <2>4, ReadsOn
  <2> HIDE DEF t
  <2>10. PICK m1 : Reading(t, m1) /\ m1[Len(t)] = next
    BY <2>5
  <2>6. ~pending_space'
    BY <1>1, <1>2, Zenon
  <2>7. Reads(normalized', m1) /\ m1[Len(normalized')] = within'
        /\ normalized'[Len(normalized')] = c
    BY <2>1, <2>3, <2>5, <2>10 DEF Reads
  <2>8. (within' \in Quotes => within' = within) /\ (within' = "code" => c \in Quotes)
        /\ (within' \notin Quotes => within' = "code")
    BY <1>1, <1>3, <2>1, <2>3 DEF next
  <2>9. FirstScan(m1)'
    BY <2>6, <2>7, <2>8 DEF FirstScan, Quotes
  <2> QED
    BY <2>9
<1> QED
  BY <1>4, <1>5

LEMMA CodeCharReads ==
  ASSUME TypeOK, NEW mode, FirstScan(mode), CodeChar
  PROVE  \E m : FirstScan(m)'
<1> DEFINE c == Lower(Char)
           next == IF c \in Quotes THEN c ELSE "code"
           before == Spaced
           t == Append(before, c)
<1>1. /\ within = "code" /\ Left /\ Char \in Characters /\ Char \notin Spaces
      /\ ~(Char = "-" /\ Ahead("-")) /\ ~(Char = "/" /\ Ahead("*"))
      /\ normalized \in Seq(Characters)
      /\ pending_space' = FALSE
      /\ within' = IF Char \in Quotes THEN Char ELSE "code"
      /\ index' = index + 1 /\ sql' = sql
  BY ScanFacts, CharTyped DEF CodeChar, Opens
<1>2. /\ c \in Characters /\ c \notin Spaces /\ c = Lower(c)
      /\ within' = next
      /\ \A char \in {"-", "/", "*"} : c = char <=> Char = char
  BY <1>1 DEF Lower, Characters, Quotes, Spaces
<1>3. normalized' = t
  BY CodeCharAppends
<1>4. /\ next \in Modes /\ next # "gap"
      /\ next \in Quotes \/ next = "code"
  BY DEF Modes, Quotes
<1>5. /\ Reading(normalized, mode) /\ mode[Len(normalized)] \notin Quotes
      /\ mode[Len(normalized)] # "gap"
      /\ mode[Len(normalized)] \in Modes
      /\ mode[0] = "start"
  <2>1. Len(normalized) \in 0 .. Len(normalized)
    BY <1>1
  <2> QED
    BY <1>1, <2>1 DEF FirstScan, Reads, Reading, Quotes
<1>6. mode[Len(normalized)] = IF normalized = <<>> THEN "start" ELSE "code"
  <2>1. CASE normalized = <<>>
    BY <1>5, <2>1
  <2>2. CASE normalized # <<>>
    <3>1. mode[Len(normalized)] # "start"
      BY <1>1, <1>5, <2>2, OnceStarted
    <3> QED
      BY <1>5, <2>2, <3>1 DEF Modes
  <2> QED
    BY <2>1, <2>2
<1> HIDE DEF c, next
<1>7. \E m : /\ before \in Seq(Characters) /\ Reading(before, m)
             /\ Follows(m[Len(before)], before[Len(before)], c, next)
  <2>1. CASE pending_space
    <3> DEFINE gap == Append(normalized, " ")
    <3>1. mode[Len(normalized)] = "code" /\ "gap" \in Modes /\ " " \in Characters
      BY <1>6, <2>1 DEF FirstScan, Modes, Characters, Spaces
    <3>2. Follows(mode[Len(normalized)], normalized[Len(normalized)], " ", "gap")
      BY <3>1 DEF Follows, Quotes, Spaces
    <3>3. gap \in Seq(Characters)
      BY <1>1, <3>1, AppendTyped
    <3>6. \E m : Reading(gap, m) /\ m[Len(gap)] = "gap"
      <4>1. ASSUME NEW char \in Characters, NEW to \in Modes,
                   Follows(mode[Len(normalized)], normalized[Len(normalized)], char, to)
            PROVE  \E m : Reading(Append(normalized, char), m)
                         /\ m[Len(Append(normalized, char))] = to
        BY <1>1, <1>5, <4>1, ReadsOn
      <4> QED
        BY <3>1, <3>2, <4>1
    <3> HIDE DEF gap
    <3>4. PICK m : Reading(gap, m) /\ m[Len(gap)] = "gap"
      BY <3>6
    <3>5. Follows(m[Len(gap)], gap[Len(gap)], c, next)
      BY <1>2, <3>4 DEF Follows, Quotes, next
    <3> QED
      BY <2>1, <3>3, <3>4, <3>5 DEF gap, Spaced
  <2>2. CASE ~pending_space
    <3>1. normalized # <<>> =>
            /\ ~(normalized[Len(normalized)] = "-" /\ Char = "-")
            /\ ~(normalized[Len(normalized)] = "/" /\ Char = "*")
      BY <1>1, <2>2 DEF FirstScan
    <3>2. Follows(mode[Len(normalized)], normalized[Len(normalized)], c, next)
      BY <1>2, <1>6, <3>1 DEF Follows, Quotes, next
    <3> QED
      BY <1>1, <1>5, <2>2, <3>2 DEF Spaced
  <2> QED
    BY <2>1, <2>2
<1> HIDE DEF before
<1>8. PICK m : /\ before \in Seq(Characters) /\ Reading(before, m)
               /\ Follows(m[Len(before)], before[Len(before)], c, next)
  BY <1>7
<1>9. t[Len(t)] = c /\ \E m1 : Reading(t, m1) /\ m1[Len(t)] = next
  BY <1>2, <1>4, <1>8, ReadsOn
<1> HIDE DEF t
<1>10. Left' => /\ ~(Char = "-" /\ Char' = "-")
                /\ ~(Char = "/" /\ Char' = "*")
  <2>1. Left' => index < Len(sql)
    BY <1>1, ScanFacts DEF Left
  <2>2. Char' = sql[index + 1]
    BY <1>1 DEF Char
  <2> QED
    BY <1>1, <2>1, <2>2 DEF Ahead
<1>11. PICK m1 : Reading(t, m1) /\ m1[Len(t)] = next
  BY <1>9
<1>12. /\ Reads(normalized', m1) /\ m1[Len(normalized')] = within'
       /\ normalized'[Len(normalized')] = c
  BY <1>2, <1>3, <1>4, <1>9, <1>11 DEF Reads
<1>13. FirstScan(m1)'
  BY <1>1, <1>2, <1>10, <1>12 DEF FirstScan
<1> QED
  BY <1>13

LEMMA FirstScanStep ==
  ASSUME TypeOK, NEW mode, FirstScan(mode), [Next]_vars, UNCHANGED scans
  PROVE  \E m : FirstScan(m)'
<1>1. CASE QuotedChar
  BY <1>1, QuotedCharReads
<1>2. CASE CodeChar
  BY <1>2, CodeCharReads
<1>3. CASE OpenLine \/ OpenBlock
  <2>1. /\ within = "code" /\ within' \in {"line", "block"}
        /\ UNCHANGED <<normalized, pending_space>>
    BY <1>3 DEF OpenLine, OpenBlock, Opens
  <2>2. FirstScan(mode)'
    BY <2>1 DEF FirstScan, Quotes
  <2> QED
    BY <2>2
<1>4. CASE SkipInComment
  <2>1. FirstScan(mode)'
    BY <1>4 DEF SkipInComment, FirstScan, Quotes
  <2> QED
    BY <2>1
<1>5. CASE CloseComment \/ SkipSpace
  <2>1. /\ within' = "code" /\ within \notin Quotes /\ UNCHANGED normalized
        /\ pending_space' = (normalized # <<>>)
    BY <1>5 DEF CloseComment, CommentEnds, SkipSpace, Quotes
  <2>2. FirstScan(mode)'
    BY <2>1 DEF FirstScan, Quotes
  <2> QED
    BY <2>2
<1>6. CASE Again
  BY <1>6, ScanFacts DEF Again, TypeOK
<1>7. CASE UNCHANGED vars
  <2>1. FirstScan(mode)'
    BY <1>7 DEF vars, FirstScan, Left, Char
  <2> QED
    BY <2>1
<1> QED
  BY <1>1, <1>2, <1>3, <1>4, <1>5, <1>6, <1>7 DEF Next

-----------------------------------------------------------------------------
(* The second scan *)

\* What a template holds where the second scan stands.
LEMMA NextFollows ==
  ASSUME TypeOK, NEW mode, SecondScan(mode), Left
  PROVE  /\ Char \in Characters
         /\ index \in 1 .. Len(sql)
         /\ mode[index - 1] \in Modes /\ mode[index] \in Modes
         /\ Follows(mode[index - 1], sql[index - 1], Char, mode[index])
         /\ Ahead(Char) => Follows(mode[index], Char, sql[index + 1], mode[index + 1])
         /\ \A char : Ahead(char) => Follows(mode[index], Char, char, mode[index + 1])
<1>1. /\ index \in 1 .. Len(sql) /\ index - 1 \in 0 .. Len(sql) /\ index \in 0 .. Len(sql)
      /\ index < Len(sql) => index + 1 \in 1 .. Len(sql) /\ (index + 1) - 1 = index
  BY ScanFacts DEF Left
<1>2. /\ mode \in [0 .. Len(sql) -> Modes]
      /\ \A k \in 1 .. Len(sql) : Follows(mode[k - 1], sql[k - 1], sql[k], mode[k])
  BY DEF SecondScan, Reads, Reading
<1>3. Follows(mode[index - 1], sql[index - 1], Char, mode[index])
  BY <1>1, <1>2 DEF Char
<1>4. ASSUME NEW char, Ahead(char)
      PROVE  Follows(mode[index], Char, char, mode[index + 1])
  BY <1>1, <1>2, <1>4 DEF Ahead, Char
<1> QED
  BY <1>1, <1>2, <1>3, <1>4, CharTyped DEF Ahead

\* Nothing opens a comment in a template.
LEMMA NoCommentInTemplate ==
  ASSUME TypeOK, NEW mode, SecondScan(mode)
  PROVE  ~Opens("-", "-") /\ ~Opens("/", "*") /\ ~CommentEnds /\ ~SkipInComment
<1>1. within = "code" \/ within \in Quotes
  BY DEF SecondScan
<1>2. ~CommentEnds /\ ~SkipInComment
  BY <1>1 DEF CommentEnds, SkipInComment, Quotes
<1>3. ASSUME NEW first \in {"-", "/"}, NEW second \in {"-", "*"}, Opens(first, second),
             first = "-" <=> second = "-"
      PROVE  FALSE
  <2>1. within = "code" /\ Left /\ Char = first /\ Ahead(second)
    BY <1>3 DEF Opens
  <2>2. mode[index - 1] \notin Quotes
    BY <2>1 DEF SecondScan, Quotes
  <2>3. Follows(mode[index - 1], sql[index - 1], Char, mode[index])
        /\ Follows(mode[index], Char, second, mode[index + 1])
    BY <2>1, NextFollows
  <2>4. mode[index] = "code"
    BY <2>1, <2>2, <2>3 DEF Follows, Quotes, Spaces
  <2> QED
    BY <1>3, <2>1, <2>3, <2>4 DEF Follows, Quotes, Spaces
<1> QED
  BY <1>2, <1>3

LEMMA CopiesOn ==
  ASSUME NEW s \in Seq(Characters), NEW t \in Seq(Characters), NEW n \in 1 .. Len(t),
         Len(s) = n - 1, \A k \in 1 .. n - 1 : s[k] = t[k]
  PROVE  /\ Append(s, t[n]) \in Seq(Characters)
         /\ Len(Append(s, t[n])) = n
         /\ \A k \in 1 .. n : Append(s, t[n])[k] = t[k]
<1>1. t[n] \in Characters
  OBVIOUS
<1> DEFINE c == t[n]
<1>2. /\ Append(s, c) \in Seq(Characters) /\ Len(Append(s, c)) = Len(s) + 1
      /\ Append(s, c)[Len(s) + 1] = c /\ \A k \in 1 .. Len(s) : Append(s, c)[k] = s[k]
  BY <1>1
<1>3. n \in Nat /\ Len(s) + 1 = n
  OBVIOUS
<1> QED
  BY <1>2, <1>3

\* The scan copies a character, after the gap that was still to come.
LEMMA Copied ==
  ASSUME TypeOK, NEW mode, SecondScan(mode), Left
  PROVE  /\ Len(Append(Spaced, Char)) = index
         /\ \A k \in 1 .. index : Append(Spaced, Char)[k] = sql[k]
<1>1. /\ index \in 1 .. Len(sql) /\ Len(sql) \in Nat /\ sql \in Seq(Characters)
      /\ normalized \in Seq(Characters)
  BY ScanFacts DEF Left
<1>2. /\ Len(normalized) = IF pending_space THEN index - 2 ELSE index - 1
      /\ \A k \in 1 .. Len(normalized) : normalized[k] = sql[k]
  BY DEF SecondScan
<1>3. /\ Spaced \in Seq(Characters) /\ Len(Spaced) = index - 1
      /\ \A k \in 1 .. index - 1 : Spaced[k] = sql[k]
  <2>1. CASE pending_space
    <3>1. mode[index - 1] = "gap"
      BY <2>1 DEF SecondScan
    <3>2. Reading(sql, mode) /\ mode[0] = "start"
      BY DEF SecondScan, Reads, Reading
    <3>3. index # 1
      <4>1. mode[index - 1] # mode[0]
        BY <3>1, <3>2
      <4> QED
        BY <4>1
    <3>4. index - 1 \in 1 .. Len(sql)
      BY <1>1, <3>3
    <3>5. sql[index - 1] = " "
      BY <1>1, <3>1, <3>2, <3>4, OnceStarted
    <3>6. /\ Len(normalized) = (index - 1) - 1
          /\ \A k \in 1 .. (index - 1) - 1 : normalized[k] = sql[k]
      <4>1. Len(normalized) = index - 2
        BY <1>2, <2>1
      <4>2. (index - 1) - 1 = index - 2
        BY <1>1
      <4> QED
        BY <1>2, <4>1, <4>2
    <3>7. Spaced = Append(normalized, sql[index - 1])
      BY <2>1, <3>5 DEF Spaced
    <3> QED
      BY <1>1, <3>4, <3>6, <3>7, CopiesOn
  <2>2. CASE ~pending_space
    <3>1. Spaced = normalized
      BY <2>2 DEF Spaced
    <3>2. Len(normalized) = index - 1
      BY <1>2, <2>2
    <3> QED
      BY <1>1, <1>2, <3>1, <3>2
  <2> QED
    BY <2>1, <2>2
<1> QED
  BY <1>1, <1>3, CopiesOn DEF Char

LEMMA SecondScanStep ==
  ASSUME TypeOK, NEW mode, SecondScan(mode), [Next]_vars, scans = 2
  PROVE  SecondScan(mode)'
<1>1. /\ index \in Nat /\ 1 <= index /\ Len(sql) \in Nat /\ normalized \in Seq(Characters)
      /\ (index + 1) - 1 = index /\ (index + 1) - 2 = index - 1
      /\ (index + 2) - 1 = index + 1 /\ (index + 2) - 2 = index
  BY ScanFacts
<1>2. CASE SkipSpace
  <2>1. /\ within = "code" /\ Left /\ Char \in Spaces /\ index' = index + 1
        /\ pending_space' = (normalized # <<>>)
        /\ UNCHANGED <<sql, normalized, within>>
    BY <1>2 DEF SkipSpace
  <2>2. mode[index - 1] \notin Quotes
    BY <2>1 DEF SecondScan, Quotes
  <2>3. Follows(mode[index - 1], sql[index - 1], Char, mode[index])
    BY <2>1, NextFollows
  <2>4. mode[index - 1] = "code" /\ mode[index] = "gap"
    BY <2>1, <2>2, <2>3 DEF Follows
  <2>5. ~pending_space /\ Len(normalized) = index - 1 /\ mode[0] = "start"
    BY <2>4 DEF SecondScan, Reads, Reading
  <2>6. index # 1
    <3>1. mode[index - 1] # mode[0]
      BY <2>4, <2>5
    <3> QED
      BY <3>1
  <2>7. normalized # <<>>
    BY <1>1, <2>5, <2>6
  <2>8. Len(normalized') = index' - 2
    BY <1>1, <2>1, <2>5
  <2>9. mode[index' - 1] = "gap" /\ pending_space' /\ within' = "code"
    BY <1>1, <2>1, <2>4, <2>7
  <2>10. /\ Reads(sql, mode)' /\ \A k \in 1 .. Len(normalized') : normalized'[k] = sql'[k]
    BY <2>1 DEF SecondScan, Reads
  <2> QED
    BY <2>8, <2>9, <2>10 DEF SecondScan, Quotes
<1>3. CASE CodeChar
  <2>1. /\ within = "code" /\ Left /\ Char \notin Spaces /\ index' = index + 1
        /\ pending_space' = FALSE /\ within' = (IF Char \in Quotes THEN Char ELSE "code")
        /\ sql' = sql
    BY <1>3 DEF CodeChar
  <2>2. mode[index - 1] \notin Quotes
    BY <2>1 DEF SecondScan, Quotes
  <2>3. Follows(mode[index - 1], sql[index - 1], Char, mode[index])
    BY <2>1, NextFollows
  <2>4. /\ Char = Lower(Char)
        /\ mode[index] = IF Char \in Quotes THEN Char ELSE "code"
    BY <2>1, <2>2, <2>3 DEF Follows
  <2>5. normalized' = Append(Spaced, Char)
    BY <1>3, <2>4, CodeCharAppends
  <2>6. Len(normalized') = index /\ \A k \in 1 .. index : normalized'[k] = sql[k]
    BY <2>1, <2>5, Copied
  <2>7. Len(normalized') = index' - 1 /\ \A k \in 1 .. Len(normalized') : normalized'[k] = sql'[k]
    BY <1>1, <2>1, <2>6
  <2>8. mode[index' - 1] = within' /\ within' # "gap" /\ ~pending_space'
        /\ (within' \in Quotes \/ within' = "code")
    BY <1>1, <2>1, <2>4 DEF Quotes
  <2>9. Reads(sql, mode)'
    BY <2>1 DEF SecondScan, Reads
  <2> QED
    BY <2>7, <2>8, <2>9 DEF SecondScan
<1>4. CASE QuotedChar
  <2>1. /\ within \in Quotes /\ Left /\ UNCHANGED <<sql, pending_space>>
        /\ mode[index - 1] = within /\ within # "gap" /\ within # "code"
    BY <1>4 DEF QuotedChar, SecondScan, Quotes
  <2>2. ~pending_space /\ Reads(sql, mode)'
    BY <2>1 DEF SecondScan, Reads
  <2>3. /\ Follows(within, sql[index - 1], Char, mode[index])
        /\ \A char : Ahead(char) => Follows(mode[index], Char, char, mode[index + 1])
        /\ index \in 1 .. Len(sql) /\ Char \in Characters
    BY <2>1, NextFollows
  <2>4. /\ mode[index] = IF Char = within THEN "code" ELSE within
        /\ within = "\"" => Char = Lower(Char)
    BY <2>1, <2>3 DEF Follows
  <2>5. Append(normalized, Char) \in Seq(Characters)
        /\ Len(Append(normalized, Char)) = index
        /\ \A k \in 1 .. index : Append(normalized, Char)[k] = sql[k]
    <3>1. Len(normalized) = index - 1 /\ \A k \in 1 .. index - 1 : normalized[k] = sql[k]
      BY <2>2 DEF SecondScan
    <3> QED
      BY <1>1, <2>3, <3>1, ScanFacts, CopiesOn DEF Char
  <2>6. CASE Char = within /\ Ahead(within)
    <3>1. /\ normalized' = Append(Append(normalized, Char), Char)
          /\ index' = index + 2 /\ within' = within
      BY <1>1, <1>4, <2>3, <2>6, AppendTyped DEF QuotedChar
    <3>2. index + 1 \in 1 .. Len(sql) /\ sql[index + 1] = Char
      BY <1>1, <2>6 DEF Ahead
    <3>3. /\ Len(normalized') = index + 1
          /\ \A k \in 1 .. index + 1 : normalized'[k] = sql[k]
      <4>1. Len(Append(normalized, Char)) = (index + 1) - 1
        BY <1>1, <2>5
      <4>2. \A k \in 1 .. (index + 1) - 1 : Append(normalized, Char)[k] = sql[k]
        BY <1>1, <2>5
      <4>3. normalized' = Append(Append(normalized, Char), sql[index + 1])
        BY <3>1, <3>2
      <4> QED
        BY <2>5, <3>2, <4>1, <4>2, <4>3, ScanFacts, CopiesOn
    <3>4. mode[index + 1] = within
      <4>1. mode[index] = "code" /\ Follows("code", Char, within, mode[index + 1])
        BY <2>3, <2>4, <2>6
      <4> QED
        BY <2>1, <4>1 DEF Follows, Quotes, Spaces
    <3>5. Len(normalized') = index' - 1 /\ \A k \in 1 .. Len(normalized') : normalized'[k] = sql'[k]
      BY <1>1, <2>1, <3>1, <3>3
    <3>6. mode[index' - 1] = within' /\ within' \in Quotes /\ within' # "gap"
      BY <1>1, <2>1, <3>1, <3>4
    <3>7. ~pending_space'
      BY <2>1, <2>2, Zenon
    <3> QED
      BY <2>2, <3>5, <3>6, <3>7 DEF SecondScan
  <2>7. CASE ~(Char = within /\ Ahead(within))
    <3>1. /\ normalized' = Append(normalized, Kept(Char)) /\ index' = index + 1
          /\ within' = IF Char = within THEN "code" ELSE within
      BY <1>4, <2>7 DEF QuotedChar
    <3>2. Kept(Char) = Char
      BY <2>1, <2>4 DEF Kept, Quotes
    <3>3. Len(normalized') = index' - 1 /\ \A k \in 1 .. Len(normalized') : normalized'[k] = sql'[k]
      BY <1>1, <2>1, <2>5, <3>1, <3>2
    <3>4. mode[index' - 1] = within' /\ within' # "gap" /\ (within' \in Quotes \/ within' = "code")
      BY <1>1, <2>1, <2>4, <3>1
    <3>5. ~pending_space'
      BY <2>1, <2>2, Zenon
    <3> QED
      BY <2>2, <3>3, <3>4, <3>5 DEF SecondScan
  <2> QED
    BY <2>6, <2>7
<1>5. CASE OpenLine \/ OpenBlock \/ SkipInComment \/ CloseComment
  BY <1>5, NoCommentInTemplate DEF OpenLine, OpenBlock, CloseComment
<1>6. CASE Again
  BY <1>6 DEF Again
<1>7. CASE UNCHANGED vars
  BY <1>7, Zenon DEF vars, SecondScan, Reads
<1> QED
  BY <1>2, <1>3, <1>4, <1>5, <1>6, <1>7 DEF Next

\* The scan of the result starts with what the first one left.
LEMMA SecondScanStarts ==
  ASSUME TypeOK, NEW mode, FirstScan(mode), Again
  PROVE  SecondScan(mode)'
<1>1. /\ sql' = normalized /\ index' = 1 /\ pending_space' = FALSE
      /\ normalized' = <<>> /\ within' = "code"
  BY DEF Again
<1>2. Reads(normalized, mode) /\ mode[0] = "start"
  BY DEF FirstScan, Reads, Reading
<1>3. Len(normalized') = index' - 1 /\ index' - 1 = 0
  BY <1>1
<1>4. \A k \in 1 .. Len(normalized') : normalized'[k] = sql'[k]
  BY <1>1
<1> QED
  BY <1>1, <1>2, <1>3, <1>4 DEF SecondScan, Reads, Quotes

-----------------------------------------------------------------------------
(* A template is its own template *)

LEMMA TemplateInit == Init => TemplateInv
<1> SUFFICES ASSUME Init PROVE TemplateInv
  OBVIOUS
<1> DEFINE mode == [k \in 0 .. 0 |-> "start"]
<1>1. normalized = <<>> /\ Len(normalized) = 0 /\ within = "code" /\ scans = 1
      /\ pending_space = FALSE
  BY DEF Init
<1>2. mode \in [0 .. 0 -> Modes] /\ mode[0] = "start"
  BY DEF Modes
<1> HIDE DEF mode
<1>3. Reads(normalized, mode)
  BY <1>1, <1>2 DEF Reads, Reading
<1>4. FirstScan(mode)
  BY <1>1, <1>2, <1>3 DEF FirstScan, Quotes
<1> QED
  BY <1>1, <1>4 DEF TemplateInv

LEMMA TemplateStep == TypeOK /\ TemplateInv /\ [Next]_vars => TemplateInv'
<1> SUFFICES ASSUME TypeOK, TemplateInv, [Next]_vars PROVE TemplateInv'
  OBVIOUS
<1>1. Again \/ UNCHANGED scans
  BY DEF Next, vars, QuotedChar, OpenLine, OpenBlock, SkipInComment, CloseComment,
         SkipSpace, CodeChar
<1>2. CASE scans = 1
  <2>1. PICK mode : FirstScan(mode)
    BY <1>2 DEF TemplateInv
  <2>2. CASE UNCHANGED scans
    BY <1>2, <2>1, <2>2, FirstScanStep DEF TemplateInv
  <2>3. CASE Again
    <3>1. SecondScan(mode)' /\ scans' = 2
      BY <2>1, <2>3, SecondScanStarts DEF Again
    <3> QED
      BY <3>1 DEF TemplateInv
  <2> QED
    BY <1>1, <2>2, <2>3
<1>3. CASE scans = 2
  <2>1. PICK mode : SecondScan(mode)
    BY <1>3 DEF TemplateInv
  <2>2. SecondScan(mode)' /\ scans' = 2
    BY <1>1, <1>3, <2>1, SecondScanStep DEF Again
  <2> QED
    BY <2>2 DEF TemplateInv
<1> QED
  BY <1>2, <1>3 DEF TypeOK

LEMMA TemplateIsItsOwn == TypeOK /\ TemplateInv => TemplatesStand
<1> SUFFICES ASSUME TypeOK, TemplateInv, Done, scans = 2 PROVE normalized = sql
  BY DEF TemplatesStand
<1>1. PICK mode : SecondScan(mode)
  BY DEF TemplateInv
<1>2. index - 1 = Len(sql)
  BY ScanFacts DEF Done, Left
<1>3. ~pending_space /\ Len(normalized) = Len(sql)
  BY <1>1, <1>2 DEF SecondScan, Reads
<1>4. \A k \in 1 .. Len(normalized) : normalized[k] = sql[k]
  BY <1>1 DEF SecondScan
<1> QED
  BY <1>3, <1>4, ScanFacts

\* A template is its own template, whatever the text and however long: what the
\* two scans see of it is the same, so the occurrences of a statement and of its
\* template are counted, drawn and hidden under one name (normalize_sql).
THEOREM TemplatesAlwaysStand == Spec => []TemplatesStand
<1>1. TypeOK /\ TemplateInv /\ [Next]_vars => (TypeOK /\ TemplateInv)'
  BY TypeStep, TemplateStep
<1> QED
  BY <1>1, TypeInit, TemplateInit, TemplateIsItsOwn, PTL DEF Spec

-----------------------------------------------------------------------------
(* Pieces *)

LEMMA OnePiece ==
  ASSUME NEW starts \in SUBSET Nat, NEW k \in Nat, NEW i, NEW j,
         InPiece(starts, i, k), InPiece(starts, j, k)
  PROVE  i = j
BY DEF InPiece

\* A count goes up with each character that counts.
LEMMA CountOn ==
  ASSUME NEW s, NEW char, NEW from \in Nat, NEW n \in Nat, from <= n + 1
  PROVE  /\ Count(s, char, from, n) \in Nat
         /\ s[n + 1] = char => Count(s, char, from, n + 1) = Count(s, char, from, n) + 1
         /\ s[n + 1] # char => Count(s, char, from, n + 1) = Count(s, char, from, n)
<1> DEFINE here == {k \in from .. n : s[k] = char}
           there == {k \in from .. n + 1 : s[k] = char}
<1>1. IsFiniteSet(here)
  <2>1. IsFiniteSet(from .. n)
    BY FS_Interval
  <2> QED
    BY <2>1, FS_Subset
<1>2. CASE s[n + 1] = char
  <2>1. there = here \cup {n + 1} /\ n + 1 \notin here
    BY <1>2
  <2> HIDE DEF here, there
  <2> QED
    BY <1>1, <1>2, <2>1, FS_AddElement, FS_CardinalityType DEF Count, here, there
<1>3. CASE s[n + 1] # char
  <2>1. there = here
    BY <1>3
  <2>2. Count(s, char, from, n + 1) = Count(s, char, from, n) /\ Count(s, char, from, n) = Cardinality(here)
    BY <2>1 DEF Count
  <2> HIDE DEF here, there
  <2> QED
    BY <1>1, <1>3, <2>2, FS_CardinalityType
<1> QED
  BY <1>2, <1>3

LEMMA CountsOne ==
  ASSUME NEW s, NEW n \in Nat
  PROVE  Count(s, s[n + 1], n + 1, n + 1) = 1
<1>1. {k \in n + 1 .. n : s[k] = s[n + 1]} = {}
  OBVIOUS
<1>2. Count(s, s[n + 1], n + 1, n) = 0
  BY <1>1, FS_EmptySet DEF Count
<1> QED
  BY <1>2, CountOn

LEMMA Parity ==
  ASSUME NEW n \in Nat
  PROVE  /\ n % 2 = 1 <=> (n + 1) % 2 = 0
         /\ n % 2 = 0 <=> (n + 1) % 2 = 1
         /\ n % 2 # 1 <=> n % 2 = 0
         /\ 1 % 2 = 1
OBVIOUS

\* Where two texts begin alike they are lexed alike.
LEMMA ClosesAlike ==
  ASSUME NEW s \in Seq(Characters), NEW t \in Seq(Characters), NEW n \in Nat,
         n <= Len(s), n <= Len(t), \A k \in 1 .. n : s[k] = t[k],
         NEW i \in 1 .. n, NEW k \in i .. n - 1
  PROVE  Closes(s, i, k) <=> Closes(t, i, k)
<1>1. s[i] = t[i] /\ s[k] = t[k] /\ s[k + 1] = t[k + 1] /\ k < Len(s) /\ k < Len(t)
  OBVIOUS
<1>2. \A char : {j \in i .. k : s[j] = char} = {j \in i .. k : t[j] = char}
  OBVIOUS
<1>3. Count(s, s[i], i, k) = Count(t, t[i], i, k)
  BY <1>1, <1>2 DEF Count
<1>4. \A first, second : Pair(s, i, first, second) <=> Pair(t, i, first, second)
  <2>1. i + 1 \in 1 .. n /\ i < Len(s) /\ i < Len(t)
    OBVIOUS
  <2>2. s[i + 1] = t[i + 1]
    BY <2>1
  <2> QED
    BY <1>1, <2>1, <2>2 DEF Pair
<1>5. i + 3 <= k => (Pair(s, k - 1, "*", "/") <=> Pair(t, k - 1, "*", "/"))
  <2> SUFFICES ASSUME i + 3 <= k PROVE Pair(s, k - 1, "*", "/") <=> Pair(t, k - 1, "*", "/")
    OBVIOUS
  <2>1. k - 1 < Len(s) /\ k - 1 < Len(t) /\ s[k - 1] = t[k - 1] /\ s[(k - 1) + 1] = t[(k - 1) + 1]
    OBVIOUS
  <2> QED
    BY <2>1 DEF Pair
<1> QED
  BY <1>1, <1>3, <1>4, <1>5 DEF Closes

LEMMA LexedAlike ==
  ASSUME NEW s \in Seq(Characters), NEW t \in Seq(Characters), NEW n \in Nat,
         n <= Len(s), n <= Len(t), \A k \in 1 .. n : s[k] = t[k],
         NEW starts, Lexed(s, starts, n)
  PROVE  Lexed(t, starts, n)
<1>1. ASSUME NEW i \in starts, NEW k \in i .. n - 1, InPiece(starts, i, k)
      PROVE  k + 1 \in starts <=> Closes(t, i, k)
  <2>1. i \in 1 .. n
    BY DEF Lexed
  <2>2. Closes(s, i, k) <=> Closes(t, i, k)
    BY <2>1, ClosesAlike
  <2> QED
    BY <1>1, <2>2 DEF Lexed
<1> QED
  BY <1>1 DEF Lexed

\* The piece of a character that starts one is its own.
LEMMA StartsAnew ==
  ASSUME NEW n \in Nat, NEW starts \in SUBSET (1 .. n)
  PROVE  \A i : InPiece(starts \cup {n + 1}, i, n + 1) <=> i = n + 1
<1> DEFINE more == starts \cup {n + 1}
<1>1. \A j \in starts : j \in Nat /\ j <= n
  OBVIOUS
<1>2. n + 1 \in more /\ (\A j : j \in more => j \in starts \/ j = n + 1) /\ n + 1 \in Nat
  OBVIOUS
<1> HIDE DEF more
<1>3. ASSUME NEW i PROVE InPiece(more, i, n + 1) <=> i = n + 1
  <2>1. i = n + 1 => InPiece(more, i, n + 1)
    BY <1>2 DEF InPiece
  <2>2. i \in starts => ~InPiece(more, i, n + 1)
    <3>1. i \in starts => n + 1 \in i + 1 .. n + 1
      BY <1>1
    <3> QED
      BY <1>2, <3>1 DEF InPiece
  <2> QED
    BY <1>2, <2>1, <2>2 DEF InPiece
<1> QED
  BY <1>3 DEF more

\* The piece of the next character is known when it is known whether the one
\* before it closes.
LEMMA PiecesOn ==
  ASSUME NEW n \in Nat, NEW starts \in SUBSET (1 .. n), NEW more,
         more = starts \/ more = starts \cup {n + 1}
  PROVE  /\ more \in SUBSET (1 .. n + 1)
         /\ \A k \in 1 .. n : \A i : InPiece(more, i, k) <=> InPiece(starts, i, k)
         /\ n + 1 \in more => \A i : InPiece(more, i, n + 1) <=> i = n + 1
         /\ n + 1 \notin more => \A i : InPiece(more, i, n + 1) <=> InPiece(starts, i, n)
<1>1. /\ \A j \in starts : j \in Nat /\ 1 <= j /\ j <= n
      /\ \A j : j \in more <=> j \in starts \/ (n + 1 \in more /\ j = n + 1)
  OBVIOUS
<1>2. more \in SUBSET (1 .. n + 1)
  <2>1. ASSUME NEW j \in more PROVE j \in 1 .. n + 1
    <3>1. j \in starts \/ j = n + 1
      BY <1>1
    <3>2. j \in starts => j \in 1 .. n + 1
      BY <1>1
    <3> QED
      BY <3>1, <3>2
  <2> QED
    BY <2>1
<1>3. ASSUME NEW k \in 1 .. n, NEW i
      PROVE  InPiece(more, i, k) <=> InPiece(starts, i, k)
  <2>1. k \in Nat /\ k <= n /\ \A j \in i + 1 .. k : j # n + 1
    OBVIOUS
  <2>2. i <= k => i # n + 1
    BY <2>1
  <2> QED
    BY <1>1, <2>1, <2>2 DEF InPiece
<1>4. ASSUME n + 1 \in more, NEW i
      PROVE  InPiece(more, i, n + 1) <=> i = n + 1
  <2>1. more = starts \cup {n + 1}
    BY <1>4
  <2> QED
    BY <2>1, StartsAnew
<1>5. ASSUME n + 1 \notin more, NEW i
      PROVE  InPiece(more, i, n + 1) <=> InPiece(starts, i, n)
  <2>1. more = starts
    BY <1>5
  <2>2. ASSUME i \in starts PROVE InPiece(starts, i, n + 1) <=> InPiece(starts, i, n)
    <3>1. i \in Nat /\ i <= n
      BY <1>1, <2>2
    <3>2. \A j \in i + 1 .. n + 1 : j \in i + 1 .. n \/ j = n + 1
      BY <3>1
    <3>3. \A j \in i + 1 .. n : j \in i + 1 .. n + 1
      BY <3>1
    <3> QED
      BY <1>5, <2>1, <3>1, <3>2, <3>3 DEF InPiece
  <2> QED
    BY <2>1, <2>2 DEF InPiece
<1> QED
  BY <1>2, <1>3, <1>4, <1>5

LEMMA LexedOn ==
  ASSUME NEW s, NEW n \in Nat, NEW starts, Lexed(s, starts, n), NEW more,
         more = starts \/ more = starts \cup {n + 1},
         n = 0 => n + 1 \in more,
         \A b \in starts : InPiece(starts, b, n) => (n + 1 \in more <=> Closes(s, b, n))
  PROVE  Lexed(s, more, n + 1)
<1>1. starts \in SUBSET (1 .. n)
  BY DEF Lexed
<1>2. ASSUME NEW i \in more, NEW k \in i .. n, InPiece(more, i, k)
      PROVE  k + 1 \in more <=> Closes(s, i, k)
  <2>1. i \in 1 .. n /\ k \in 1 .. n
    <3>1. i \in 1 .. n + 1
      BY <1>1, PiecesOn
    <3> QED
      BY <3>1
  <2>2. i \in starts /\ InPiece(starts, i, k)
    BY <1>1, <1>2, <2>1, PiecesOn
  <2>3. CASE k = n
    BY <2>2, <2>3
  <2>4. CASE k # n
    <3>1. k \in i .. n - 1 /\ k + 1 # n + 1
      BY <2>1, <2>4
    <3>2. k + 1 \in more <=> k + 1 \in starts
      BY <3>1
    <3> QED
      BY <2>2, <3>1, <3>2 DEF Lexed
  <2> QED
    BY <2>3, <2>4
<1>3. (n + 1) - 1 = n
  OBVIOUS
<1>4. 1 \in more
  <2>1. CASE n = 0
    BY <2>1
  <2>2. CASE n # 0
    BY <2>2 DEF Lexed
  <2> QED
    BY <2>1, <2>2
<1> QED
  BY <1>1, <1>2, <1>3, <1>4, PiecesOn DEF Lexed

\* A quoted piece goes on with its next character.
LEMMA QuotedOn ==
  ASSUME NEW s, NEW n \in Nat, NEW starts, Lexed(s, starts, n), NEW b \in starts,
         InPiece(starts, b, n), s[b] \in Quotes, Count(s, s[b], b, n) % 2 = 1
  PROVE  /\ Lexed(s, starts, n + 1) /\ InPiece(starts, b, n + 1)
         /\ Count(s, s[b], b, n + 1) % 2 = IF s[n + 1] = s[b] THEN 0 ELSE 1
<1>1. starts \in SUBSET (1 .. n) /\ b \in Nat /\ b <= n + 1 /\ n # 0 /\ n + 1 \notin starts
  BY DEF Lexed, InPiece
<1>2. ~Closes(s, b, n)
  BY DEF Closes
<1>3. ASSUME NEW i \in starts, InPiece(starts, i, n) PROVE ~Closes(s, i, n)
  <2>1. i = b
    BY <1>1, <1>3, OnePiece
  <2> QED
    BY <1>2, <2>1
<1>4. Lexed(s, starts, n + 1)
  BY <1>1, <1>3, LexedOn
<1>5. InPiece(starts, b, n + 1)
  BY <1>1, PiecesOn
<1>6. Count(s, s[b], b, n + 1) % 2 = IF s[n + 1] = s[b] THEN 0 ELSE 1
  BY <1>1, CountOn, Parity
<1> QED
  BY <1>4, <1>5, <1>6

-----------------------------------------------------------------------------
(* The reference *)

\* Numbers have a least one.
LEMMA LeastNumber ==
  ASSUME NEW S \in SUBSET Nat, S # {}
  PROVE  \E m \in S : \A k \in S : m <= k
<1> DEFINE R == OpToRel(<, Nat)
<1>1. IsWellFoundedOn(R, Nat)
  BY NatLessThanWellFounded
<1>2. \A k, m \in Nat : k < m => <<k, m>> \in R
  BY DEF OpToRel
<1> HIDE DEF R
<1>3. PICK m \in S : \A k \in S : <<k, m>> \notin R
  BY <1>1, WFMin
<1>4. ASSUME NEW k \in S PROVE m <= k
  <2>1. m \in Nat /\ k \in Nat
    OBVIOUS
  <2>2. ~(k < m)
    BY <1>2, <1>3, <2>1
  <2> QED
    BY <2>1, <2>2
<1> QED
  BY <1>4

\* Each character that follows a start belongs to a piece.
LEMMA SomePiece ==
  ASSUME NEW k \in Nat, NEW starts \in SUBSET Nat, NEW j \in starts, j <= k
  PROVE  \E i \in starts : InPiece(starts, i, k)
<1> DEFINE S == {d \in Nat : d <= k /\ k - d \in starts}
<1>1. k - j \in S
  OBVIOUS
<1>2. PICK m \in S : \A d \in S : m <= d
  <2>1. S \in SUBSET Nat /\ S # {}
    BY <1>1
  <2> HIDE DEF S
  <2> QED
    BY <2>1, LeastNumber
<1>3. k - m \in starts /\ m \in Nat /\ m <= k
  OBVIOUS
<1>4. ASSUME NEW l \in k - m + 1 .. k, l \in starts PROVE FALSE
  <2>1. k - l \in Nat /\ k - l <= k /\ k - (k - l) = l /\ k - l < m
    BY <1>3
  <2>2. k - l \in S
    BY <1>4, <2>1
  <2> QED
    BY <1>2, <1>3, <2>1, <2>2
<1>5. k - m <= k
  BY <1>3
<1> QED
  BY <1>3, <1>4, <1>5 DEF InPiece

\* A text falls into pieces in one way only, whatever the text: the reference
\* leaves the scan no choice (normalize_sql).
THEOREM OneLexing ==
  ASSUME NEW s, NEW n \in Nat, NEW A, NEW B, Lexed(s, A, n), Lexed(s, B, n)
  PROVE  A = B
<1>1. /\ A \in SUBSET (1 .. n) /\ B \in SUBSET (1 .. n)
      /\ n > 0 => 1 \in A /\ 1 \in B
  BY DEF Lexed
<1> DEFINE D == {k \in 1 .. n : (k \in A /\ k \notin B) \/ (k \in B /\ k \notin A)}
<1>2. SUFFICES ASSUME D # {} PROVE FALSE
  BY <1>1
<1>3. PICK m \in D : \A d \in D : m <= d
  <2>1. D \in SUBSET Nat
    OBVIOUS
  <2> HIDE DEF D
  <2> QED
    BY <1>2, <2>1, LeastNumber
<1>4. m \in 1 .. n /\ m # 1
  BY <1>1
<1>5. PICK k \in Nat : k + 1 = m /\ 1 <= k /\ k <= n - 1
  <2>1. m - 1 \in Nat /\ (m - 1) + 1 = m /\ 1 <= m - 1 /\ m - 1 <= n - 1
    BY <1>4
  <2> QED
    BY <2>1
<1>6. \A j \in 1 .. k : j \in A <=> j \in B
  BY <1>3, <1>5
<1>7. A \in SUBSET Nat /\ 1 \in A
  BY <1>1, <1>5
<1>8. PICK i \in A : InPiece(A, i, k)
  BY <1>5, <1>7, SomePiece
<1>9. i \in 1 .. k
  BY <1>1, <1>5, <1>8 DEF InPiece
<1>10. InPiece(B, i, k)
  <2>1. \A j \in i + 1 .. k : j \in 1 .. k
    BY <1>9
  <2> QED
    BY <1>6, <1>8, <1>9, <2>1 DEF InPiece
<1>11. k \in i .. n - 1 /\ i \in B
  BY <1>1, <1>5, <1>6, <1>9
<1>12. (k + 1 \in A <=> Closes(s, i, k)) /\ (k + 1 \in B <=> Closes(s, i, k))
  BY <1>8, <1>10, <1>11 DEF Lexed
<1> QED
  BY <1>3, <1>5, <1>12

-----------------------------------------------------------------------------
(* What is kept *)

\* How many characters the template has for those that are kept.
Size(kept) == Cardinality(kept) + Cardinality(Apart(kept))

\* Of a set that is counted up to its members, nothing moves when it goes on.
LEMMA CountedOn ==
  ASSUME NEW n \in Nat, NEW S \in SUBSET (1 .. n)
  PROVE  LET more == S \cup {n + 1}
         IN  /\ IsFiniteSet(S) /\ Cardinality(S) \in Nat
             /\ Cardinality(more) = Cardinality(S) + 1
             /\ UpTo(S, n + 1) = Cardinality(S)
             /\ UpTo(more, n + 1) = Cardinality(more)
             /\ \A k \in 1 .. n : /\ UpTo(S, k) \in 0 .. Cardinality(S)
                                  /\ UpTo(more, k) = UpTo(S, k)
                                  /\ k \in S => UpTo(S, k) # 0
<1> DEFINE more == S \cup {n + 1}
<1>1. \A j \in S : j \in Nat /\ 1 <= j /\ j <= n /\ j <= n + 1
  OBVIOUS
<1>2. IsFiniteSet(S) /\ Cardinality(S) \in Nat
  <2>1. IsFiniteSet(1 .. n)
    BY FS_Interval
  <2> QED
    BY <2>1, FS_Subset, FS_CardinalityType
<1>3. ASSUME NEW k \in 1 .. n
      PROVE  /\ UpTo(S, k) \in 0 .. Cardinality(S)
             /\ UpTo(more, k) = UpTo(S, k)
             /\ k \in S => UpTo(S, k) # 0
  <2> DEFINE here == {j \in S : j <= k}
  <2>1. here \in SUBSET S
    OBVIOUS
  <2>2. UpTo(more, k) = UpTo(S, k) /\ UpTo(S, k) = Cardinality(here)
    <3>1. k \in Nat /\ k <= n /\ ~(n + 1 <= k)
      OBVIOUS
    <3>2. {j \in more : j <= k} = here
      BY <3>1
    <3> QED
      BY <3>2 DEF UpTo
  <2>3. k \in S => here # {}
    OBVIOUS
  <2> HIDE DEF here
  <2>4. IsFiniteSet(here) /\ Cardinality(here) <= Cardinality(S) /\ Cardinality(here) \in Nat
    BY <1>2, <2>1, FS_Subset, FS_CardinalityType
  <2>5. k \in S => Cardinality(here) # 0
    BY <2>3, <2>4, FS_EmptySet
  <2>6. Cardinality(here) \in 0 .. Cardinality(S)
    BY <1>2, <2>4
  <2> QED
    BY <2>2, <2>5, <2>6
<1>4. {j \in S : j <= n + 1} = S /\ {j \in more : j <= n + 1} = more
  <2>1. \A j \in more : j <= n + 1
    <3>1. n + 1 <= n + 1
      OBVIOUS
    <3> QED
      BY <1>1, <3>1
  <2> QED
    BY <1>1, <2>1
<1>5. n + 1 \notin S
  BY <1>1
<1>6. Cardinality(more) = Cardinality(S) + 1
  BY <1>2, <1>5, FS_AddElement
<1> QED
  BY <1>2, <1>3, <1>4, <1>6 DEF UpTo

LEMMA ApartOn ==
  ASSUME NEW n \in Nat, NEW kept \in SUBSET (1 .. n)
  PROVE  /\ Apart(kept) \in SUBSET kept
         /\ kept = {} \/ n \in kept => Apart(kept \cup {n + 1}) = Apart(kept)
         /\ ~(kept = {} \/ n \in kept) => Apart(kept \cup {n + 1}) = Apart(kept) \cup {n + 1}
<1>1. \A j \in kept : j \in Nat /\ 1 <= j /\ j <= n
  OBVIOUS
<1> DEFINE more == kept \cup {n + 1}
<1>2. ASSUME NEW k \in kept
      PROVE  k \in Apart(more) <=> k \in Apart(kept)
  <2>1. k - 1 # n + 1 /\ ~(n + 1 < k)
    BY <1>1
  <2> QED
    BY <2>1 DEF Apart
<1>3. n + 1 \in Apart(more) <=> kept # {} /\ n \notin kept
  <2>1. (n + 1) - 1 = n /\ n # n + 1 /\ ~(n + 1 < n + 1)
    OBVIOUS
  <2>2. \A j \in kept : j < n + 1
    BY <1>1
  <2> QED
    BY <2>1, <2>2 DEF Apart
<1>4. Apart(more) \in SUBSET more /\ Apart(kept) \in SUBSET kept
  BY DEF Apart
<1> HIDE DEF more
<1>5. n + 1 \notin Apart(kept)
  BY <1>1, <1>4
<1>6. \A k : k \in Apart(more) => k \in kept \/ k = n + 1
  BY <1>4 DEF more
<1>7. CASE kept = {} \/ n \in kept
  <2>1. Apart(more) = Apart(kept)
    BY <1>2, <1>3, <1>4, <1>6, <1>7
  <2> QED
    BY <1>4, <1>7, <2>1 DEF more
<1>8. CASE ~(kept = {} \/ n \in kept)
  <2>1. Apart(more) = Apart(kept) \cup {n + 1}
    BY <1>2, <1>3, <1>4, <1>6, <1>8
  <2> QED
    BY <1>4, <1>8, <2>1 DEF more
<1> QED
  BY <1>7, <1>8

\* What is kept has a place of its own, and keeps it when more is kept; the next
\* character comes after it, or after the space of its gap.
LEMMA PlaceOn ==
  ASSUME NEW n \in Nat, NEW kept \in SUBSET (1 .. n)
  PROVE  LET more == kept \cup {n + 1}
             gap == IF kept = {} \/ n \in kept THEN 0 ELSE 1
         IN  /\ Size(kept) \in Nat /\ (Size(kept) = 0 <=> kept = {})
             /\ Size(more) = Size(kept) + gap + 1
             /\ Place(more, n + 1) = Size(more)
             /\ \A k \in kept : /\ Place(more, k) = Place(kept, k)
                                /\ Place(kept, k) \in 1 .. Size(kept)
             /\ \A k \in Apart(kept) : Place(kept, k) - 1 \in 1 .. Size(kept)
<1> DEFINE more == kept \cup {n + 1}
           gap == IF kept = {} \/ n \in kept THEN 0 ELSE 1
<1>1. Apart(kept) \in SUBSET kept /\ Apart(kept) \in SUBSET (1 .. n)
  BY ApartOn
<1>2. n + 1 \notin kept /\ n + 1 \notin Apart(kept) /\ \A k \in kept : k \in 1 .. n
  <2>1. n + 1 \notin 1 .. n
    OBVIOUS
  <2> QED
    BY <1>1, <2>1
<1>3. /\ Apart(more) = Apart(kept) \/ Apart(more) = Apart(kept) \cup {n + 1}
      /\ n + 1 \in Apart(more) <=> gap = 1
      /\ gap \in {0, 1}
  <2>1. Apart(more) = IF gap = 0 THEN Apart(kept) ELSE Apart(kept) \cup {n + 1}
    <3>1. gap = 0 <=> kept = {} \/ n \in kept
      OBVIOUS
    <3> HIDE DEF gap
    <3> QED
      BY <3>1, ApartOn
  <2>2. gap \in {0, 1}
    OBVIOUS
  <2> HIDE DEF more, gap
  <2> QED
    BY <1>2, <2>1, <2>2
<1>4. n + 1 \in more /\ more = kept \cup {n + 1}
  OBVIOUS
<1> HIDE DEF more, gap
<1>5. /\ IsFiniteSet(kept) /\ Cardinality(kept) \in Nat
      /\ Cardinality(more) = Cardinality(kept) + 1
      /\ UpTo(more, n + 1) = Cardinality(more)
      /\ \A k \in kept : /\ UpTo(more, k) = UpTo(kept, k)
                         /\ UpTo(kept, k) \in 0 .. Cardinality(kept) /\ UpTo(kept, k) # 0
  BY <1>2, <1>4, CountedOn
<1>6. /\ Cardinality(Apart(kept)) \in Nat
      /\ Cardinality(Apart(more)) = Cardinality(Apart(kept)) + gap
      /\ UpTo(Apart(more), n + 1) = Cardinality(Apart(more))
      /\ \A k \in kept : /\ UpTo(Apart(more), k) = UpTo(Apart(kept), k)
                         /\ UpTo(Apart(kept), k) \in 0 .. Cardinality(Apart(kept))
                         /\ k \in Apart(kept) => UpTo(Apart(kept), k) # 0
  <2>1. ASSUME NEW S \in SUBSET (1 .. n), NEW T,
               T = S \/ T = S \cup {n + 1}, n + 1 \in T <=> gap = 1
        PROVE  /\ Cardinality(S) \in Nat
               /\ Cardinality(T) = Cardinality(S) + gap
               /\ UpTo(T, n + 1) = Cardinality(T)
               /\ \A k \in 1 .. n : /\ UpTo(T, k) = UpTo(S, k)
                                    /\ UpTo(S, k) \in 0 .. Cardinality(S)
                                    /\ k \in S => UpTo(S, k) # 0
    <3>1. CASE T = S
      <4>1. gap = 0
        BY <1>2, <1>3, <2>1, <3>1
      <4>2. Cardinality(S) \in Nat /\ UpTo(S, n + 1) = Cardinality(S)
        BY CountedOn
      <4>3. Cardinality(S) = Cardinality(S) + gap
        BY <4>1, <4>2
      <4> QED
        BY <3>1, <4>2, <4>3, CountedOn
    <3>2. CASE T = S \cup {n + 1}
      <4>1. gap = 1
        BY <2>1, <3>2
      <4> QED
        BY <3>2, <4>1, CountedOn
    <3> QED
      BY <2>1, <3>1, <3>2
  <2> DEFINE T == Apart(more)
  <2>2. T = Apart(kept) \/ T = Apart(kept) \cup {n + 1}
    BY <1>3
  <2>3. n + 1 \in T <=> gap = 1
    BY <1>3
  <2>4. /\ Cardinality(Apart(kept)) \in Nat
        /\ Cardinality(T) = Cardinality(Apart(kept)) + gap
        /\ UpTo(T, n + 1) = Cardinality(T)
        /\ \A k \in 1 .. n : /\ UpTo(T, k) = UpTo(Apart(kept), k)
                             /\ UpTo(Apart(kept), k) \in 0 .. Cardinality(Apart(kept))
                             /\ k \in Apart(kept) => UpTo(Apart(kept), k) # 0
    <3> HIDE DEF T
    <3> QED
      BY <1>1, <2>1, <2>2, <2>3
  <2> QED
    BY <1>2, <2>4, Zenon
<1>7. Place(more, n + 1) = Size(more)
  BY <1>5, <1>6 DEF Place, Size
<1>8. ASSUME NEW k \in kept
      PROVE  /\ Place(more, k) = Place(kept, k)
             /\ Place(kept, k) \in 1 .. Size(kept)
             /\ k \in Apart(kept) => Place(kept, k) - 1 \in 1 .. Size(kept)
  BY <1>5, <1>6 DEF Place, Size
<1>9. Size(kept) \in Nat /\ (Size(kept) = 0 <=> kept = {})
  <2>1. kept = {} => Apart(kept) = {}
    BY <1>1
  <2>2. Cardinality(kept) = 0 <=> kept = {}
    BY <1>5, FS_EmptySet
  <2>3. kept = {} => Cardinality(Apart(kept)) = 0
    BY <2>1, FS_EmptySet
  <2> QED
    BY <1>5, <1>6, <2>2, <2>3 DEF Size
<1>10. Size(more) = Size(kept) + gap + 1
  BY <1>3, <1>5, <1>6 DEF Size
<1> QED
  BY <1>1, <1>7, <1>8, <1>9, <1>10 DEF more, gap

LEMMA AppendFacts ==
  ASSUME NEW s \in Seq(Characters), NEW c \in Characters
  PROVE  /\ Append(s, c) \in Seq(Characters) /\ Len(s) \in Nat
         /\ Len(Append(s, c)) = Len(s) + 1 /\ Append(s, c)[Len(s) + 1] = c
         /\ \A k \in 1 .. Len(s) : Append(s, c)[k] = s[k]
OBVIOUS

LEMMA TextsOn ==
  ASSUME NEW s, NEW n \in Nat, NEW starts \in SUBSET (1 .. n), NEW more,
         more = starts \/ more = starts \cup {n + 1},
         NEW b, InPiece(more, b, n + 1)
  PROVE  /\ IsText(s, b) => Texts(s, more, n + 1) = Texts(s, starts, n) \cup {n + 1}
         /\ ~IsText(s, b) => Texts(s, more, n + 1) = Texts(s, starts, n)
<1> DEFINE here == Texts(s, starts, n)
           there == Texts(s, more, n + 1)
<1>1. \A k : k \in 1 .. n + 1 <=> k \in 1 .. n \/ k = n + 1
  OBVIOUS
<1>2. n + 1 \notin 1 .. n
  OBVIOUS
<1>3. more \in SUBSET Nat /\ n + 1 \in Nat
  BY PiecesOn
<1>4. ASSUME NEW k \in 1 .. n PROVE k \in there <=> k \in here
  <2>1. \A i : InPiece(more, i, k) <=> InPiece(starts, i, k)
    BY PiecesOn
  <2>2. \A i : InPiece(more, i, k) => i \in more /\ (InPiece(starts, i, k) => i \in starts)
    BY DEF InPiece
  <2> QED
    BY <1>1, <2>1, <2>2 DEF Texts
<1>5. n + 1 \in there <=> IsText(s, b)
  <2>1. b \in more
    BY DEF InPiece
  <2>2. \A i \in more : InPiece(more, i, n + 1) => i = b
    BY <1>3, OnePiece
  <2> QED
    BY <1>1, <2>1, <2>2 DEF Texts
<1>6. here \subseteq 1 .. n /\ there \subseteq 1 .. n + 1
  BY DEF Texts
<1> HIDE DEF here, there
<1>7. CASE IsText(s, b)
  <2>1. there = here \cup {n + 1}
    BY <1>1, <1>2, <1>4, <1>5, <1>6, <1>7
  <2> QED
    BY <1>7, <2>1 DEF here, there
<1>8. CASE ~IsText(s, b)
  <2>1. there = here
    BY <1>1, <1>2, <1>4, <1>5, <1>6, <1>8
  <2> QED
    BY <1>8, <2>1 DEF here, there
<1> QED
  BY <1>7, <1>8

\* What is kept of the first n characters of s makes the text.
Taken(s, n, starts, kept, text) ==
  /\ starts \in SUBSET (1 .. n)
  /\ kept = Texts(s, starts, n)
  /\ Written(text, s, starts, kept)

\* A character that is not kept leaves what is written as it is.
LEMMA GapTaken ==
  ASSUME NEW s, NEW n \in Nat, NEW starts \in SUBSET (1 .. n),
         NEW more, more = starts \/ more = starts \cup {n + 1},
         NEW kept \in SUBSET (1 .. n), NEW b, InPiece(more, b, n + 1), ~IsText(s, b),
         NEW text, Taken(s, n, starts, kept, text)
  PROVE  /\ Taken(s, n + 1, more, kept, text)
         /\ Moved(more, kept) = Moved(starts, kept)
         /\ n + 1 \notin kept
<1>1. \A k \in kept : k \in 1 .. n
  OBVIOUS
<1>2. n + 1 \notin kept
  OBVIOUS
<1>3. kept = Texts(s, starts, n) /\ Written(text, s, starts, kept)
  BY DEF Taken
<1>4. ASSUME NEW k \in kept, NEW i \in more, InPiece(more, i, k)
      PROVE  text[Place(kept, k)] = Spelling(s, i, k)
  <2>1. InPiece(starts, i, k)
    BY <1>1, <1>4, PiecesOn
  <2>2. i \in starts
    BY <2>1 DEF InPiece
  <2> QED
    BY <1>3, <2>1, <2>2 DEF Written
<1>5. more \cap kept = starts \cap kept
  BY <1>2
<1>6. Texts(s, more, n + 1) = kept
  <2>1. Texts(s, more, n + 1) = Texts(s, starts, n)
    BY TextsOn
  <2> QED
    BY <1>3, <2>1
<1>7. more \in SUBSET (1 .. n + 1)
  BY PiecesOn
<1>8. Written(text, s, more, kept)
  BY <1>3, <1>4 DEF Written
<1>9. Moved(more, kept) = Moved(starts, kept)
  BY <1>5 DEF Moved
<1> QED
  BY <1>2, <1>6, <1>7, <1>8, <1>9 DEF Taken

\* The text goes on with a character, after a space if there is a gap.
GoesOn(text, full, gap, c) ==
  /\ Len(full) = Len(text) + gap + 1
  /\ \A m \in 1 .. Len(text) : full[m] = text[m]
  /\ gap = 1 => full[Len(text) + 1] = " "
  /\ full[Len(full)] = c

\* Something has been kept, but not what came last.
GapAfter(kept, n) == kept # {} /\ n \notin kept

\* The next character, of the piece that starts at b, is kept: the text goes on
\* with it at its place, after a space if a gap came before it.
Comes(s, n, starts, more, b, kept, whole, text, gap, full) ==
  /\ n \in Nat /\ starts \in SUBSET (1 .. n) /\ kept \in SUBSET (1 .. n)
  /\ more = starts \/ more = starts \cup {n + 1}
  /\ InPiece(more, b, n + 1) /\ IsText(s, b)
  /\ whole = kept \cup {n + 1}
  /\ Taken(s, n, starts, kept, text)
  /\ gap \in {0, 1} /\ (gap = 1 <=> GapAfter(kept, n))
  /\ GoesOn(text, full, gap, Spelling(s, b, n + 1))

LEMMA TextTaken ==
  ASSUME NEW s, NEW n, NEW starts, NEW more, NEW b, NEW kept, NEW whole,
         NEW text, NEW gap, NEW full,
         Comes(s, n, starts, more, b, kept, whole, text, gap, full)
  PROVE  /\ Taken(s, n + 1, more, whole, full)
         /\ n + 1 \in more /\ gap = 1 =>
              Moved(more, whole) = (Moved(starts, kept) \cup {Len(text) + 1}) \cup {Len(full)}
         /\ n + 1 \in more /\ gap = 0 =>
              Moved(more, whole) = Moved(starts, kept) \cup {Len(full)}
         /\ n + 1 \notin more /\ gap = 0 =>
              Moved(more, whole) = Moved(starts, kept)
<1> SUFFICES
      ASSUME n \in Nat, starts \in SUBSET (1 .. n), kept \in SUBSET (1 .. n),
             more = starts \/ more = starts \cup {n + 1},
             InPiece(more, b, n + 1), IsText(s, b), whole = kept \cup {n + 1},
             Taken(s, n, starts, kept, text),
             gap \in {0, 1}, gap = 1 <=> GapAfter(kept, n),
             GoesOn(text, full, gap, Spelling(s, b, n + 1))
      PROVE  /\ Taken(s, n + 1, more, kept \cup {n + 1}, full)
             /\ n + 1 \in more /\ gap = 1 =>
                  Moved(more, kept \cup {n + 1}) = (Moved(starts, kept) \cup {Len(text) + 1}) \cup {Len(full)}
             /\ n + 1 \in more /\ gap = 0 =>
                  Moved(more, kept \cup {n + 1}) = Moved(starts, kept) \cup {Len(full)}
             /\ n + 1 \notin more /\ gap = 0 =>
                  Moved(more, kept \cup {n + 1}) = Moved(starts, kept)
  BY DEF Comes
<1> DEFINE all == kept \cup {n + 1}
           size == Size(kept)
<1>0. kept = Texts(s, starts, n) /\ Written(text, s, starts, kept)
  BY DEF Taken
<1>1. Len(text) = size /\ size \in Nat
  BY <1>0, PlaceOn DEF Written, Size
<1>2. /\ Size(all) = size + gap + 1 /\ Place(all, n + 1) = Size(all)
      /\ \A k \in kept : Place(all, k) = Place(kept, k) /\ Place(kept, k) \in 1 .. size
      /\ \A k \in Apart(kept) : Place(kept, k) - 1 \in 1 .. size
  <2>1. (IF kept = {} \/ n \in kept THEN 0 ELSE 1) = gap
    BY DEF GapAfter
  <2> QED
    BY <2>1, PlaceOn
<1>3. Apart(all) = Apart(kept) \cup (IF gap = 1 THEN {n + 1} ELSE {}) /\ Apart(kept) \subseteq kept
  <2>1. /\ Apart(kept) \in SUBSET kept
        /\ kept = {} \/ n \in kept => Apart(all) = Apart(kept)
        /\ ~(kept = {} \/ n \in kept) => Apart(all) = Apart(kept) \cup {n + 1}
    BY ApartOn, Zenon
  <2> HIDE DEF all
  <2>2. CASE gap = 0
    BY <2>1, <2>2 DEF GapAfter
  <2>3. CASE gap = 1
    BY <2>1, <2>3 DEF GapAfter
  <2> QED
    BY <2>2, <2>3
<1>4. n + 1 \notin kept /\ (\A k \in kept : k \in 1 .. n) /\ more \in SUBSET Nat /\ n + 1 \in Nat
  <2>1. more \in SUBSET (1 .. n + 1)
    BY PiecesOn
  <2>2. \A k \in kept : k \in 1 .. n
    OBVIOUS
  <2>3. n + 1 \notin 1 .. n /\ n + 1 \in Nat /\ 1 .. n + 1 \in SUBSET Nat
    OBVIOUS
  <2>4. n + 1 \notin kept
    BY <2>2, <2>3, Zenon
  <2>5. more \in SUBSET Nat
    BY <2>1, <2>3, Zenon
  <2> QED
    BY <2>2, <2>3, <2>4, <2>5, Zenon
<1> HIDE DEF all, size
<1>5. Len(full) = Size(all) /\ Place(all, n + 1) = Len(full)
  BY <1>1, <1>2 DEF GoesOn
<1>6. Len(full) = Cardinality(all) + Cardinality(Apart(all))
  BY <1>5 DEF Size
<1>7. ASSUME NEW k \in all, NEW i \in more, InPiece(more, i, k)
      PROVE  full[Place(all, k)] = Spelling(s, i, k)
  <2>1. CASE k = n + 1
    <3>1. i = b
      BY <1>4, <1>7, <2>1, OnePiece
    <3> QED
      BY <1>5, <2>1, <3>1 DEF GoesOn
  <2>2. CASE k \in kept
    <3>1. InPiece(starts, i, k)
      BY <1>4, <1>7, <2>2, PiecesOn
    <3>2. text[Place(kept, k)] = Spelling(s, i, k)
      BY <1>0, <2>2, <3>1 DEF Written, InPiece
    <3> QED
      BY <1>1, <1>2, <2>2, <3>2 DEF GoesOn
  <2> QED
    BY <1>7, <2>1, <2>2 DEF all
<1>8. ASSUME NEW k \in Apart(all) PROVE full[Place(all, k) - 1] = " "
  <2>1. CASE k \in Apart(kept)
    <3>1. text[Place(kept, k) - 1] = " "
      BY <1>0, <2>1 DEF Written
    <3> QED
      BY <1>1, <1>2, <1>3, <2>1, <3>1 DEF GoesOn
  <2>2. CASE k \notin Apart(kept)
    <3>1. gap = 1 /\ k = n + 1
      BY <1>3, <1>8, <2>2
    <3>2. Place(all, k) - 1 = Len(text) + 1
      <4>1. Place(all, k) = size + 1 + 1
        BY <1>2, <3>1
      <4> QED
        BY <1>1, <4>1
    <3> QED
      BY <3>1, <3>2 DEF GoesOn
  <2> QED
    BY <2>1, <2>2
<1>9. Written(full, s, more, all)
  BY <1>6, <1>7, <1>8 DEF Written
<1>10. {Place(all, i) : i \in more \cap all} =
         {Place(kept, i) : i \in starts \cap kept} \cup (IF n + 1 \in more THEN {Len(full)} ELSE {})
  <2>1. \A i : i \in more \cap all <=> i \in starts \cap kept \/ (i = n + 1 /\ n + 1 \in more)
    BY <1>4 DEF all
  <2>2. \A i \in starts \cap kept : Place(all, i) = Place(kept, i)
    BY <1>2
  <2>3. CASE n + 1 \in more
    <3>1. more \cap all = (starts \cap kept) \cup {n + 1}
      BY <2>1, <2>3
    <3>2. {Place(all, i) : i \in (starts \cap kept) \cup {n + 1}} =
            {Place(all, i) : i \in starts \cap kept} \cup {Place(all, n + 1)}
      BY Zenon
    <3>3. {Place(all, i) : i \in starts \cap kept} = {Place(kept, i) : i \in starts \cap kept}
      BY <2>2, Zenon
    <3> QED
      BY <1>5, <2>3, <3>1, <3>2, <3>3
  <2>4. CASE n + 1 \notin more
    BY <2>1, <2>2, <2>4
  <2> QED
    BY <2>3, <2>4
<1>11. {Place(all, i) - 1 : i \in Apart(all)} =
         {Place(kept, i) - 1 : i \in Apart(kept)} \cup (IF gap = 1 THEN {Len(text) + 1} ELSE {})
  <2>1. gap = 1 => Place(all, n + 1) - 1 = Len(text) + 1
    <3>1. gap = 1 => Place(all, n + 1) = size + 1 + 1
      BY <1>2
    <3> QED
      BY <1>1, <3>1
  <2>2. \A i \in Apart(kept) : Place(all, i) = Place(kept, i)
    BY <1>2, <1>3
  <2>3. \A i : i \in Apart(all) <=> i \in Apart(kept) \/ (gap = 1 /\ i = n + 1)
    BY <1>3
  <2> QED
    BY <2>1, <2>2, <2>3
<1>12. /\ n + 1 \in more /\ gap = 1 =>
            Moved(more, all) = (Moved(starts, kept) \cup {Len(text) + 1}) \cup {Len(full)}
       /\ n + 1 \in more /\ gap = 0 => Moved(more, all) = Moved(starts, kept) \cup {Len(full)}
       /\ n + 1 \notin more /\ gap = 0 => Moved(more, all) = Moved(starts, kept)
  <2> DEFINE A == {Place(all, i) : i \in more \cap all}
             B == {Place(all, i) - 1 : i \in Apart(all)}
             C == {Place(kept, i) : i \in starts \cap kept}
             D == {Place(kept, i) - 1 : i \in Apart(kept)}
  <2>1. Moved(more, all) = A \cup B /\ Moved(starts, kept) = C \cup D
    BY DEF Moved
  <2>2. /\ A = C \cup (IF n + 1 \in more THEN {Len(full)} ELSE {})
        /\ B = D \cup (IF gap = 1 THEN {Len(text) + 1} ELSE {})
    BY <1>10, <1>11
  <2> HIDE DEF A, B, C, D
  <2> QED
    BY <2>1, <2>2
<1>13. Texts(s, more, n + 1) = all
  BY <1>0, TextsOn DEF all
<1>14. more \in SUBSET (1 .. n + 1)
  BY PiecesOn
<1>15. Taken(s, n + 1, more, all, full)
  BY <1>9, <1>13, <1>14 DEF Taken
<1> QED
  BY <1>12, <1>15 DEF all

-----------------------------------------------------------------------------
(* Pieces of a text that is written *)

\* The text may end here: it is not within a quoted piece.
MayEnd(text, starts) ==
  \A b \in starts : InPiece(starts, b, Len(text)) =>
    IF text[b] \in Quotes
      THEN text[Len(text)] = text[b] /\ Count(text, text[b], b, Len(text)) % 2 = 0
      ELSE b = Len(text)

\* The text is within a quoted piece.
IsQuoted(text, starts, quote) ==
  \E b \in starts : /\ InPiece(starts, b, Len(text))
                    /\ text[b] = quote
                    /\ Count(text, quote, b, Len(text)) % 2 = 1

\* The character neither goes on with the last one nor makes a comment of both.
MayFollow(text, char) ==
  text # <<>> =>
    /\ text[Len(text)] \in Quotes => char # text[Len(text)]
    /\ ~(text[Len(text)] = "-" /\ char = "-")
    /\ ~(text[Len(text)] = "/" /\ char = "*")

LEMMA CountAlike ==
  ASSUME NEW s, NEW t, NEW from \in Nat, NEW to \in Nat, \A k \in from .. to : s[k] = t[k]
  PROVE  \A char : Count(s, char, from, to) = Count(t, char, from, to)
<1>1. \A char : {k \in from .. to : s[k] = char} = {k \in from .. to : t[k] = char}
  OBVIOUS
<1> QED
  BY <1>1 DEF Count

\* A quote that comes twice leaves its piece open.
LEMMA QuotedTwiceOn ==
  ASSUME NEW s, NEW n \in Nat, NEW starts, Lexed(s, starts, n), NEW b \in starts,
         InPiece(starts, b, n), s[b] \in Quotes, Count(s, s[b], b, n) % 2 = 1,
         s[n + 1] = s[b], s[n + 2] = s[b], n + 2 <= Len(s), Len(s) \in Nat
  PROVE  /\ Lexed(s, starts, n + 2) /\ InPiece(starts, b, n + 2)
         /\ Count(s, s[b], b, n + 2) % 2 = 1
<1>1. /\ Lexed(s, starts, n + 1) /\ InPiece(starts, b, n + 1)
      /\ Count(s, s[b], b, n + 1) % 2 = 0
  BY QuotedOn
<1>2. starts \in SUBSET (1 .. n) /\ b \in Nat /\ b <= n /\ n + 1 \in Nat /\ (n + 1) + 1 = n + 2
  BY DEF Lexed
<1>3. ~Closes(s, b, n + 1)
  <2>1. n + 1 < Len(s) /\ s[(n + 1) + 1] = s[b]
    BY <1>2
  <2> QED
    BY <2>1 DEF Closes
<1>4. n + 2 \notin starts /\ n + 1 # 0 /\ starts \in SUBSET Nat
  BY <1>2
<1>5. ASSUME NEW i \in starts, InPiece(starts, i, n + 1) PROVE ~Closes(s, i, n + 1)
  <2>1. i = b
    BY <1>1, <1>2, <1>4, <1>5, OnePiece
  <2> QED
    BY <1>3, <2>1
<1>6. Lexed(s, starts, n + 2)
  BY <1>1, <1>2, <1>4, <1>5, LexedOn
<1>7. InPiece(starts, b, n + 2)
  <2>1. starts \in SUBSET (1 .. n + 1)
    BY <1>1 DEF Lexed
  <2> QED
    BY <1>1, <1>2, <1>4, <2>1, PiecesOn
<1>8. Count(s, s[b], b, n + 2) % 2 = 1
  <2>1. b <= (n + 1) + 1 /\ s[(n + 1) + 1] = s[b]
    BY <1>2
  <2>2. /\ Count(s, s[b], b, n + 1) \in Nat
        /\ Count(s, s[b], b, (n + 1) + 1) = Count(s, s[b], b, n + 1) + 1
    BY <1>2, <2>1, CountOn
  <2> QED
    BY <1>1, <1>2, <2>2, Parity
<1> QED
  BY <1>6, <1>7, <1>8

\* A new piece may follow one that may end.
LEMMA WriteNew ==
  ASSUME NEW text \in Seq(Characters), NEW c \in Characters, NEW starts,
         Lexing(text, starts), MayEnd(text, starts), MayFollow(text, c)
  PROVE  LET full == Append(text, c)
             more == starts \cup {Len(full)}
         IN  /\ Lexing(full, more)
             /\ c \notin Quotes => MayEnd(full, more)
             /\ c \in Quotes => IsQuoted(full, more, c)
<1> DEFINE full == Append(text, c)
           n == Len(text)
           more == starts \cup {n + 1}
<1>1. /\ full \in Seq(Characters) /\ n \in Nat /\ Len(full) = n + 1 /\ full[n + 1] = c
      /\ \A k \in 1 .. n : full[k] = text[k]
      /\ n > 0 => text # <<>>
  BY AppendFacts
<1> HIDE DEF full, n
<1>2. Lexed(text, starts, n) /\ starts \in SUBSET (1 .. n)
  BY DEF Lexing, Lexed, n
<1>3. Lexed(full, starts, n)
  <2>1. n <= Len(text) /\ n <= Len(full) /\ \A k \in 1 .. n : text[k] = full[k]
    BY <1>1 DEF n
  <2> QED
    BY <1>1, <1>2, <2>1, LexedAlike
<1>4. ASSUME NEW b \in starts, InPiece(starts, b, n) PROVE Closes(full, b, n)
  <2>1. b \in 1 .. n /\ n \in 1 .. n
    BY <1>1, <1>2
  <2>2. full[b] = text[b] /\ full[n] = text[n]
    BY <1>1, <2>1
  <2>3. MayFollow(text, c) => /\ text[n] \in Quotes => c # text[n]
                              /\ ~(text[n] = "-" /\ c = "-") /\ ~(text[n] = "/" /\ c = "*")
    BY <1>1, <2>1 DEF MayFollow, n
  <2>4. CASE text[b] \in Quotes
    <3>1. text[n] = text[b] /\ Count(text, text[b], b, n) % 2 = 0
      BY <1>4, <2>4 DEF MayEnd, n
    <3>2. Count(full, text[b], b, n) = Count(text, text[b], b, n)
      <4>1. \A k \in b .. n : text[k] = full[k]
        BY <1>1, <2>1
      <4> QED
        BY <1>1, <2>1, <4>1, CountAlike
    <3>3. ~Pair(full, b, "-", "-") /\ ~Pair(full, b, "/", "*")
      BY <2>2, <2>4 DEF Pair, Quotes
    <3>4. full[n + 1] # full[b]
      BY <1>1, <2>2, <2>3, <2>4, <3>1
    <3>5. Count(full, full[b], b, n) % 2 = 0
      BY <2>2, <3>1, <3>2
    <3> QED
      BY <3>3, <3>4, <3>5 DEF Closes
  <2>5. CASE text[b] \notin Quotes
    <3>1. b = n
      BY <1>4, <2>5 DEF MayEnd, n
    <3>2. ~Pair(full, b, "-", "-") /\ ~Pair(full, b, "/", "*")
      BY <1>1, <2>2, <2>3, <3>1 DEF Pair
    <3> QED
      BY <2>2, <2>5, <3>2 DEF Closes
  <2> QED
    BY <2>4, <2>5
<1>5. Lexed(full, more, n + 1)
  BY <1>1, <1>3, <1>4, LexedOn
<1>6. \A b : InPiece(more, b, n + 1) <=> b = n + 1
  BY <1>1, <1>2, StartsAnew
<1>7. c \notin Quotes => MayEnd(full, more)
  BY <1>1, <1>6 DEF MayEnd
<1>8. c \in Quotes => IsQuoted(full, more, c)
  <2>1. Count(full, c, n + 1, n + 1) = 1
    BY <1>1, CountsOne
  <2>2. n + 1 \in more
    OBVIOUS
  <2> QED
    BY <1>1, <1>6, <2>1, <2>2, Parity DEF IsQuoted
<1> QED
  BY <1>1, <1>5, <1>7, <1>8 DEF Lexing, full

\* A quoted piece that is written goes on, or ends with its quote.
LEMMA WriteQuoted ==
  ASSUME NEW text \in Seq(Characters), NEW c \in Characters, NEW starts,
         NEW quote \in Quotes, Lexing(text, starts), IsQuoted(text, starts, quote)
  PROVE  LET full == Append(text, c)
         IN  /\ Lexing(full, starts)
             /\ c # quote => IsQuoted(full, starts, quote)
             /\ c = quote => MayEnd(full, starts)
<1> DEFINE full == Append(text, c)
           n == Len(text)
<1>1. /\ full \in Seq(Characters) /\ n \in Nat /\ Len(full) = n + 1 /\ full[n + 1] = c
      /\ \A k \in 1 .. n : full[k] = text[k]
  BY AppendFacts
<1> HIDE DEF full, n
<1>2. Lexed(text, starts, n) /\ starts \in SUBSET (1 .. n)
  BY DEF Lexing, Lexed, n
<1>3. Lexed(full, starts, n)
  <2>1. n <= Len(text) /\ n <= Len(full) /\ \A k \in 1 .. n : text[k] = full[k]
    BY <1>1 DEF n
  <2> QED
    BY <1>1, <1>2, <2>1, LexedAlike
<1>4. PICK b \in starts : /\ InPiece(starts, b, n) /\ text[b] = quote
                          /\ Count(text, quote, b, n) % 2 = 1
  BY DEF IsQuoted, n
<1>5. b \in 1 .. n /\ full[b] = quote /\ starts \in SUBSET Nat /\ n + 1 \in Nat
  BY <1>1, <1>2, <1>4
<1>6. Count(full, quote, b, n) = Count(text, quote, b, n)
  <2>1. b \in Nat /\ \A k \in b .. n : full[k] = text[k]
    BY <1>1, <1>5
  <2> QED
    BY <1>1, <2>1, CountAlike
<1>7. /\ Lexed(full, starts, n + 1) /\ InPiece(starts, b, n + 1)
      /\ Count(full, quote, b, n + 1) % 2 = IF c = quote THEN 0 ELSE 1
  BY <1>1, <1>3, <1>4, <1>5, <1>6, QuotedOn
<1>8. c # quote => IsQuoted(full, starts, quote)
  BY <1>1, <1>5, <1>7 DEF IsQuoted
<1>9. c = quote => MayEnd(full, starts)
  <2>1. \A i \in starts : InPiece(starts, i, n + 1) => i = b
    BY <1>5, <1>7, OnePiece
  <2> QED
    BY <1>1, <1>5, <1>7, <2>1 DEF MayEnd
<1> QED
  BY <1>1, <1>7, <1>8, <1>9 DEF Lexing, full

\* A quote that is written twice leaves its piece open.
LEMMA WriteTwice ==
  ASSUME NEW text \in Seq(Characters), NEW starts,
         NEW quote \in Quotes, Lexing(text, starts), IsQuoted(text, starts, quote)
  PROVE  LET full == Append(Append(text, quote), quote)
         IN  Lexing(full, starts) /\ IsQuoted(full, starts, quote)
<1> DEFINE once == Append(text, quote)
           full == Append(once, quote)
           n == Len(text)
<1>1. quote \in Characters
  BY DEF Characters
<1>2. /\ once \in Seq(Characters) /\ n \in Nat /\ Len(once) = n + 1 /\ once[n + 1] = quote
      /\ \A k \in 1 .. n : once[k] = text[k]
  BY <1>1, AppendFacts
<1> HIDE DEF once, n
<1>3. /\ full \in Seq(Characters) /\ Len(full) = n + 2
      /\ full[n + 1] = quote /\ full[n + 2] = quote
      /\ \A k \in 1 .. n : full[k] = text[k]
  <2>1. /\ full \in Seq(Characters) /\ Len(full) = (n + 1) + 1 /\ full[(n + 1) + 1] = quote
        /\ \A k \in 1 .. n + 1 : full[k] = once[k]
    BY <1>1, <1>2, AppendFacts
  <2>2. (n + 1) + 1 = n + 2 /\ n + 1 \in 1 .. n + 1 /\ \A k \in 1 .. n : k \in 1 .. n + 1
    BY <1>2
  <2> QED
    BY <1>2, <2>1, <2>2
<1> HIDE DEF full
<1>4. Lexed(text, starts, n) /\ starts \in SUBSET (1 .. n)
  BY DEF Lexing, Lexed, n
<1>5. Lexed(full, starts, n)
  <2>1. n <= Len(text) /\ n <= Len(full) /\ \A k \in 1 .. n : text[k] = full[k]
    BY <1>2, <1>3 DEF n
  <2> QED
    BY <1>2, <1>3, <1>4, <2>1, LexedAlike
<1>6. PICK b \in starts : /\ InPiece(starts, b, n) /\ text[b] = quote
                          /\ Count(text, quote, b, n) % 2 = 1
  BY DEF IsQuoted, n
<1>7. b \in 1 .. n /\ full[b] = quote
  BY <1>3, <1>4, <1>6
<1>8. Count(full, quote, b, n) = Count(text, quote, b, n)
  <2>1. \A k \in b .. n : text[k] = full[k]
    BY <1>3, <1>7
  <2> QED
    BY <1>2, <1>7, <2>1, CountAlike
<1>9. /\ Lexed(full, starts, n + 2) /\ InPiece(starts, b, n + 2)
      /\ Count(full, quote, b, n + 2) % 2 = 1
  <2>1. n + 2 <= Len(full) /\ Len(full) \in Nat
    BY <1>2, <1>3
  <2> QED
    BY <1>2, <1>3, <1>5, <1>6, <1>7, <1>8, <2>1, QuotedTwiceOn
<1> QED
  BY <1>3, <1>7, <1>9 DEF Lexing, IsQuoted, full, once

-----------------------------------------------------------------------------
(* The scan keeps to the pieces *)

\* The scan is within the last of these pieces, or may leave it here.
Stands(starts) ==
  /\ within = "code" /\ Left =>
       \A b \in starts : InPiece(starts, b, index - 1) => Closes(sql, b, index - 1)
  /\ within # "code" =>
       \E b \in starts :
         /\ InPiece(starts, b, index - 1)
         /\ within \in Quotes => sql[b] = within /\ Count(sql, within, b, index - 1) % 2 = 1
         /\ within = "line" => Pair(sql, b, "-", "-")
         /\ within = "block" => /\ Pair(sql, b, "/", "*") /\ b + 2 <= index
                                /\ ~Closes(sql, b, index - 1) /\ ~Closes(sql, b, index)

\* A gap is to come if what came last is not kept.
Leaves(kept) ==
  /\ within = "code" => (pending_space <=> kept # {} /\ index - 1 \notin kept)
  /\ within \in Quotes => ~pending_space /\ index - 1 \in kept
  /\ within \in {"line", "block"} => index - 1 \notin kept

\* What is written falls into pieces with these starts, and what comes next
\* starts another, unless the scan is within a quoted one.
Mirrors(starts) ==
  /\ Lexing(normalized, starts)
  /\ within \in Quotes => IsQuoted(normalized, starts, within)
  /\ within \notin Quotes => MayEnd(normalized, starts)
  /\ within = "code" /\ ~pending_space /\ Left => MayFollow(normalized, Char)

Lexes(starts, kept) ==
  /\ Lexed(sql, starts, index - 1)
  /\ Taken(sql, index - 1, starts, kept, normalized)
  /\ Stands(starts)
  /\ Leaves(kept)
  /\ Mirrors(Moved(starts, kept))

LexInv == \E starts, kept : Lexes(starts, kept)

\* Where the scan stands.
LEMMA HereFacts ==
  ASSUME TypeOK
  PROVE  /\ index - 1 \in Nat /\ (index - 1) + 1 = index /\ (index + 1) - 1 = index
         /\ (index + 2) - 1 = index + 1 /\ index + 1 \in Nat /\ index \in Nat
         /\ Left => index \in 1 .. Len(sql)
         /\ \A char : Ahead(char) => index + 1 \in 1 .. Len(sql)
BY ScanFacts DEF Left, Ahead

LEMMA TakenFacts ==
  ASSUME TypeOK, NEW starts, NEW kept, Lexes(starts, kept)
  PROVE  /\ starts \in SUBSET (1 .. index - 1) /\ kept \in SUBSET (1 .. index - 1)
         /\ starts \in SUBSET Nat
         /\ normalized # <<>> <=> kept # {}
<1>1. /\ starts \in SUBSET (1 .. index - 1)
      /\ kept = Texts(sql, starts, index - 1) /\ Written(normalized, sql, starts, kept)
  BY DEF Lexes, Taken
<1>2. kept \in SUBSET (1 .. index - 1)
  BY <1>1 DEF Texts
<1>3. Len(normalized) = 0 <=> kept = {}
  BY <1>1, <1>2, HereFacts, PlaceOn DEF Written, Size
<1>4. normalized = <<>> <=> Len(normalized) = 0
  BY ScanFacts
<1>5. 1 .. index - 1 \in SUBSET Nat
  OBVIOUS
<1> QED
  BY <1>1, <1>2, <1>3, <1>4, <1>5

\* Before the first character there is nothing.
Started == index = 1 /\ pending_space = FALSE /\ normalized = <<>> /\ within = "code"

LEMMA LexStarts == Started => LexInv
<1> SUFFICES ASSUME index = 1, pending_space = FALSE, normalized = <<>>, within = "code"
             PROVE  LexInv
  BY DEF Started
<1>1. 1 .. index - 1 = {} /\ index - 1 = 0
  OBVIOUS
<1>2. Lexed(sql, {}, index - 1)
  BY <1>1 DEF Lexed
<1>3. Texts(sql, {}, index - 1) = {}
  BY <1>1 DEF Texts
<1>4. Apart({}) = {} /\ Cardinality({}) = 0 /\ Len(normalized) = 0
  BY FS_EmptySet DEF Apart
<1>5. Written(normalized, sql, {}, {}) /\ Moved({}, {}) = {}
  <2>1. Len(normalized) = Cardinality({}) + Cardinality(Apart({}))
    <3>1. Size({}) = 0
      BY PlaceOn
    <3> QED
      BY <1>4, <3>1 DEF Size
  <2>2. \A k \in Apart({}) : normalized[Place({}, k) - 1] = " "
    BY <1>4
  <2>3. Written(normalized, sql, {}, {})
    BY <2>1, <2>2 DEF Written
  <2>4. Moved({}, {}) = {Place({}, i) : i \in {}} \cup {Place({}, i) - 1 : i \in {}}
    BY <1>4 DEF Moved
  <2> QED
    BY <2>3, <2>4
<1>6. Lexing(normalized, {}) /\ MayEnd(normalized, {}) /\ MayFollow(normalized, Char)
  BY <1>4 DEF Lexing, Lexed, MayEnd, MayFollow
<1>7. Stands({}) /\ Leaves({})
  BY DEF Stands, Leaves, Quotes
<1>8. Mirrors({})
  BY <1>6 DEF Mirrors, Quotes
<1>9. Lexes({}, {})
  BY <1>2, <1>3, <1>5, <1>7, <1>8 DEF Lexes, Taken
<1> QED
  BY <1>9 DEF LexInv

-----------------------------------------------------------------------------
(* The scan step by step *)

\* A lower case letter apart, each character is its own lower case.
LEMMA LowerMark ==
  ASSUME NEW c \in Characters
  PROVE  /\ Lower(c) \in Quotes \cup {"-", "/", "*"} => Lower(c) = c
         /\ c \in Quotes => Lower(c) = c
         /\ Lower(c) \in Quotes <=> c \in Quotes
BY DEF Lower, Characters, Quotes, Spaces

\* What is written for a character of the code is a piece, and so is the space
\* of the gap before it.
LEMMA CodeCharMirrors ==
  ASSUME TypeOK, CodeChar, NEW moved, Mirrors(moved), NEW after,
         pending_space => after = (moved \cup {Len(normalized) + 1}) \cup {Len(normalized')},
         ~pending_space => after = moved \cup {Len(normalized')}
  PROVE  Mirrors(after)'
<1> DEFINE c == Lower(Char)
<1>1. /\ within = "code" /\ Left /\ Char \in Characters
      /\ pending_space' = FALSE /\ within' = (IF Char \in Quotes THEN Char ELSE "code")
      /\ index' = index + 1 /\ sql' = sql
      /\ normalized \in Seq(Characters) /\ " " \in Characters /\ " " \notin Quotes
  BY ScanFacts, CharTyped DEF CodeChar, Characters, Spaces, Quotes
<1>2. /\ c \in Characters /\ Spaced \in Seq(Characters) /\ normalized' = Append(Spaced, c)
      /\ normalized' \in Seq(Characters)
  BY CodeCharAppends, AppendTyped
<1>3. Lexing(normalized, moved) /\ MayEnd(normalized, moved)
      /\ (~pending_space => MayFollow(normalized, Char))
  BY <1>1 DEF Mirrors, Quotes
<1>4. ASSUME NEW from, Lexing(Spaced, from), MayEnd(Spaced, from), MayFollow(Spaced, c),
             after = from \cup {Len(normalized')}
      PROVE  Mirrors(after)'
  <2>1. /\ Lexing(normalized', after)
        /\ c \notin Quotes => MayEnd(normalized', after)
        /\ c \in Quotes => IsQuoted(normalized', after, c)
    BY <1>2, <1>4, WriteNew
  <2>2. (c \in Quotes <=> Char \in Quotes) /\ (Char \in Quotes => c = Char)
    BY <1>1, LowerMark
  <2>3. normalized'[Len(normalized')] = c
    BY <1>2, AppendFacts
  <2> HIDE DEF c
  <2>4. /\ Lexing(normalized', after)
        /\ within' \in Quotes => IsQuoted(normalized', after, within')
        /\ within' \notin Quotes => MayEnd(normalized', after)
    <3>1. CASE Char \in Quotes
      BY <1>1, <2>1, <2>2, <3>1
    <3>2. CASE Char \notin Quotes
      <4>1. within' = "code" /\ within' \notin Quotes
        BY <1>1, <3>2 DEF Quotes
      <4> QED
        BY <2>1, <2>2, <3>2, <4>1
    <3> QED
      BY <3>1, <3>2
  <2>5. ASSUME within' = "code", Left' PROVE MayFollow(normalized', Char')
    <3>1. Char' = sql[index + 1] /\ index + 1 <= Len(sql)
      BY <1>1, <2>5 DEF Char, Left
    <3>2. c \notin Quotes
      BY <1>1, <2>2, <2>5 DEF Quotes
    <3>3. index < Len(sql)
      BY <3>1, HereFacts, ScanFacts
    <3>4. ~(Char = "-" /\ Char' = "-") /\ ~(Char = "/" /\ Char' = "*")
      BY <1>1, <3>1, <3>3 DEF CodeChar, Opens, Ahead
    <3>5. (c = "-" => Char = "-") /\ (c = "/" => Char = "/")
      BY <1>1, LowerMark DEF c
    <3> QED
      BY <2>3, <3>2, <3>4, <3>5 DEF MayFollow
  <2> QED
    BY <2>4, <2>5 DEF Mirrors
<1>5. CASE pending_space
  <2> DEFINE from == moved \cup {Len(normalized) + 1}
  <2>1. Spaced = Append(normalized, " ") /\ Len(Append(normalized, " ")) = Len(normalized) + 1
        /\ Append(normalized, " ")[Len(normalized) + 1] = " "
    BY <1>1, <1>5, AppendFacts DEF Spaced
  <2>2. MayFollow(normalized, " ")
    BY <1>1 DEF MayFollow
  <2>3. Lexing(Spaced, from) /\ MayEnd(Spaced, from)
    BY <1>1, <1>3, <2>1, <2>2, WriteNew
  <2>4. MayFollow(Spaced, c)
    BY <1>1, <2>1 DEF MayFollow
  <2>5. after = from \cup {Len(normalized')}
    BY <1>5
  <2> HIDE DEF from, c
  <2> QED
    BY <1>4, <2>3, <2>4, <2>5
<1>6. CASE ~pending_space
  <2>1. Spaced = normalized
    BY <1>6 DEF Spaced
  <2>2. MayFollow(normalized, c)
    <3>1. c \in Quotes \cup {"-", "/", "*"} => c = Char
      BY <1>1, LowerMark
    <3> HIDE DEF c
    <3> QED
      BY <1>3, <1>6, <3>1 DEF MayFollow
  <2> HIDE DEF c
  <2> QED
    BY <1>3, <1>4, <1>6, <2>1, <2>2
<1> QED
  BY <1>5, <1>6

\* A character of the code is a piece of its own, and kept.
LEMMA CodeCharLexes ==
  ASSUME TypeOK, NEW starts, NEW kept, Lexes(starts, kept), CodeChar
  PROVE  LexInv'
<1>0. PICK n \in Nat : n = index - 1
  BY HereFacts
<1>1. /\ within = "code" /\ Left /\ Char \in Characters /\ Char \notin Spaces
      /\ pending_space' = FALSE /\ within' = (IF Char \in Quotes THEN Char ELSE "code")
      /\ index' = index + 1 /\ sql' = sql /\ Char = sql[index]
  BY CharTyped DEF CodeChar, Char
<1>2. /\ index = n + 1 /\ index' - 1 = n + 1
      /\ starts \in SUBSET (1 .. n) /\ kept \in SUBSET (1 .. n)
      /\ normalized # <<>> <=> kept # {}
      /\ Lexed(sql, starts, n) /\ Taken(sql, n, starts, kept, normalized)
  BY <1>0, <1>1, HereFacts, TakenFacts DEF Lexes
<1>3. /\ sql[n + 1] = Char
      /\ ~Pair(sql, n + 1, "-", "-") /\ ~Pair(sql, n + 1, "/", "*")
  <2>1. ~Pair(sql, index, "-", "-") /\ ~Pair(sql, index, "/", "*")
    BY <1>1 DEF CodeChar, Opens, Ahead, Pair
  <2> QED
    BY <1>1, <1>2, <2>1
<1>4. PICK gap \in {0, 1} : gap = 1 <=> pending_space
  OBVIOUS
<1>5. gap = 1 <=> GapAfter(kept, n)
  BY <1>0, <1>1, <1>4 DEF Lexes, Leaves, GapAfter
<1>6. GoesOn(normalized, normalized', gap, Spelling(sql, n + 1, n + 1))
  <2>1. Spelling(sql, n + 1, n + 1) = Lower(Char)
    BY <1>1, <1>3, LowerMark DEF Spelling, Quotes
  <2>2. /\ Lower(Char) \in Characters /\ Spaced \in Seq(Characters)
        /\ normalized' = Append(Spaced, Lower(Char))
    BY CodeCharAppends
  <2>3. /\ Len(normalized') = Len(Spaced) + 1 /\ normalized'[Len(Spaced) + 1] = Lower(Char)
        /\ \A m \in 1 .. Len(Spaced) : normalized'[m] = Spaced[m]
    BY <2>2, AppendFacts
  <2>4. /\ Len(Spaced) = Len(normalized) + gap /\ Len(normalized) \in Nat
        /\ \A m \in 1 .. Len(normalized) : Spaced[m] = normalized[m]
        /\ gap = 1 => Spaced[Len(normalized) + 1] = " "
    <3>1. CASE pending_space
      <4>1. Spaced = Append(normalized, " ") /\ gap = 1
        BY <1>4, <3>1 DEF Spaced
      <4>2. normalized \in Seq(Characters) /\ " " \in Characters
        BY ScanFacts DEF Characters, Spaces
      <4> QED
        BY <4>1, <4>2, AppendFacts
    <3>2. CASE ~pending_space
      <4>1. Spaced = normalized /\ gap = 0
        BY <1>4, <3>2 DEF Spaced
      <4> QED
        BY <4>1, ScanFacts
    <3> QED
      BY <3>1, <3>2
  <2>5. ASSUME NEW m \in 1 .. Len(normalized) PROVE normalized'[m] = normalized[m]
    <3>1. Len(Spaced) = Len(normalized) + gap /\ Len(normalized) \in Nat /\ gap \in Nat
      <4>1. gap \in Nat
        OBVIOUS
      <4> QED
        BY <2>4, <4>1
    <3>2. m \in 1 .. Len(Spaced)
      BY <3>1
    <3> QED
      BY <2>3, <2>4, <3>2
  <2>6. gap = 1 => normalized'[Len(normalized) + 1] = " "
    <3>1. Len(Spaced) = Len(normalized) + gap /\ Len(normalized) \in Nat
      BY <2>4
    <3>2. gap = 1 => Len(normalized) + 1 \in 1 .. Len(Spaced)
      BY <3>1
    <3> QED
      BY <2>3, <2>4, <3>2
  <2> QED
    BY <2>1, <2>3, <2>4, <2>5, <2>6 DEF GoesOn
<1>7. PICK more, whole, after : /\ more = starts \cup {n + 1} /\ whole = kept \cup {n + 1}
                                /\ after = Moved(more, whole)
  OBVIOUS
<1>8. Lexed(sql, more, n + 1)
  <2>1. \A b \in starts : InPiece(starts, b, n) => Closes(sql, b, n)
    BY <1>0, <1>1 DEF Lexes, Stands
  <2> QED
    BY <1>2, <1>7, <2>1, LexedOn
<1>9. /\ InPiece(more, n + 1, n + 1) /\ n + 1 \in more /\ n + 1 \in whole
      /\ \A i : InPiece(more, i, n + 1) => i = n + 1
  BY <1>2, <1>7, StartsAnew
<1>10. IsText(sql, n + 1)
  BY <1>1, <1>3 DEF IsText
<1>11. /\ Taken(sql, n + 1, more, whole, normalized')
       /\ n + 1 \in more /\ gap = 1 =>
            Moved(more, whole) = (Moved(starts, kept) \cup {Len(normalized) + 1}) \cup {Len(normalized')}
       /\ n + 1 \in more /\ gap = 0 =>
            Moved(more, whole) = Moved(starts, kept) \cup {Len(normalized')}
  <2>1. Comes(sql, n, starts, more, n + 1, kept, whole, normalized, gap, normalized')
    BY <1>2, <1>5, <1>6, <1>7, <1>9, <1>10 DEF Comes
  <2> QED
    BY <2>1, TextTaken
<1>12. Mirrors(after)'
  <2>1. Mirrors(Moved(starts, kept))
    BY DEF Lexes
  <2>2. pending_space => after = (Moved(starts, kept) \cup {Len(normalized) + 1}) \cup {Len(normalized')}
    BY <1>4, <1>7, <1>9, <1>11
  <2>3. ~pending_space => after = Moved(starts, kept) \cup {Len(normalized')}
    <3>1. ~pending_space => gap = 0
      BY <1>4
    <3> QED
      BY <1>7, <1>9, <1>11, <3>1
  <2> QED
    BY <2>1, <2>2, <2>3, CodeCharMirrors
<1>13. Stands(more)'
  <2>1. CASE Char \in Quotes
    <3>1. Count(sql, Char, n + 1, n + 1) % 2 = 1
      BY <1>3, CountsOne, Parity
    <3>2. within' = Char /\ within' # "code" /\ within' # "line" /\ within' # "block"
      BY <1>1, <2>1 DEF Quotes
    <3> QED
      BY <1>1, <1>2, <1>3, <1>9, <3>1, <3>2 DEF Stands
  <2>2. CASE Char \notin Quotes
    <3>1. Closes(sql, n + 1, n + 1)
      BY <1>3, <2>2 DEF Closes
    <3>2. within' = "code"
      BY <1>1, <2>2
    <3> QED
      BY <1>1, <1>2, <1>9, <3>1, <3>2 DEF Stands
  <2> QED
    BY <2>1, <2>2
<1>14. Leaves(whole)'
  <2>1. index' - 1 \in whole /\ whole # {} /\ within' \notin {"line", "block"} /\ ~pending_space'
    BY <1>1, <1>2, <1>9 DEF Quotes
  <2> QED
    BY <2>1 DEF Leaves
<1>15. Lexes(more, whole)'
  BY <1>1, <1>2, <1>7, <1>8, <1>11, <1>12, <1>13, <1>14 DEF Lexes
<1> QED
  BY <1>15 DEF LexInv

-----------------------------------------------------------------------------
(* Gaps *)

\* A piece that is not a text starts.
LEMMA GapStarts ==
  ASSUME NEW s, NEW n \in Nat, NEW starts, NEW kept, NEW text,
         Lexed(s, starts, n), Taken(s, n, starts, kept, text),
         \A b \in starts : InPiece(starts, b, n) => Closes(s, b, n),
         ~IsText(s, n + 1), NEW more, more = starts \cup {n + 1}
  PROVE  /\ Lexed(s, more, n + 1) /\ Taken(s, n + 1, more, kept, text)
         /\ Moved(more, kept) = Moved(starts, kept) /\ n + 1 \notin kept
         /\ n + 1 \in more
         /\ \A i : InPiece(more, i, n + 1) <=> i = n + 1
<1>1. starts \in SUBSET (1 .. n) /\ kept \in SUBSET (1 .. n)
  BY DEF Taken, Texts
<1>2. n + 1 \in more /\ \A i : InPiece(more, i, n + 1) <=> i = n + 1
  BY <1>1, StartsAnew
<1>3. Lexed(s, more, n + 1)
  BY <1>2, LexedOn
<1>4. InPiece(more, n + 1, n + 1)
  BY <1>2
<1>5. /\ Taken(s, n + 1, more, kept, text)
      /\ Moved(more, kept) = Moved(starts, kept)
      /\ n + 1 \notin kept
  BY <1>1, <1>4, GapTaken
<1> QED
  BY <1>2, <1>3, <1>5

\* A piece that is not a text goes on.
LEMMA GapGoesOn ==
  ASSUME NEW s, NEW n \in Nat, NEW starts, NEW kept, NEW text,
         Lexed(s, starts, n), Taken(s, n, starts, kept, text),
         NEW b \in starts, InPiece(starts, b, n), ~Closes(s, b, n), ~IsText(s, b)
  PROVE  /\ Lexed(s, starts, n + 1) /\ Taken(s, n + 1, starts, kept, text)
         /\ InPiece(starts, b, n + 1) /\ n + 1 \notin kept
<1>1. starts \in SUBSET (1 .. n) /\ kept \in SUBSET (1 .. n) /\ starts \in SUBSET Nat
  BY DEF Taken, Texts
<1>2. n + 1 \notin starts /\ n # 0
  BY <1>1 DEF InPiece
<1>3. ASSUME NEW i \in starts, InPiece(starts, i, n) PROVE ~Closes(s, i, n)
  <2>1. i = b
    BY <1>1, <1>3, OnePiece
  <2> QED
    BY <2>1
<1>4. Lexed(s, starts, n + 1)
  BY <1>2, <1>3, LexedOn
<1>5. InPiece(starts, b, n + 1)
  BY <1>1, <1>2, PiecesOn
<1>6. /\ Taken(s, n + 1, starts, kept, text)
      /\ Moved(starts, kept) = Moved(starts, kept)
      /\ n + 1 \notin kept
  BY <1>1, <1>5, GapTaken
<1> QED
  BY <1>4, <1>5, <1>6

\* What is written may end before a gap, and after one nothing joins it.
LEMMA GapMirrors ==
  ASSUME NEW moved, Mirrors(moved), within \notin Quotes, within' \notin Quotes,
         normalized' = normalized,
         within' = "code" => (pending_space' <=> normalized # <<>>)
  PROVE  Mirrors(moved)'
<1>1. Lexing(normalized', moved) /\ MayEnd(normalized', moved)
  BY DEF Mirrors
<1>2. within' = "code" /\ ~pending_space' => MayFollow(normalized', Char')
  BY DEF MayFollow
<1> QED
  BY <1>1, <1>2 DEF Mirrors

LEMMA SkipSpaceLexes ==
  ASSUME TypeOK, NEW starts, NEW kept, Lexes(starts, kept), SkipSpace
  PROVE  LexInv'
<1>0. PICK n \in Nat : n = index - 1
  BY HereFacts
<1>1. /\ within = "code" /\ Left /\ Char \in Spaces
      /\ (pending_space' <=> normalized # <<>>) /\ within' = "code"
      /\ index' = index + 1 /\ sql' = sql /\ Char = sql[index] /\ normalized' = normalized
      /\ within \notin Quotes /\ within' \notin Quotes
  BY DEF SkipSpace, Char, Quotes
<1>2. /\ index = n + 1 /\ index' - 1 = n + 1
      /\ normalized # <<>> <=> kept # {}
      /\ Lexed(sql, starts, n) /\ Taken(sql, n, starts, kept, normalized)
      /\ Mirrors(Moved(starts, kept))
      /\ \A b \in starts : InPiece(starts, b, n) => Closes(sql, b, n)
  BY <1>0, <1>1, HereFacts, TakenFacts DEF Lexes, Stands
<1>3. sql[n + 1] \in Spaces /\ ~IsText(sql, n + 1) /\ Closes(sql, n + 1, n + 1)
  BY <1>1, <1>2 DEF IsText, Closes, Pair, Spaces, Quotes
<1>4. PICK more, moved : more = starts \cup {n + 1} /\ moved = Moved(starts, kept)
  OBVIOUS
<1>5. /\ Lexed(sql, more, n + 1) /\ Taken(sql, n + 1, more, kept, normalized)
      /\ Moved(more, kept) = moved /\ n + 1 \notin kept
  BY <1>2, <1>3, <1>4, GapStarts
<1>6. \A i : InPiece(more, i, n + 1) => i = n + 1
  <2>1. starts \in SUBSET (1 .. n)
    BY <1>2 DEF Taken
  <2> QED
    BY <1>4, <2>1, StartsAnew
<1>7. Mirrors(moved)'
  BY <1>1, <1>2, <1>4, GapMirrors
<1>8. Stands(more)'
  BY <1>1, <1>2, <1>3, <1>6 DEF Stands
<1>9. Leaves(kept)'
  BY <1>1, <1>2, <1>5 DEF Leaves
<1>10. Lexes(more, kept)'
  BY <1>1, <1>2, <1>5, <1>7, <1>8, <1>9 DEF Lexes
<1> QED
  BY <1>10 DEF LexInv

\* Both characters of an opening mark belong to the comment.
LEMMA OpenLexes ==
  ASSUME TypeOK, NEW starts, NEW kept, Lexes(starts, kept), OpenLine \/ OpenBlock
  PROVE  LexInv'
<1>0. PICK n \in Nat : n = index - 1
  BY HereFacts
<1>1. /\ within = "code" /\ Left /\ index < Len(sql) /\ index' = index + 2
      /\ \/ within' = "line" /\ Pair(sql, index, "-", "-")
         \/ within' = "block" /\ Pair(sql, index, "/", "*")
      /\ UNCHANGED <<sql, pending_space, normalized>>
      /\ within \notin Quotes /\ within' \notin Quotes /\ within' # "code"
  BY DEF OpenLine, OpenBlock, Opens, Ahead, Char, Pair, Quotes
<1>2. /\ index = n + 1 /\ index' = n + 3 /\ index' - 1 = n + 2 /\ n + 2 \in Nat /\ (n + 1) + 1 = n + 2
      /\ Lexed(sql, starts, n) /\ Taken(sql, n, starts, kept, normalized)
      /\ Mirrors(Moved(starts, kept))
      /\ \A b \in starts : InPiece(starts, b, n) => Closes(sql, b, n)
  <2>1. index = n + 1 /\ index' = n + 3 /\ index' - 1 = n + 2 /\ n + 2 \in Nat /\ (n + 1) + 1 = n + 2
    BY <1>0, <1>1, HereFacts
  <2> QED
    BY <1>0, <1>1, <2>1 DEF Lexes, Stands
<1>3. ~IsText(sql, n + 1) /\ ~Closes(sql, n + 1, n + 1)
      /\ (within' = "block" => ~Closes(sql, n + 1, n + 2) /\ ~Closes(sql, n + 1, n + 3))
  <2>1. CASE within' = "line"
    BY <1>1, <1>2, <2>1 DEF IsText, Closes, Pair
  <2>2. CASE within' = "block"
    BY <1>1, <1>2, <2>2 DEF IsText, Closes, Pair
  <2> QED
    BY <1>1, <2>1, <2>2
<1>4. PICK more, moved : more = starts \cup {n + 1} /\ moved = Moved(starts, kept)
  OBVIOUS
<1>5. /\ Lexed(sql, more, n + 1) /\ Taken(sql, n + 1, more, kept, normalized)
      /\ Moved(more, kept) = moved /\ n + 1 \in more
      /\ InPiece(more, n + 1, n + 1)
  BY <1>2, <1>3, <1>4, GapStarts
<1>6. /\ Lexed(sql, more, n + 2) /\ Taken(sql, n + 2, more, kept, normalized)
      /\ InPiece(more, n + 1, n + 2) /\ n + 2 \notin kept
  BY <1>2, <1>3, <1>5, GapGoesOn
<1>7. Mirrors(moved)'
  BY <1>1, <1>2, <1>4, GapMirrors
<1>8. Stands(more)'
  <2>1. within' # "block" => within' = "line" /\ Pair(sql, n + 1, "-", "-")
    BY <1>1, <1>2
  <2>2. within' # "line" => within' = "block" /\ Pair(sql, n + 1, "/", "*")
    BY <1>1, <1>2
  <2>3. (n + 1) + 2 <= index'
    BY <1>2
  <2> QED
    BY <1>1, <1>2, <1>3, <1>5, <1>6, <2>1, <2>2, <2>3 DEF Stands
<1>9. Leaves(kept)'
  BY <1>1, <1>2, <1>6 DEF Leaves
<1>10. Lexes(more, kept)'
  BY <1>1, <1>2, <1>5, <1>6, <1>7, <1>8, <1>9 DEF Lexes
<1> QED
  BY <1>10 DEF LexInv

LEMMA SkipInCommentLexes ==
  ASSUME TypeOK, NEW starts, NEW kept, Lexes(starts, kept), SkipInComment
  PROVE  LexInv'
<1>0. PICK n \in Nat : n = index - 1
  BY HereFacts
<1>1. /\ Left /\ index' = index + 1
      /\ within' = within /\ within \in {"line", "block"}
      /\ within = "line" => sql[index] # "\n"
      /\ within = "block" => ~Pair(sql, index, "*", "/")
      /\ UNCHANGED <<sql, pending_space, normalized>>
      /\ within \notin Quotes /\ within # "code"
  BY DEF SkipInComment, CommentEnds, BlockCloses, Char, Ahead, Pair, Quotes
<1>2. /\ index = n + 1 /\ index' = n + 2 /\ index' - 1 = n + 1
      /\ Lexed(sql, starts, n) /\ Taken(sql, n, starts, kept, normalized)
      /\ Mirrors(Moved(starts, kept))
  <2>1. index = n + 1 /\ index' = n + 2 /\ index' - 1 = n + 1
    BY <1>0, <1>1, HereFacts
  <2> QED
    BY <1>0, <2>1 DEF Lexes
<1>3. PICK b \in starts :
         /\ InPiece(starts, b, n)
         /\ within = "line" => Pair(sql, b, "-", "-")
         /\ within = "block" => /\ Pair(sql, b, "/", "*") /\ b + 2 <= n + 1
                                /\ ~Closes(sql, b, n) /\ ~Closes(sql, b, n + 1)
  BY <1>0, <1>1, <1>2 DEF Lexes, Stands
<1>4. ~IsText(sql, b) /\ ~Closes(sql, b, n) /\ b \in Nat
  <2>1. b \in Nat
    BY <1>2 DEF Taken
  <2>2. CASE within = "line"
    BY <1>1, <1>2, <1>3, <2>1, <2>2 DEF IsText, Closes
  <2>3. CASE within = "block"
    BY <1>3, <2>1, <2>3 DEF IsText
  <2> QED
    BY <1>1, <2>2, <2>3, <2>1
<1>5. /\ Lexed(sql, starts, n + 1) /\ Taken(sql, n + 1, starts, kept, normalized)
      /\ InPiece(starts, b, n + 1) /\ n + 1 \notin kept
  BY <1>2, <1>3, <1>4, GapGoesOn
<1>6. PICK moved : moved = Moved(starts, kept)
  OBVIOUS
<1>7. Mirrors(moved)'
  BY <1>1, <1>2, <1>6, GapMirrors
<1>8. Stands(starts)'
  <2>1. CASE within = "line"
    BY <1>1, <1>2, <1>3, <1>5, <2>1 DEF Stands
  <2>2. CASE within = "block"
    <3>1. ~Closes(sql, b, n + 2)
      <4>1. (n + 2) - 1 = n + 1 /\ b + 2 <= n + 2
        BY <1>3, <1>4, <2>2
      <4>2. ~Pair(sql, n + 1, "*", "/")
        BY <1>1, <1>2, <2>2
      <4> QED
        BY <1>3, <2>2, <4>1, <4>2 DEF Closes
    <3>2. b + 2 <= index'
      BY <1>2, <1>3, <1>4, <2>2
    <3> QED
      BY <1>1, <1>2, <1>3, <1>5, <2>2, <3>1, <3>2 DEF Stands
  <2> QED
    BY <1>1, <2>1, <2>2
<1>9. Leaves(kept)'
  BY <1>1, <1>2, <1>5 DEF Leaves
<1>10. Lexes(starts, kept)'
  BY <1>1, <1>2, <1>5, <1>6, <1>7, <1>8, <1>9 DEF Lexes
<1> QED
  BY <1>10 DEF LexInv

\* A comment ends before what it ends at, or with the text.
LEMMA CloseHereLexes ==
  ASSUME TypeOK, NEW starts, NEW kept, Lexes(starts, kept), CloseComment, index' = index
  PROVE  LexInv'
<1>0. PICK n \in Nat : n = index - 1
  BY HereFacts
<1>1. /\ within' = "code" /\ within \in {"line", "block"}
      /\ (pending_space' <=> normalized # <<>>)
      /\ Left => within = "line" /\ Char = "\n"
      /\ UNCHANGED <<sql, normalized>>
      /\ within \notin Quotes /\ within' \notin Quotes /\ within # "code"
  <2>1. within = "block" /\ Left => index' = index + 2
    BY DEF CloseComment
  <2>2. index \in Nat
    BY ScanFacts
  <2>3. ~(within = "block" /\ Left)
    BY <2>1, <2>2
  <2> QED
    BY <2>3 DEF CloseComment, CommentEnds, Quotes
<1>2. /\ index = n + 1 /\ index' - 1 = n
      /\ normalized # <<>> <=> kept # {}
      /\ Lexed(sql, starts, n) /\ Taken(sql, n, starts, kept, normalized)
      /\ Mirrors(Moved(starts, kept)) /\ n \notin kept
  BY <1>0, <1>1, HereFacts, TakenFacts DEF Lexes, Leaves
<1>3. PICK moved : moved = Moved(starts, kept)
  OBVIOUS
<1>4. Mirrors(moved)'
  BY <1>1, <1>2, <1>3, GapMirrors
<1>5. ASSUME Left', NEW i \in starts, InPiece(starts, i, n) PROVE Closes(sql, i, n)
  <2>1. Left
    BY <1>1, <1>5 DEF Left
  <2>2. PICK b \in starts : InPiece(starts, b, n) /\ Pair(sql, b, "-", "-")
    BY <1>0, <1>1, <2>1 DEF Lexes, Stands
  <2>3. i = b
    <3>1. starts \in SUBSET Nat
      BY <1>2 DEF Taken
    <3> QED
      BY <1>5, <2>2, <3>1, OnePiece
  <2>4. n < Len(sql) /\ sql[n + 1] = "\n"
    BY <1>1, <1>2, <2>1, ScanFacts DEF Left, Char
  <2> QED
    BY <2>2, <2>3, <2>4 DEF Closes, Pair, Quotes
<1>6. Stands(starts)'
  BY <1>1, <1>2, <1>5 DEF Stands
<1>7. Leaves(kept)'
  BY <1>1, <1>2 DEF Leaves
<1>8. Lexes(starts, kept)'
  BY <1>1, <1>2, <1>3, <1>4, <1>6, <1>7 DEF Lexes
<1> QED
  BY <1>8 DEF LexInv

\* The mark that ends a block belongs to it.
LEMMA CloseBlockLexes ==
  ASSUME TypeOK, NEW starts, NEW kept, Lexes(starts, kept), CloseComment, within = "block", Left
  PROVE  LexInv'
<1>0. PICK n \in Nat : n = index - 1
  BY HereFacts
<1>1. /\ within' = "code" /\ index' = index + 2 /\ Pair(sql, index, "*", "/")
      /\ (pending_space' <=> normalized # <<>>)
      /\ UNCHANGED <<sql, normalized>>
      /\ within \notin Quotes /\ within' \notin Quotes
  BY DEF CloseComment, CommentEnds, BlockCloses, Char, Ahead, Pair, Quotes
<1>2. /\ index = n + 1 /\ index' - 1 = n + 2 /\ n + 1 \in Nat /\ n + 2 = (n + 1) + 1
      /\ (n + 2) - 1 = n + 1
      /\ normalized # <<>> <=> kept # {}
      /\ Lexed(sql, starts, n) /\ Taken(sql, n, starts, kept, normalized)
      /\ Mirrors(Moved(starts, kept))
  <2>1. index = n + 1 /\ index' - 1 = n + 2 /\ n + 1 \in Nat /\ n + 2 = (n + 1) + 1
        /\ (n + 2) - 1 = n + 1
    BY <1>0, <1>1, HereFacts
  <2> QED
    BY <1>0, <2>1, TakenFacts DEF Lexes
<1>3. PICK b \in starts :
         /\ InPiece(starts, b, n)
         /\ Pair(sql, b, "/", "*") /\ b + 2 <= n + 1
         /\ ~Closes(sql, b, n) /\ ~Closes(sql, b, n + 1)
  BY <1>0, <1>1, <1>2 DEF Lexes, Stands, Quotes
<1>4. ~IsText(sql, b) /\ starts \in SUBSET Nat
  BY <1>2, <1>3 DEF IsText, Taken
<1>5. /\ Lexed(sql, starts, n + 1) /\ Taken(sql, n + 1, starts, kept, normalized)
      /\ InPiece(starts, b, n + 1)
  BY <1>2, <1>3, <1>4, GapGoesOn
<1>6. /\ Lexed(sql, starts, n + 2) /\ Taken(sql, n + 2, starts, kept, normalized)
      /\ InPiece(starts, b, n + 2) /\ n + 2 \notin kept
  BY <1>2, <1>3, <1>4, <1>5, GapGoesOn
<1>7. Closes(sql, b, n + 2)
  <2>1. b + 3 <= n + 2
    BY <1>3, <1>4
  <2>2. Pair(sql, (n + 2) - 1, "*", "/") /\ sql[b] = "/"
    BY <1>1, <1>2, <1>3 DEF Pair
  <2> QED
    BY <2>1, <2>2 DEF Closes, Pair, Quotes
<1>8. PICK moved : moved = Moved(starts, kept)
  OBVIOUS
<1>9. Mirrors(moved)'
  BY <1>1, <1>2, <1>8, GapMirrors
<1>10. Stands(starts)'
  <2>1. ASSUME NEW i \in starts, InPiece(starts, i, n + 2) PROVE Closes(sql, i, n + 2)
    <3>1. i = b
      BY <1>2, <1>4, <1>6, <2>1, OnePiece
    <3> QED
      BY <1>7, <3>1
  <2> QED
    BY <1>1, <1>2, <2>1 DEF Stands
<1>11. Leaves(kept)'
  BY <1>1, <1>2, <1>6 DEF Leaves
<1>12. Lexes(starts, kept)'
  BY <1>1, <1>2, <1>6, <1>8, <1>9, <1>10, <1>11 DEF Lexes
<1> QED
  BY <1>12 DEF LexInv

-----------------------------------------------------------------------------
(* Quoted texts *)

\* What is written next goes on with the text, and no gap comes before it.
LEMMA AppendGoesOn ==
  ASSUME NEW text \in Seq(Characters), NEW c \in Characters
  PROVE  GoesOn(text, Append(text, c), 0, c)
BY AppendFacts DEF GoesOn

\* The scan is in a quoted piece: its start, and what that says of the piece.
LEMMA WithinQuoted ==
  ASSUME TypeOK, NEW starts, NEW kept, Lexes(starts, kept), within \in Quotes, NEW n \in Nat, n = index - 1
  PROVE  \E b \in starts :
           /\ InPiece(starts, b, n) /\ sql[b] = within /\ Count(sql, within, b, n) % 2 = 1
           /\ IsText(sql, b) /\ ~Pair(sql, b, "-", "-") /\ ~Pair(sql, b, "/", "*")
<1>1. PICK b \in starts :
        InPiece(starts, b, n) /\ sql[b] = within /\ Count(sql, within, b, n) % 2 = 1
  BY DEF Lexes, Stands, Quotes
<1>2. IsText(sql, b) /\ ~Pair(sql, b, "-", "-") /\ ~Pair(sql, b, "/", "*")
  BY <1>1 DEF IsText, Pair, Quotes, Spaces
<1> QED
  BY <1>1, <1>2

LEMMA QuotedOnceLexes ==
  ASSUME TypeOK, NEW starts, NEW kept, Lexes(starts, kept), QuotedChar,
         ~(Char = within /\ Ahead(within))
  PROVE  LexInv'
<1>0. PICK n \in Nat : n = index - 1
  BY HereFacts
<1>1. /\ within \in Quotes /\ Left /\ Char \in Characters /\ Char = sql[index]
      /\ normalized \in Seq(Characters) /\ Kept(Char) \in Characters
      /\ normalized' = Append(normalized, Kept(Char)) /\ index' = index + 1
      /\ within' = (IF Char = within THEN "code" ELSE within)
      /\ UNCHANGED <<sql, pending_space>>
      /\ within # "code" /\ "code" \notin Quotes
  BY ScanFacts, CharTyped, LowerTyped DEF QuotedChar, Char, Quotes
<1>2. /\ index = n + 1 /\ index' - 1 = n + 1
      /\ starts \in SUBSET (1 .. n) /\ kept \in SUBSET (1 .. n) /\ starts \in SUBSET Nat
      /\ Lexed(sql, starts, n) /\ Taken(sql, n, starts, kept, normalized)
      /\ Mirrors(Moved(starts, kept)) /\ n \in kept /\ ~pending_space
      /\ sql[n + 1] = Char
  <2>1. index = n + 1 /\ index' - 1 = n + 1
    BY <1>0, <1>1, HereFacts
  <2>2. starts \in SUBSET (1 .. n) /\ kept \in SUBSET (1 .. n) /\ starts \in SUBSET Nat
    BY <1>0, TakenFacts
  <2>3. n \in kept /\ ~pending_space
    BY <1>0, <1>1 DEF Lexes, Leaves
  <2> QED
    BY <1>0, <1>1, <2>1, <2>2, <2>3 DEF Lexes
<1>3. PICK b \in starts :
        /\ InPiece(starts, b, n) /\ sql[b] = within /\ Count(sql, within, b, n) % 2 = 1
        /\ IsText(sql, b) /\ ~Pair(sql, b, "-", "-") /\ ~Pair(sql, b, "/", "*")
  BY <1>0, <1>1, WithinQuoted
<1>4. /\ Lexed(sql, starts, n + 1) /\ InPiece(starts, b, n + 1)
      /\ Count(sql, within, b, n + 1) % 2 = IF Char = within THEN 0 ELSE 1
  BY <1>1, <1>2, <1>3, QuotedOn
<1>5. (Kept(Char) = within <=> Char = within) /\ Kept(Char) = Spelling(sql, b, n + 1)
  <2>1. Lower(Char) = within <=> Char = within
    BY <1>1, LowerMark
  <2> QED
    BY <1>2, <1>3, <2>1 DEF Kept, Spelling
<1>6. PICK whole, moved : whole = kept \cup {n + 1} /\ moved = Moved(starts, kept)
  OBVIOUS
<1>7. Taken(sql, n + 1, starts, whole, normalized') /\ Moved(starts, whole) = moved
  <2>1. GoesOn(normalized, normalized', 0, Spelling(sql, b, n + 1))
    BY <1>1, <1>5, AppendGoesOn
  <2>2. ~GapAfter(kept, n) /\ n + 1 \notin starts
    BY <1>2 DEF GapAfter
  <2>3. Comes(sql, n, starts, starts, b, kept, whole, normalized, 0, normalized')
    BY <1>2, <1>3, <1>4, <1>6, <2>1, <2>2 DEF Comes
  <2>4. /\ Taken(sql, n + 1, starts, whole, normalized')
        /\ n + 1 \notin starts /\ 0 = 0 => Moved(starts, whole) = Moved(starts, kept)
    BY <2>3, TextTaken
  <2> QED
    BY <1>6, <2>2, <2>4
<1>8. Mirrors(moved)'
  <2>1. /\ Lexing(normalized', moved)
        /\ Char # within => IsQuoted(normalized', moved, within)
        /\ Char = within => MayEnd(normalized', moved)
    <3>1. Lexing(normalized, moved) /\ IsQuoted(normalized, moved, within)
      BY <1>1, <1>2, <1>6 DEF Mirrors
    <3>2. /\ Lexing(Append(normalized, Kept(Char)), moved)
          /\ Kept(Char) # within => IsQuoted(Append(normalized, Kept(Char)), moved, within)
          /\ Kept(Char) = within => MayEnd(Append(normalized, Kept(Char)), moved)
      BY <1>1, <3>1, WriteQuoted
    <3> QED
      BY <1>1, <1>5, <3>2
  <2>2. ASSUME Char = within, Left' PROVE MayFollow(normalized', Char')
    <3>1. Char' = sql[index + 1] /\ index + 1 <= Len(sql)
      BY <1>1, <2>2 DEF Char, Left
    <3>2. index < Len(sql)
      BY <3>1, HereFacts, ScanFacts
    <3>3. Char' # within
      BY <2>2, <3>1, <3>2 DEF Ahead
    <3>4. normalized'[Len(normalized')] = within
      BY <1>1, <1>5, <2>2, AppendFacts
    <3> QED
      BY <1>1, <3>3, <3>4 DEF MayFollow, Quotes
  <2>3. CASE Char = within
    BY <1>1, <2>1, <2>2, <2>3 DEF Mirrors
  <2>4. CASE Char # within
    BY <1>1, <2>1, <2>4 DEF Mirrors
  <2> QED
    BY <2>3, <2>4
<1>9. Stands(starts)'
  <2>1. CASE Char = within
    <3>1. ASSUME Left', NEW i \in starts, InPiece(starts, i, n + 1) PROVE Closes(sql, i, n + 1)
      <4>1. i = b
        BY <1>2, <1>4, <3>1, OnePiece
      <4>2. n + 1 < Len(sql) => sql[(n + 1) + 1] # within
        BY <1>2, <2>1 DEF Ahead
      <4>3. Count(sql, sql[b], b, n + 1) % 2 = 0
        BY <1>3, <1>4, <2>1
      <4> QED
        BY <1>3, <4>1, <4>2, <4>3 DEF Closes
    <3> QED
      BY <1>1, <1>2, <2>1, <3>1 DEF Stands
  <2>2. CASE Char # within
    <3>1. within' = within /\ within # "line" /\ within # "block" /\ Count(sql, within, b, n + 1) % 2 = 1
      BY <1>1, <1>4, <2>2 DEF Quotes
    <3> QED
      BY <1>1, <1>2, <1>3, <1>4, <3>1 DEF Stands
  <2> QED
    BY <2>1, <2>2
<1>10. Leaves(whole)'
  <2>1. n + 1 \in whole /\ within' \notin {"line", "block"}
    BY <1>1, <1>6 DEF Quotes
  <2> QED
    BY <1>1, <1>2, <2>1 DEF Leaves
<1>11. Lexes(starts, whole)'
  BY <1>1, <1>2, <1>4, <1>7, <1>8, <1>9, <1>10 DEF Lexes
<1> QED
  BY <1>11 DEF LexInv

LEMMA QuotedTwiceLexes ==
  ASSUME TypeOK, NEW starts, NEW kept, Lexes(starts, kept), QuotedChar,
         Char = within, Ahead(within)
  PROVE  LexInv'
<1>0. PICK n \in Nat : n = index - 1
  BY HereFacts
<1>1. /\ within \in Quotes /\ within \in Characters /\ Char = sql[index]
      /\ normalized \in Seq(Characters) /\ Len(sql) \in Nat
      /\ normalized' = Append(Append(normalized, within), within) /\ index' = index + 2
      /\ UNCHANGED <<sql, pending_space, within>>
      /\ within \notin {"code", "line", "block"}
  <2>1. within \in Characters
    BY DEF QuotedChar, Characters
  <2>2. normalized \o <<Char, Char>> = Append(Append(normalized, within), within)
    BY <2>1, ScanFacts, AppendTyped
  <2> QED
    BY <2>1, <2>2, ScanFacts DEF QuotedChar, Char, Quotes
<1>2. /\ index = n + 1 /\ index' - 1 = n + 2 /\ n + 1 \in Nat /\ (n + 1) + 1 = n + 2
      /\ starts \in SUBSET (1 .. n) /\ kept \in SUBSET (1 .. n)
      /\ Lexed(sql, starts, n) /\ Taken(sql, n, starts, kept, normalized)
      /\ Mirrors(Moved(starts, kept)) /\ n \in kept /\ ~pending_space
      /\ sql[n + 1] = within /\ sql[n + 2] = within /\ n + 2 <= Len(sql)
  <2>1. index = n + 1 /\ index' - 1 = n + 2 /\ n + 1 \in Nat /\ (n + 1) + 1 = n + 2
    BY <1>0, <1>1, HereFacts
  <2>2. starts \in SUBSET (1 .. n) /\ kept \in SUBSET (1 .. n)
    BY <1>0, TakenFacts
  <2>3. n \in kept /\ ~pending_space
    BY <1>0, <1>1 DEF Lexes, Leaves
  <2>4. sql[n + 1] = within /\ sql[n + 2] = within /\ n + 2 <= Len(sql)
    BY <1>1, <2>1 DEF Ahead
  <2> QED
    BY <1>0, <2>1, <2>2, <2>3, <2>4 DEF Lexes
<1>3. PICK b \in starts :
        /\ InPiece(starts, b, n) /\ sql[b] = within /\ Count(sql, within, b, n) % 2 = 1
        /\ IsText(sql, b) /\ ~Pair(sql, b, "-", "-") /\ ~Pair(sql, b, "/", "*")
  BY <1>0, <1>1, WithinQuoted
<1>4. InPiece(starts, b, n + 1)
  BY <1>1, <1>2, <1>3, QuotedOn
<1>5. /\ Lexed(sql, starts, n + 2) /\ InPiece(starts, b, n + 2)
      /\ Count(sql, within, b, n + 2) % 2 = 1
  <2>1. /\ sql[b] \in Quotes /\ Count(sql, sql[b], b, n) % 2 = 1
        /\ sql[n + 1] = sql[b] /\ sql[n + 2] = sql[b] /\ n + 2 <= Len(sql) /\ Len(sql) \in Nat
    BY <1>1, <1>2, <1>3
  <2>2. /\ Lexed(sql, starts, n + 2) /\ InPiece(starts, b, n + 2)
        /\ Count(sql, sql[b], b, n + 2) % 2 = 1
    BY <1>2, <1>3, <2>1, QuotedTwiceOn
  <2> QED
    BY <1>3, <2>2
<1>6. Spelling(sql, b, n + 1) = within /\ Spelling(sql, b, n + 2) = within
  BY <1>1, <1>2, LowerMark DEF Spelling
<1>7. PICK once, half, whole, moved :
        /\ half = kept \cup {n + 1} /\ whole = half \cup {n + 2} /\ moved = Moved(starts, kept)
        /\ once = Append(normalized, within)
  OBVIOUS
<1>8. once \in Seq(Characters) /\ normalized' = Append(once, within)
  BY <1>1, <1>7, AppendTyped
<1>9. Taken(sql, n + 1, starts, half, once) /\ Moved(starts, half) = moved
  <2>1. GoesOn(normalized, once, 0, Spelling(sql, b, n + 1))
    BY <1>1, <1>6, <1>7, AppendGoesOn
  <2>2. ~GapAfter(kept, n) /\ n + 1 \notin starts
    BY <1>2 DEF GapAfter
  <2>3. Comes(sql, n, starts, starts, b, kept, half, normalized, 0, once)
    BY <1>2, <1>3, <1>4, <1>7, <2>1, <2>2 DEF Comes
  <2>4. /\ Taken(sql, n + 1, starts, half, once)
        /\ n + 1 \notin starts /\ 0 = 0 => Moved(starts, half) = Moved(starts, kept)
    BY <2>3, TextTaken
  <2> QED
    BY <1>7, <2>2, <2>4
<1>10. Taken(sql, n + 2, starts, whole, normalized') /\ Moved(starts, whole) = moved
  <2>1. GoesOn(once, normalized', 0, Spelling(sql, b, (n + 1) + 1))
    BY <1>1, <1>2, <1>6, <1>8, AppendGoesOn
  <2>2. n + 1 \in half /\ n + 2 \notin starts
    BY <1>2, <1>7
  <2>3. ~GapAfter(half, n + 1)
    BY <2>2 DEF GapAfter
  <2>4. starts \in SUBSET (1 .. n + 1) /\ half \in SUBSET (1 .. n + 1)
    BY <1>2, <1>7
  <2>5. Comes(sql, n + 1, starts, starts, b, half, whole, once, 0, normalized')
    BY <1>2, <1>3, <1>5, <1>7, <1>9, <2>1, <2>3, <2>4 DEF Comes
  <2>6. /\ Taken(sql, (n + 1) + 1, starts, whole, normalized')
        /\ (n + 1) + 1 \notin starts /\ 0 = 0 => Moved(starts, whole) = Moved(starts, half)
    BY <2>5, TextTaken
  <2> QED
    BY <1>2, <1>9, <2>2, <2>6
<1>11. Mirrors(moved)'
  <2>1. Lexing(normalized, moved) /\ IsQuoted(normalized, moved, within)
    BY <1>1, <1>2, <1>7 DEF Mirrors
  <2>2. Lexing(normalized', moved) /\ IsQuoted(normalized', moved, within)
    BY <1>1, <2>1, WriteTwice
  <2> QED
    BY <1>1, <2>2 DEF Mirrors
<1>12. Stands(starts)'
  BY <1>1, <1>2, <1>3, <1>5 DEF Stands
<1>13. Leaves(whole)'
  BY <1>1, <1>2, <1>7 DEF Leaves
<1>14. Lexes(starts, whole)'
  BY <1>1, <1>2, <1>5, <1>10, <1>11, <1>12, <1>13 DEF Lexes
<1> QED
  BY <1>14 DEF LexInv

-----------------------------------------------------------------------------
(* The theorems *)

LEMMA LexInit == Init => LexInv
BY LexStarts DEF Init, Started

LEMMA LexStep == TypeOK /\ LexInv /\ [Next]_vars => LexInv'
<1> SUFFICES ASSUME TypeOK, LexInv, [Next]_vars PROVE LexInv'
  OBVIOUS
<1>0. PICK starts, kept : Lexes(starts, kept)
  BY DEF LexInv
<1>1. CASE QuotedChar
  BY <1>0, <1>1, QuotedOnceLexes, QuotedTwiceLexes
<1>2. CASE OpenLine \/ OpenBlock
  BY <1>0, <1>2, OpenLexes
<1>3. CASE SkipInComment
  BY <1>0, <1>3, SkipInCommentLexes
<1>4. CASE CloseComment
  <2>1. (within = "block" /\ Left) \/ index' = index
    BY <1>4 DEF CloseComment
  <2> QED
    BY <1>0, <1>4, <2>1, CloseHereLexes, CloseBlockLexes
<1>5. CASE SkipSpace
  BY <1>0, <1>5, SkipSpaceLexes
<1>6. CASE CodeChar
  BY <1>0, <1>6, CodeCharLexes
<1>7. CASE Again
  <2>1. Started'
    BY <1>7 DEF Again, Started
  <2> QED
    BY <2>1, LexStarts, PTL
<1>8. CASE UNCHANGED vars
  <2>1. Stands(starts)' /\ Leaves(kept)'
    BY <1>0, <1>8 DEF Lexes, Stands, Leaves, vars, Left
  <2>2. PICK moved : moved = Moved(starts, kept)
    OBVIOUS
  <2>3. Mirrors(moved)'
    BY <1>0, <1>8, <2>2 DEF Lexes, Mirrors, vars, Left, Char
  <2>4. Lexes(starts, kept)'
    BY <1>0, <1>8, <2>1, <2>2, <2>3 DEF Lexes, vars
  <2> QED
    BY <2>4 DEF LexInv
<1> QED
  BY <1>1, <1>2, <1>3, <1>4, <1>5, <1>6, <1>7, <1>8 DEF Next

\* A scan that is done has read its whole text.
LEMMA ScannedAll ==
  ASSUME TypeOK, LexInv, Done
  PROVE  \E starts \in SUBSET (1 .. Len(sql)) :
           /\ Lexing(sql, starts)
           /\ Written(normalized, sql, starts, Texts(sql, starts, Len(sql)))
           /\ Lexing(normalized, Moved(starts, Texts(sql, starts, Len(sql))))
<1>1. index - 1 = Len(sql)
  BY ScanFacts DEF Done, Left
<1>2. PICK starts, kept : Lexes(starts, kept)
  BY DEF LexInv
<1>3. starts \in SUBSET (1 .. Len(sql)) /\ Lexing(sql, starts)
  BY <1>1, <1>2 DEF Lexes, Lexing, Taken
<1>4. kept = Texts(sql, starts, Len(sql)) /\ Written(normalized, sql, starts, kept)
  BY <1>1, <1>2 DEF Lexes, Taken
<1>5. Lexing(normalized, Moved(starts, kept))
  BY <1>2 DEF Lexes, Mirrors
<1> QED
  BY <1>3, <1>4, <1>5

\* The scan decides on quotes and comments as the lexer does, for a text of any
\* length, and of what is not a comment nothing is lost but gaps and the case of
\* what is not a literal (normalize_sql).
THEOREM AlwaysScansAsReference == Spec => []ScansAsReference
<1>1. TypeOK /\ LexInv => ScansAsReference
  BY ScannedAll DEF ScansAsReference
<1> QED
  BY TypeInit, TypeStep, LexInit, LexStep, <1>1, PTL DEF Spec

\* Of a text of any length, the template has the tokens and one space for each
\* gap between two of them: none is joined to the next, none is split and no
\* comment appears (normalize_sql).
THEOREM TokensAlwaysStayWhole == Spec => []TokensStayWhole
<1>1. TypeOK /\ LexInv => TokensStayWhole
  BY ScannedAll DEF TokensStayWhole
<1> QED
  BY TypeInit, TypeStep, LexInit, LexStep, <1>1, PTL DEF Spec

=============================================================================
