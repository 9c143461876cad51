\* Texts of up to four characters of any class, and of up to six, seven and
\* eight where quotes, line comments and block comments meet.
SPECIFICATION Spec
CONSTANTS
  MixedLength = 4
  QuoteLength = 6
  LineLength = 7
  BlockLength = 8
  Statements <- AllTexts
INVARIANTS
  TypeOK
  ScansAsReference
  TokensStayWhole
  TemplatesStand
\* The scan stops when it is done.
CHECK_DEADLOCK FALSE
