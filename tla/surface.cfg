\* Two cursors, results of up to four rows in batches of two, and caps around two
\* batches; sizes of fetchmany below, at and past what is left.
SPECIFICATION FairSpec
CONSTANTS
  first = first
  second = second
  NoCap = NoCap
  Cursors = {first, second}
  ChunkSize = 2
  Caps = {NoCap, 2, 3}
  Sizes <- AnySize
  MaxResult = 4
  MaxCalls = 5
INVARIANTS
  VerdictIsExact
  NeverReadsPastCap
PROPERTIES
  KeepsResultSets
  StatementsEnd
CHECK_DEADLOCK FALSE
