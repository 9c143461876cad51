\* A cursor whose second statement fails.
SPECIFICATION FairSpec
CONSTANTS
  first = first
  second = second
  NoCap = NoCap
  Cursors = {first}
  ChunkSize = 2
  Caps = {NoCap}
  Sizes <- AnySize
  MaxResult = 2
  MaxCalls = 3
PROPERTY FailedExecuteLeavesNothing
CHECK_DEADLOCK FALSE
