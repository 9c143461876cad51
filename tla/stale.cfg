\* A stale read cache smaller than the reads of a session, with the house.
SPECIFICATION HistorySpec
CONSTANTS
  read = read
  other = other
  write = write
  script = script
  calm = calm
  zoomy = zoomy
  Templates = {read, other}
  Moods = {calm}
  Calm = calm
  MoodOn = FALSE
  EpochLength = 1
  AutoReturnOn = FALSE
  MinHold = 1
  MaxHold = 1
  HouseLimit = 2
  LogMayFail = FALSE
  Weight <- ReplayWeight
  Query <- Reads
  MaxRows = 1
  OldBoneOn = TRUE
  PerKey = 2
  Total = 3
  MaxInterventionRows = 1
  OversizeRaises = FALSE
  MaxResultRows <- NoCap
  Debug = FALSE
  StashRaises = FALSE
  TailChaseRaises = FALSE
  MayCrash = FALSE
  Calls <- Positional
  MaxCalls = 5
SYMMETRY Interchangeable
INVARIANTS
  StaleIndexesAgree
  CacheIsBounded
  OnlyTheOldestAreEvicted
  ReplaysWhatWasDelivered
  ReplaysAreRecent
  StashedRowsStayHidden
CHECK_DEADLOCK FALSE
