\* A file log whose writes may fail, and crashes with a restart on the same log.
SPECIFICATION FairSpec
CONSTANTS
  read = read
  other = other
  write = write
  script = script
  calm = calm
  zoomy = zoomy
  Templates = {read, other}
  Moods = {calm, zoomy}
  Calm = calm
  MoodOn = TRUE
  EpochLength = 2
  AutoReturnOn = TRUE
  MinHold = 2
  MaxHold = 2
  HouseLimit = 2
  LogMayFail = TRUE
  Weight <- StashWeight
  Query <- Reads
  MaxRows = 1
  OldBoneOn = FALSE
  PerKey = 1
  Total = 1
  MaxInterventionRows = 2
  OversizeRaises = FALSE
  MaxResultRows <- NoCap
  Debug = FALSE
  StashRaises = FALSE
  TailChaseRaises = FALSE
  MayCrash = TRUE
  Calls <- Positional
  MaxCalls = 4
INVARIANTS
  LocationsMatchTreasures
  SequenceGrows
  ReturnsAreOrdered
PROPERTIES
  KeepsDogHousePromise
  EveryCallEnds
CHECK_DEADLOCK FALSE
