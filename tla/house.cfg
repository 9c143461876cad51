\* The house of a session with automatic returns, where nothing fails and no
\* read skips on_result.
SPECIFICATION Spec
CONSTANTS
  read = read
  other = other
  write = write
  script = script
  calm = calm
  zoomy = zoomy
  Templates = {read, other, write}
  Moods = {calm}
  Calm = calm
  MoodOn = FALSE
  EpochLength = 1
  AutoReturnOn = TRUE
  MinHold = 1
  MaxHold = 3
  HouseLimit = 2
  LogMayFail = FALSE
  Weight <- StashWeight
  Query <- Reads
  MaxRows = 2
  OldBoneOn = FALSE
  PerKey = 1
  Total = 1
  MaxInterventionRows = 2
  OversizeRaises = FALSE
  MaxResultRows <- NoCap
  Debug = TRUE
  StashRaises = FALSE
  TailChaseRaises = FALSE
  MayCrash = FALSE
  Calls <- Positional
  MaxCalls = 4
SYMMETRY Interchangeable
INVARIANTS
  TypeOK
  OneTreasurePerTemplate
  ReleasedTemplatesAreBare
  LocationsMatchTreasures
  StashesApart
  StashedRowsStayHidden
  HouseIsProjection
  ScheduleMatchesHouse
  NoTreasureOverstays
PROPERTIES
  DebugOnlyAddsEvents
  KeepsDogHousePromise
CHECK_DEADLOCK FALSE
