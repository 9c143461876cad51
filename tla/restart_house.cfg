\* A session is opened again on its own log.
SPECIFICATION Spec
CONSTANTS
  read = read
  other = other
  write = write
  script = script
  calm = calm
  zoomy = zoomy
  Templates = {read}
  Moods = {calm}
  Calm = calm
  MoodOn = FALSE
  EpochLength = 1
  AutoReturnOn = FALSE
  MinHold = 1
  MaxHold = 2
  HouseLimit = 1
  LogMayFail = FALSE
  Weight <- StashWeight
  Query <- Reads
  MaxRows = 2
  OldBoneOn = FALSE
  PerKey = 1
  Total = 1
  MaxInterventionRows = 2
  OversizeRaises = FALSE
  MaxResultRows <- NoCap
  Debug = FALSE
  StashRaises = FALSE
  TailChaseRaises = FALSE
  MayCrash = TRUE
  Calls <- Positional
  MaxCalls = 4
INVARIANT
  HouseIsProjection
CHECK_DEADLOCK FALSE
