\* The write of an automatic return's event fails.
SPECIFICATION Spec
CONSTANTS
  read = read
  other = other
  write = write
  script = script
  calm = calm
  zoomy = zoomy
  Templates = {read}
  Moods = {calm, zoomy}
  Calm = calm
  MoodOn = TRUE
  EpochLength = 2
  AutoReturnOn = TRUE
  MinHold = 1
  MaxHold = 2
  HouseLimit = 1
  LogMayFail = TRUE
  Weight <- StashWeight
  Query <- Reads
  MaxRows = 2
  OldBoneOn = FALSE
  PerKey = 1
  Total = 1
  MaxInterventionRows = 2
  OversizeRaises = FALSE
  MaxResultRows <- NoCap
  Debug = FALSE
  StashRaises = FALSE
  TailChaseRaises = FALSE
  MayCrash = FALSE
  Calls <- Positional
  MaxCalls = 4
INVARIANT
  MoodTickAssertion
CHECK_DEADLOCK FALSE
