\* STASH alone, certain in one mood and ruled out in the other.
SPECIFICATION ReplaySpec
CONSTANTS
  read = read
  calm = calm
  zoomy = zoomy
  Templates = {read}
  Moods = {calm, zoomy}
  Calm = calm
  MoodOn = TRUE
  EpochLength = 1
  AutoReturnOn = FALSE
  MinHold = 1
  MaxHold = 1
  HouseLimit = 1
  LogMayFail = FALSE
  Weight <- StashByMood
  Query <- Reads
  MaxRows = 1
  OldBoneOn = FALSE
  PerKey = 1
  Total = 1
  MaxInterventionRows = 2
  OversizeRaises = FALSE
  MaxResultRows <- NoCap
  Debug = FALSE
  StashRaises = FALSE
  TailChaseRaises = FALSE
  MayCrash = FALSE
  Calls <- Positional
  MaxCalls = 4
INVARIANT
  DebugFiresTheSame
CHECK_DEADLOCK FALSE
