\* SLOTH takes the one fault of a call, and its result is not evaluated.
SPECIFICATION Spec
CONSTANTS
  read = read
  other = other
  write = write
  script = script
  calm = calm
  zoomy = zoomy
  Templates = {read}
  Moods = {calm}
  Calm = calm
  MoodOn = FALSE
  EpochLength = 1
  AutoReturnOn = FALSE
  MinHold = 1
  MaxHold = 2
  HouseLimit = 1
  LogMayFail = FALSE
  Weight <- DelayWeight
  Query <- Reads
  MaxRows = 2
  OldBoneOn = FALSE
  PerKey = 1
  Total = 1
  MaxInterventionRows = 2
  OversizeRaises = FALSE
  MaxResultRows <- NoCap
  Debug = FALSE
  StashRaises = FALSE
  TailChaseRaises = FALSE
  MayCrash = FALSE
  Calls <- Positional
  MaxCalls = 4
INVARIANT
  StashedRowsStayHidden
CHECK_DEADLOCK FALSE
