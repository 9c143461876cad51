\* Every kind of statement, every fault and both row limits, under debug and
\* with a mood and automatic returns; the house is full with one treasure.
SPECIFICATION Spec
CONSTANTS
  read = read
  other = other
  write = write
  script = script
  calm = calm
  zoomy = zoomy
  Templates = {read, other, write, script}
  Moods = {calm, zoomy}
  Calm = calm
  MoodOn = TRUE
  EpochLength = 1
  AutoReturnOn = TRUE
  MinHold = 1
  MaxHold = 2
  HouseLimit = 1
  LogMayFail = FALSE
  Weight <- MoodyWeight
  Query <- Statements
  MaxRows = 4
  OldBoneOn = TRUE
  PerKey = 1
  Total = 1
  MaxInterventionRows = 2
  OversizeRaises = TRUE
  MaxResultRows = 3
  Debug = TRUE
  StashRaises = TRUE
  TailChaseRaises = TRUE
  MayCrash = FALSE
  Calls <- AnyCall
  MaxCalls = 3
INVARIANTS
  OneFaultPerOperation
  InterventionsWithinOccurrences
  OneVerdictPerPhase
  InterruptedReadsLeaveNoDecision
  MoodIsProjection
PROPERTY
  ReturnsComeFirst
CHECK_DEADLOCK FALSE
