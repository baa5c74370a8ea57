\* The shipped cooldown, a tick a day: three dismissals in thirty days buy seven.
SPECIFICATION MCSpec
CONSTANTS
  reminder = reminder
  insight = insight
  focus = focus
  normalMode = normalMode
  Users <- JustBase
  Candidates <- MCCandidates
  Types = {reminder}
  Policies <- CooldownAlone
  DayLength = 1
  AllowedModes = {normalMode}
  IntensityFloors <- MCFloors
  QuietFloor = "critical"
  RampTicks = 2
  RampFloor = "high"
  Dismissals = 3
  Within = 30
  Silence = 7
  Keep = 90
  AllowedMinutes = {0, 1, 2}
  WindowFloor = "critical"
  WindowZone = 1
  ConsentName = "ad"
  ConsentMinutes = {1, 2}
  ConsentZone = Null
  InboundTicks = 1
  CostFalseAlarm = 1
  CostMissedHelp = 1
  Certain = 2
  Limit = 1
  BypassPriority = "critical"
  Recorders = {r1}
  MaxLate = 0
  MaxNow = 36
  MaxSent = 2
  MaxCalls = 3
  Null = Null
INVARIANT SilenceRunsItsCourse
\* The bounds end a behaviour.
CHECK_DEADLOCK FALSE
