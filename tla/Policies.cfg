\* Two policies over one stream of two local days, with two callers of record().
SPECIFICATION MCSpec
CONSTANTS
  reminder = reminder
  insight = insight
  focus = focus
  normalMode = normalMode
  Users <- MCUsers
  Candidates <- MCCandidates
  Types = {reminder, insight}
  Policies <- MCPolicies0
  DayLength = 4
  AllowedModes = {normalMode}
  IntensityFloors <- MCFloors
  QuietFloor = "critical"
  RampTicks = 2
  RampFloor = "high"
  Dismissals = 2
  Within = 2
  Silence = 1
  Keep = 3
  AllowedMinutes = {0, 1, 2}
  WindowFloor = "critical"
  WindowZone = 1
  ConsentName = "ad"
  ConsentMinutes = {1, 2}
  ConsentZone = Null
  InboundTicks = 1
  CostFalseAlarm = 1
  CostMissedHelp = 1
  Certain = 2
  Limit = 1
  BypassPriority = "critical"
  Recorders = {r1, r2}
  MaxLate = 1
  MaxNow = 3
  MaxSent = 2
  MaxCalls = 4
  Null = Null
SYMMETRY Symmetry
INVARIANT StricterNeverMore
INVARIANT UrgencyNeverHurts
INVARIANT DismissalsSilence
\* The bounds end a behaviour.
CHECK_DEADLOCK FALSE
