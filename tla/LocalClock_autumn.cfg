\* A quiet night on which an hour comes twice.
SPECIFICATION Spec
CONSTANTS
  DayLength = 96
  BackLimit = 12
  QuietJumps = 16
  KeyJumps = 40
  Schedules <- QuietNight
  Zones <- NewYorkInAutumn
  Starts <- NightHours
  YearStarts <- MCYearStarts
  MonthStarts <- MCMonthStarts
  NoWindow = NoWindow
  Null = Null
INVARIANT EarliestEnd
\* A search ends.
CHECK_DEADLOCK FALSE
