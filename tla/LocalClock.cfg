\* Every search from two local days on, in a day of six minutes.
SPECIFICATION Spec
CONSTANTS
  DayLength = 6
  BackLimit = 2
  QuietJumps = 16
  KeyJumps = 40
  Schedules <- MCSchedules
  Zones <- MCZones
  Starts <- MCStarts
  YearStarts <- MCYearStarts
  MonthStarts <- MCMonthStarts
  NoWindow = NoWindow
  Null = Null
INVARIANT NeverTooEarly
INVARIANT OnlyShortSpellsOverlooked
INVARIANT GivesUpSixDaysOn
INVARIANT ResetsOnMonday
INVARIANT SilentInItsWindows
\* A search ends.
CHECK_DEADLOCK FALSE
