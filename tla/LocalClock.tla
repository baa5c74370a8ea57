------------------------------ MODULE LocalClock ------------------------------
(***************************************************************************)
(* When a refusal ends: quietEndsAt(), the end of the quiet hours that     *)
(* silence a user, and nextKeyChange(), the reset of a budget counted per  *)
(* local day, ISO week or month.  Both jump ahead by the local clock, which *)
(* an offset change makes land early or late, then step back minute by     *)
(* minute to the first instant that is different.                          *)
(*                                                                         *)
(* Instants are whole minutes: both searches start at the floor of now.    *)
(* One behaviour is one search; an iteration of either loop is one action. *)
(***************************************************************************)
EXTENDS Integers, FiniteSets

CONSTANTS
  DayLength,     \* minutes in a local day
  BackLimit,     \* minutes a search steps back at most
  QuietJumps,    \* jumps of quietEndsAt()
  KeyJumps,      \* jumps of nextKeyChange()
  Schedules,     \* quiet hours of users
  Zones,         \* zones: the minute the offset changes, and by how much
  Starts,        \* the instants a search starts at
  YearStarts,    \* the days on which a year begins
  MonthStarts,   \* the days on which a month begins
  NoWindow, Null

ASSUME LengthAssumption == DayLength \in Nat \ {0} /\ BackLimit \in Nat
ASSUME JumpAssumption == QuietJumps \in Nat /\ KeyJumps \in Nat
ASSUME ZoneAssumption == Zones \subseteq [at : Int, jump : Int]
ASSUME StartAssumption == Starts \subseteq Int /\ Null \notin Int
\* Quiet hours have a window every day, or exceptions by weekday or by date.
Window == [start : Int, end : Int]
ASSUME ScheduleAssumption ==
  \A q \in Schedules :
    /\ q.default \in Window \cup {NoWindow}
    /\ \A day \in DOMAIN q.days : q.days[day] \in Window \cup {NoWindow}
    /\ \A day \in DOMAIN q.dates : q.dates[day] \in Window \cup {NoWindow}
ASSUME CalendarAssumption == YearStarts \subseteq Int /\ MonthStarts \subseteq Int

VARIABLES
  quiet,    \* the user's quiet hours
  zone,     \* the user's zone
  search,   \* "quiet", or the key that is to change: "day", "week" or "month"
  now,      \* the minute of the refusal
  at,       \* the instant the search has come to
  jumps,    \* jumps made
  steps,    \* steps back made
  pc,       \* "jump", "back" or "done"
  result    \* the answer: an instant, or Null

vars == <<quiet, zone, search, now, at, jumps, steps, pc, result>>

-----------------------------------------------------------------------------
(* The local clock *)

\* localClock(): the offset before the change is taken as zero.
Local(t) == IF t >= zone.at THEN t + zone.jump ELSE t
Day(t) == Local(t) \div DayLength
Minutes(t) == Local(t) % DayLength

DayBefore(day) == day - 1
WeekdayOf(day) == day % 7

\* The last of these days up to this one.
LastUpTo(days, day) == CHOOSE d \in days : d <= day /\ \A e \in days : e <= day => e <= d

\* Mutant: the year is the day's own, not that of its Thursday.
IsoWeekKeyOwnYear(day) ==
  LET thursday == day + 4 - (IF WeekdayOf(day) = 0 THEN 7 ELSE WeekdayOf(day))
      year == LastUpTo(YearStarts, day)
  IN  <<year, (thursday - year) \div 7 + 1>>

\* isoWeekKey(): the year of the week's Thursday, and the week in that year.
IsoWeekKey(day) ==
  LET thursday == day + 4 - (IF WeekdayOf(day) = 0 THEN 7 ELSE WeekdayOf(day))
      year == LastUpTo(YearStarts, thursday)
  IN  <<year, (thursday - year) \div 7 + 1>>

\* The key of the budget at an instant.
KeyAt(t) == CASE search = "day"   -> Day(t)
              [] search = "week"  -> IsoWeekKey(Day(t))
              [] search = "month" -> LastUpTo(MonthStarts, Day(t))

-----------------------------------------------------------------------------
(* Quiet hours *)

\* A date beats a weekday beats the default.  A single window is a default.
WindowFor(q, day) ==
  IF day \in DOMAIN q.dates THEN q.dates[day]
  ELSE IF WeekdayOf(day) \in DOMAIN q.days THEN q.days[WeekdayOf(day)]
  ELSE q.default

\* A window on the day it opens, and on the day after when it crosses midnight.
OpensOver(w, minutes) ==
  /\ w # NoWindow
  /\ IF w.start < w.end THEN minutes >= w.start /\ minutes < w.end
                        ELSE w.start # w.end /\ minutes >= w.start
SpillsOver(w, minutes) == w # NoWindow /\ w.start > w.end /\ minutes < w.end

\* Mutant: the window of the day before is not looked at.
QuietAtToday(q, day, minutes) ==
  IF OpensOver(WindowFor(q, day), minutes) THEN WindowFor(q, day) ELSE NoWindow

\* quietAt(): the window that silences this local time, or none.
QuietAt(q, day, minutes) ==
  LET today == WindowFor(q, day)
      yesterday == WindowFor(q, DayBefore(day))
  IN  IF OpensOver(today, minutes) THEN today
      ELSE IF SpillsOver(yesterday, minutes) THEN yesterday
      ELSE NoWindow

Hit(t) == QuietAt(quiet, Day(t), Minutes(t))

\* inWindow(): what the checks with a single window ask.
InWindow(minutes, start, end) ==
  IF start < end THEN minutes >= start /\ minutes < end
  ELSE start # end /\ (minutes >= start \/ minutes < end)

\* Does the check that asked still refuse at t?
Refuses(t) == IF search = "quiet" THEN Hit(t) # NoWindow ELSE KeyAt(t) = KeyAt(now)

-----------------------------------------------------------------------------
(* The searches *)

Init ==
  /\ search \in {"quiet", "day", "week", "month"}
  /\ quiet \in Schedules
  /\ search # "quiet" => quiet = CHOOSE q \in Schedules : TRUE
  /\ zone \in Zones
  /\ now \in Starts
  /\ at = now
  /\ jumps = 0
  /\ steps = 0
  /\ pc = "jump"
  /\ result = Null

\* Mutant: no care for an end at 24:00 met at 00:00.
UntilEndPlain(t) == (Hit(t).end - Minutes(t)) % DayLength

\* The jump to the end of the window, at least a minute.
UntilEnd(t) ==
  LET left == (Hit(t).end - Minutes(t)) % DayLength IN IF left = 0 THEN 1 ELSE left

QuietJump ==
  /\ search = "quiet" /\ pc = "jump" /\ jumps < QuietJumps
  /\ IF Hit(at) = NoWindow THEN pc' = "back" /\ UNCHANGED at
                           ELSE at' = at + UntilEnd(at) /\ UNCHANGED pc
  /\ jumps' = jumps + 1
  /\ UNCHANGED <<quiet, zone, search, now, steps, result>>

\* The next local midnight, by the clock at `at`.
KeyJump ==
  /\ search # "quiet" /\ pc = "jump" /\ jumps < KeyJumps
  /\ at' = at + DayLength - Minutes(at)
  /\ pc' = IF KeyAt(at') # KeyAt(now) THEN "back" ELSE "jump"
  /\ jumps' = jumps + 1
  /\ UNCHANGED <<quiet, zone, search, now, steps, result>>

GiveUp ==
  /\ pc = "jump"
  /\ jumps = IF search = "quiet" THEN QuietJumps ELSE KeyJumps
  /\ pc' = "done"
  /\ UNCHANGED <<quiet, zone, search, now, at, jumps, steps, result>>

\* Mutant: the search never steps back.
MayStepNever == FALSE

\* Mutant: it steps back without looking.
MayStepBlind == steps < BackLimit /\ at - 1 > now

\* The minute before is open too, and still after now.
MayStep == steps < BackLimit /\ at - 1 > now /\ ~Refuses(at - 1)

StepBack ==
  /\ pc = "back"
  /\ MayStep
  /\ at' = at - 1
  /\ steps' = steps + 1
  /\ UNCHANGED <<quiet, zone, search, now, jumps, pc, result>>

Return ==
  /\ pc = "back"
  /\ ~MayStep
  /\ pc' = "done"
  /\ result' = IF at > now THEN at ELSE Null
  /\ UNCHANGED <<quiet, zone, search, now, at, jumps, steps>>

Next == QuietJump \/ KeyJump \/ GiveUp \/ StepBack \/ Return

Spec == Init /\ [][Next]_vars

-----------------------------------------------------------------------------
(* Properties *)

TypeOK ==
  /\ at \in Int /\ at >= now
  /\ jumps \in 0..(QuietJumps + KeyJumps)
  /\ steps \in 0..BackLimit
  /\ pc \in {"jump", "back", "done"}
  /\ result \in Int \cup {Null}

\* The check does not refuse at the instant it named: no caller is sent back at
\* an hour that is still quiet, or with a budget that is still spent.
NeverTooEarly == result # Null => result > now /\ ~Refuses(result)

\* A spell of open time, after a change of the clocks met on the way and shorter
\* than it: the change cut it off, or the jump was that much too long.
ShortSpell(t) ==
  LET size == IF zone.jump < 0 THEN -zone.jump ELSE zone.jump
  IN  now < zone.at /\ zone.at <= t /\ \E u \in t..(t + size) : Refuses(u)

\* The minutes the search passed over.
Passed == now..((IF result = Null THEN at ELSE result) - 1)

\* The end of quiet hours named is the first one, unless the clocks change on the
\* way: then a spell shorter than the change may be overlooked, before more quiet
\* hours.  A reset is overlooked only when the clock goes back over a midnight just
\* passed, into the day before.  Zones repeat an hour or skip one, windows end in
\* that hour, schedules chain windows, and some midnights do not exist.
OnlyShortSpellsOverlooked ==
  pc = "done" /\ Refuses(now) =>
    \A t \in Passed :
      Refuses(t) \/ (IF search = "quiet" THEN ShortSpell(t) ELSE Day(t) < Day(now))

\* What the source promises of it: the earliest minute after now at which quiet
\* hours stop applying.
EarliestEnd ==
  search = "quiet" /\ pc = "done" /\ result # Null => \A t \in now + 1..result - 1 : Refuses(t)

\* The search for the end of quiet hours gives up only six days ahead or more,
\* so quiet hours that leave one weekday open always end; a budget's reset is
\* always found.
GivesUpSixDaysOn ==
  pc = "done" /\ result = Null /\ Refuses(now) =>
    search = "quiet" /\ at - now >= 6 * DayLength

\* A week's budget comes back when a Monday begins, and at the first one ahead,
\* also in the week a year begins in.
ResetsOnMonday ==
  search = "week" /\ pc = "done" =>
    /\ WeekdayOf(Day(result)) = 1 /\ Day(result - 1) # Day(result)
    /\ \A t \in now + 1..result - 1 : WeekdayOf(Day(t)) = 1 => Day(t) <= Day(now)

\* The local minutes the window of a day covers, into the next day when it crosses
\* midnight.
Covers(w, day, local) ==
  LET length == IF w.end < w.start THEN w.end + DayLength - w.start ELSE w.end - w.start
      from == day * DayLength + w.start
  IN  w # NoWindow /\ from <= local /\ local < from + length

\* A user is silenced for as long as a window lasts that opened today or yesterday,
\* whatever exceptions by date or weekday give either day another window or none;
\* and with the same window every day, exactly when inWindow() says so.
SilentInItsWindows ==
  /\ Hit(at) # NoWindow <=>
       \E day \in Day(at) - 1..Day(at) : Covers(WindowFor(quiet, day), day, Local(at))
  /\ (DOMAIN quiet.dates = {} /\ DOMAIN quiet.days = {} /\ quiet.default # NoWindow) =>
       (Hit(at) # NoWindow <=> InWindow(Minutes(at), quiet.default.start, quiet.default.end))
=============================================================================
