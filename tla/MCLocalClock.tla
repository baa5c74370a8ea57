----------------------------- MODULE MCLocalClock -----------------------------
EXTENDS LocalClock

W(s, e) == [start |-> s, end |-> e]
Windows == {W(5, 1), W(5, 2), W(2, 4), W(1, 3), W(0, 6), W(3, 2), W(0, 3), W(3, 0), W(4, 4)}
Levels == Windows \cup {NoWindow}
None == [d \in {} |-> NoWindow]

\* A window every day, another one on a weekday, another one on a date.
MCSchedules ==
  [default : Levels, days : {None} \cup [{2} -> Levels], dates : {None} \cup [{1} -> Levels]]

\* Clocks that go forward or back by up to BackLimit, and a skipped day.
MCZones == [at : {3, 6, 8, 13, 14}, jump : {-2, -1, 1, 2}]
           \cup {[at |-> 0, jump |-> 0], [at |-> 12, jump |-> 6]}

MCStarts == 0..14 \cup {30, 33}
\* A year, and a month of 31 days, begin on a Friday.
MCYearStarts == {-360, 5}
MCMonthStarts == {-26, 5, 36}

\* A night in quarters of an hour: at 02:00 the clocks of New York go back to 01:00.
\* The user is quiet from 01:15 to 02:30.
NewYorkInAutumn == {[at |-> 8, jump |-> -4]}
QuietNight == {[default |-> W(5, 10), days |-> None, dates |-> None]}
NightHours == 4..12
=============================================================================
