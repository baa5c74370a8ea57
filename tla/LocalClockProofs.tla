--------------------------- MODULE LocalClockProofs ---------------------------
(***************************************************************************)
(* The search for the end of a refusal, for every zone, schedule and start. *)
(* The invariant speaks of the instant the search stands at: while it      *)
(* steps back, that instant is open, so whenever it stops it may answer.   *)
(* That nothing was passed over takes two more, one for each search: while *)
(* it jumps, what lies behind is refused; while it steps back, what is not *)
(* lies within the steps that are left.                                    *)
(***************************************************************************)
EXTENDS LocalClock, TLAPS

\* A step changes neither the user nor the question.
Fixed == UNCHANGED <<quiet, zone, search, now>>

LEMMA StepFixed == [Next]_vars => Fixed
  BY DEF Next, vars, QuietJump, KeyJump, GiveUp, StepBack, Return, Fixed

\* The same question has the same answer before and after a step.
LEMMA SameHit == ASSUME Fixed, NEW t PROVE Hit(t)' = Hit(t)
  BY DEF Fixed, Hit, QuietAt, OpensOver, SpillsOver, WindowFor, Day, Minutes, Local

LEMMA SameKey == ASSUME Fixed, NEW t PROVE KeyAt(t)' = KeyAt(t)
<1>1. Day(t)' = Day(t)
  BY DEF Fixed, Day, Local
<1>2. search' = search
  BY DEF Fixed
<1>3. QED
  BY <1>1, <1>2 DEF KeyAt

\* Where the search stands while it steps back, and what it has answered.
OpenInv ==
  /\ pc \in {"jump", "back"} => result = Null
  /\ pc = "back" /\ at > now => ~Refuses(at)
  /\ result # Null => result > now /\ ~Refuses(result)

LEMMA SameRefusal == ASSUME Fixed, NEW t PROVE Refuses(t)' = Refuses(t)
<1>1. KeyAt(now)' = KeyAt(now)
  <2>1. now' = now
    BY DEF Fixed
  <2>2. \A u : KeyAt(u)' = KeyAt(u)
    BY SameKey
  <2>3. QED
    BY <2>1, <2>2
<1>2. QED
  BY <1>1, SameHit, SameKey DEF Refuses, Fixed

LEMMA OpenStep == ASSUME OpenInv, [Next]_vars PROVE OpenInv'
<1>1. Fixed
  BY StepFixed
<1>2. now' = now /\ search' = search
  BY <1>1 DEF Fixed
<1>3. \A t : Refuses(t)' = Refuses(t)
  BY <1>1, SameRefusal
<1>4. ASSUME QuietJump PROVE OpenInv'
  <2>1. pc = "jump" /\ result = Null /\ result' = result
    BY <1>4 DEF QuietJump, OpenInv
  <2>2. CASE Hit(at) = NoWindow
    <3>1. at' = at /\ pc' = "back"
      BY <1>4, <2>2 DEF QuietJump
    <3>2. ~Refuses(at)
      BY <1>4, <2>2 DEF QuietJump, Refuses
    <3>3. \A t : t = at' => ~Refuses(t)'
      BY <3>1, <3>2, <1>3
    <3>4. QED
      BY <2>1, <3>1, <3>3, <1>2 DEF OpenInv
  <2>3. CASE Hit(at) # NoWindow
    <3>1. pc' = "jump"
      BY <1>4, <2>1, <2>3 DEF QuietJump
    <3>2. QED
      BY <2>1, <3>1 DEF OpenInv
  <2>4. QED
    BY <2>2, <2>3
<1>5. ASSUME KeyJump PROVE OpenInv'
  <2>1. pc = "jump" /\ result = Null /\ result' = result
    BY <1>5 DEF KeyJump, OpenInv
  <2>2. pc' = "back" => KeyAt(at') # KeyAt(now)
    BY <1>5, <2>1 DEF KeyJump
  <2>3. pc' \in {"jump", "back"}
    BY <1>5 DEF KeyJump
  <2>4. \A t : t = at' /\ pc' = "back" => ~Refuses(t)'
    <3>1. SUFFICES ASSUME NEW t, t = at', pc' = "back" PROVE ~Refuses(t)
      BY <1>3
    <3>2. KeyAt(t) # KeyAt(now)
      BY <2>2, <3>1
    <3>3. search # "quiet"
      BY <1>5 DEF KeyJump
    <3>4. QED
      BY <3>2, <3>3 DEF Refuses
  <2>5. QED
    BY <2>1, <2>3, <2>4 DEF OpenInv
<1>6. ASSUME GiveUp PROVE OpenInv'
  BY <1>6, <1>2 DEF GiveUp, OpenInv
<1>7. ASSUME StepBack PROVE OpenInv'
  <2>1. pc = "back" /\ pc' = "back" /\ result' = result /\ result = Null
    BY <1>7 DEF StepBack, OpenInv
  <2>2. at' = at - 1 /\ ~Refuses(at - 1)
    BY <1>7 DEF StepBack, MayStep
  <2>3. \A t : t = at' => ~Refuses(t)'
    BY <2>2, <1>3
  <2>4. QED
    BY <2>1, <2>3 DEF OpenInv
<1>8. ASSUME Return PROVE OpenInv'
  <2>1. pc = "back" /\ pc' = "done" /\ at' = at
    BY <1>8 DEF Return
  <2>2. result' = IF at > now THEN at ELSE Null
    BY <1>8 DEF Return
  <2>3. at > now => ~Refuses(at)
    BY <2>1 DEF OpenInv
  <2>4. \A t : t = result' /\ t # Null => t > now /\ ~Refuses(t)'
    BY <2>2, <2>3, <1>3
  <2>5. QED
    BY <2>1, <2>4, <1>2 DEF OpenInv
<1>9. ASSUME UNCHANGED vars PROVE OpenInv'
  <2>1. pc' = pc /\ at' = at /\ result' = result
    BY <1>9 DEF vars
  <2>2. \A t : t \in {at', result'} => Refuses(t)' = Refuses(t)
    BY <1>3
  <2>3. QED
    BY <2>1, <2>2, <1>2 DEF OpenInv
<1>10. QED
  BY <1>4, <1>5, <1>6, <1>7, <1>8, <1>9 DEF Next

\* The check does not refuse at the instant the search names (quietEndsAt() and
\* nextKeyChange(), whatever the zone does between now and then).
THEOREM NeverEarly == Spec => []NeverTooEarly
<1>1. Init => OpenInv
  BY DEF Init, OpenInv
<1>2. OpenInv /\ [Next]_vars => OpenInv'
  BY OpenStep
<1>3. OpenInv => NeverTooEarly
  BY DEF OpenInv, NeverTooEarly
<1>4. QED
  BY <1>1, <1>2, <1>3, PTL DEF Spec

-----------------------------------------------------------------------------

\* The types, and what the constants say of the user.
TypeInv ==
  /\ TypeOK
  /\ quiet \in Schedules /\ zone \in Zones /\ now \in Int

LEMMA Remainder == ASSUME NEW a \in Int PROVE a % DayLength \in 0..DayLength - 1
  BY LengthAssumption

LEMMA ClockType == ASSUME TypeInv, NEW t \in Int
                   PROVE  Local(t) \in Int /\ Day(t) \in Int /\ Minutes(t) \in 0..DayLength - 1
<1>1. Local(t) \in Int
  BY ZoneAssumption DEF TypeInv, Local
<1>2. QED
  BY <1>1, Remainder, LengthAssumption DEF Day, Minutes

LEMMA HitType == ASSUME TypeInv, NEW t \in Int PROVE Hit(t) \in Window \cup {NoWindow}
<1>1. \A day : WindowFor(quiet, day) \in Window \cup {NoWindow}
  BY ScheduleAssumption DEF TypeInv, WindowFor
<1>2. QED
  BY <1>1 DEF Hit, QuietAt

\* A jump goes ahead.
LEMMA UntilEndType ==
  ASSUME TypeInv, NEW t \in Int, Hit(t) # NoWindow
  PROVE  UntilEnd(t) \in Nat \ {0}
<1>1. Hit(t).end \in Int /\ Minutes(t) \in Int
  BY HitType, ClockType, LengthAssumption DEF Window
<1>2. (Hit(t).end - Minutes(t)) % DayLength \in 0..DayLength - 1
  BY <1>1, Remainder
<1>3. QED
  BY <1>2, LengthAssumption DEF UntilEnd

LEMMA TypeStep == ASSUME TypeInv, [Next]_vars PROVE TypeInv'
<1>1. quiet' \in Schedules /\ zone' \in Zones /\ now' = now /\ now \in Int
  BY StepFixed DEF Fixed, TypeInv
<1>2. ASSUME QuietJump PROVE TypeOK'
  <2>1. Hit(at) # NoWindow => UntilEnd(at) \in Nat \ {0}
    BY UntilEndType DEF TypeInv, TypeOK
  <2>2. at' \in Int /\ at' >= now
    BY <2>1, <1>2, <1>1 DEF QuietJump, TypeInv, TypeOK
  <2>3. jumps' \in 0..(QuietJumps + KeyJumps)
    BY <1>2, JumpAssumption DEF QuietJump, TypeInv, TypeOK
  <2>4. pc' \in {"jump", "back", "done"} /\ UNCHANGED <<steps, result>>
    BY <1>2 DEF QuietJump
  <2>5. QED
    BY <1>1, <2>2, <2>3, <2>4 DEF TypeInv, TypeOK
<1>3. ASSUME KeyJump PROVE TypeOK'
  <2>1. Minutes(at) \in 0..DayLength - 1
    BY ClockType DEF TypeInv, TypeOK
  <2>2. at' \in Int /\ at' >= now
    BY <2>1, <1>3, <1>1, LengthAssumption DEF KeyJump, TypeInv, TypeOK
  <2>3. jumps' \in 0..(QuietJumps + KeyJumps)
    BY <1>3, JumpAssumption DEF KeyJump, TypeInv, TypeOK
  <2>4. pc' \in {"jump", "back", "done"} /\ UNCHANGED <<steps, result>>
    BY <1>3 DEF KeyJump
  <2>5. QED
    BY <1>1, <2>2, <2>3, <2>4 DEF TypeInv, TypeOK
<1>4. ASSUME GiveUp PROVE TypeOK'
  BY <1>1, <1>4 DEF GiveUp, TypeInv, TypeOK
<1>5. ASSUME StepBack PROVE TypeOK'
  BY <1>1, <1>5, LengthAssumption DEF StepBack, MayStep, TypeInv, TypeOK
<1>6. ASSUME Return PROVE TypeOK'
  BY <1>1, <1>6 DEF Return, TypeInv, TypeOK
<1>7. ASSUME UNCHANGED vars PROVE TypeOK'
  BY <1>1, <1>7 DEF vars, TypeInv, TypeOK
<1>8. TypeOK'
  BY <1>2, <1>3, <1>4, <1>5, <1>6, <1>7 DEF Next
<1>9. QED
  BY <1>1, <1>8 DEF TypeInv

LEMMA TypeInit == Init => TypeInv
  BY StartAssumption, JumpAssumption, LengthAssumption DEF Init, TypeInv, TypeOK

\* The searches never go behind the minute they start at, nor beyond their
\* bounds on jumps and steps.
THEOREM TypeCorrect == Spec => []TypeOK
<1>1. TypeInv => TypeOK
  BY DEF TypeInv
<1>2. QED
  BY <1>1, TypeInit, TypeStep, PTL DEF Spec

-----------------------------------------------------------------------------

\* One window every day: today's part of it and yesterday's are the window.
LEMMA OneWindow ==
  ASSUME NEW w \in Window, NEW minutes \in Int, NoWindow \notin Window
  PROVE  OpensOver(w, minutes) \/ SpillsOver(w, minutes) <=> InWindow(minutes, w.start, w.end)
  BY DEF OpensOver, SpillsOver, InWindow, Window

\* The same window every day silences when inWindow() says so.
LEMMA SameWindow ==
  ASSUME TypeInv, NoWindow \notin Window,
         DOMAIN quiet.dates = {}, DOMAIN quiet.days = {}, quiet.default # NoWindow
  PROVE  Hit(at) # NoWindow <=> InWindow(Minutes(at), quiet.default.start, quiet.default.end)
  <1>1. quiet.default \in Window
    BY ScheduleAssumption DEF TypeInv
  <1>2. \A day : WindowFor(quiet, day) = quiet.default
    BY DEF WindowFor
  <1>3. Minutes(at) \in Int
    BY ClockType, LengthAssumption DEF TypeInv, TypeOK
  <1>4. Hit(at) # NoWindow
          <=> OpensOver(quiet.default, Minutes(at)) \/ SpillsOver(quiet.default, Minutes(at))
    BY <1>2 DEF Hit, QuietAt
  <1> QED
    BY <1>1, <1>3, <1>4, OneWindow

-----------------------------------------------------------------------------

\* isoWeekKey() changes from one day to the next only into a Monday, also across
\* the turn of a year, however years lie: no weekly budget resets in mid-week.
THEOREM WeekTurnsOnMonday ==
  \A day \in Int : WeekdayOf(day + 1) # 1 => IsoWeekKey(day + 1) = IsoWeekKey(day)
<1> SUFFICES ASSUME NEW day \in Int, WeekdayOf(day + 1) # 1
             PROVE  IsoWeekKey(day + 1) = IsoWeekKey(day)
  OBVIOUS
<1> DEFINE Thursday(d) == d + 4 - (IF WeekdayOf(d) = 0 THEN 7 ELSE WeekdayOf(d))
<1>1. WeekdayOf(day) \in 0..6 /\ WeekdayOf(day + 1) = IF WeekdayOf(day) = 6 THEN 0 ELSE WeekdayOf(day) + 1
  BY DEF WeekdayOf
<1>2. Thursday(day + 1) = Thursday(day)
  BY <1>1
<1>3. \A d : IsoWeekKey(d) = LET year == LastUpTo(YearStarts, Thursday(d))
                            IN  <<year, (Thursday(d) - year) \div 7 + 1>>
  BY DEF IsoWeekKey
<1>4. QED
  BY <1>2, <1>3

-----------------------------------------------------------------------------
(* Days and minutes *)

\* Quotient and remainder.
LEMMA Place ==
  ASSUME NEW x \in Int
  PROVE  /\ x \div DayLength \in Int
         /\ (x \div DayLength) * DayLength \in Int
         /\ (x \div DayLength) * DayLength <= x
         /\ x < (x \div DayLength) * DayLength + DayLength
         /\ x % DayLength = x - (x \div DayLength) * DayLength
  BY LengthAssumption

\* A number between two multiples.
LEMMA Quotient ==
  ASSUME NEW x \in Int, NEW d \in Int, d * DayLength <= x, x < d * DayLength + DayLength
  PROVE  x \div DayLength = d
  <1>1. PICK q \in Int : q = x \div DayLength
    BY Place
  <1>2. q * DayLength <= x /\ x < q * DayLength + DayLength /\ q * DayLength \in Int /\ d * DayLength \in Int
    BY <1>1, Place, LengthAssumption
  <1>3. (q + 1) * DayLength = q * DayLength + DayLength /\ (d + 1) * DayLength = d * DayLength + DayLength
    BY LengthAssumption
  <1>4. ~(q < d)
    <2>1. SUFFICES ASSUME q < d PROVE FALSE
      OBVIOUS
    <2>2. (q + 1) * DayLength <= d * DayLength
      BY <2>1, LengthAssumption
    <2> QED
      BY <1>2, <1>3, <2>2, LengthAssumption
  <1>5. ~(d < q)
    <2>1. SUFFICES ASSUME d < q PROVE FALSE
      OBVIOUS
    <2>2. (d + 1) * DayLength <= q * DayLength
      BY <2>1, LengthAssumption
    <2> QED
      BY <1>2, <1>3, <2>2, LengthAssumption
  <1> QED
    BY <1>1, <1>4, <1>5

\* The clock of no zone is shifted by more than a search steps back.
SmallShifts ==
  /\ BackLimit < DayLength
  /\ \A z \in Zones : -BackLimit <= z.jump /\ z.jump <= BackLimit

\* The local time begins its day at Begins(t).
Begins(t) == Day(t) * DayLength

\* Where in its day a minute lies.
LEMMA DayPlace ==
  ASSUME TypeInv, NEW t \in Int
  PROVE  /\ Local(t) \in Int /\ Day(t) \in Int /\ Begins(t) \in Int
         /\ Begins(t) <= Local(t) /\ Local(t) < Begins(t) + DayLength
         /\ Minutes(t) = Local(t) - Begins(t)
  <1>1. Local(t) \in Int
    BY ClockType
  <1> QED
    BY <1>1, Place DEF Day, Minutes, Begins

\* The day of a local time, told from another one's.
LEMMA DayOf ==
  ASSUME TypeInv, NEW t \in Int, NEW u \in Int
  PROVE  /\ Begins(t) <= Local(u) /\ Local(u) < Begins(t) + DayLength => Day(u) = Day(t)
         /\ Begins(t) + DayLength <= Local(u) /\ Local(u) < Begins(t) + DayLength + DayLength => Day(u) = Day(t) + 1
         /\ Local(u) < Begins(t) + DayLength => Day(u) <= Day(t)
         /\ Begins(t) <= Local(u) => Day(t) <= Day(u)
  <1>1. PICK d \in Int, e \in Int, x \in Int, y \in Int : d = Day(t) /\ e = Day(u) /\ x = Local(t) /\ y = Local(u)
    BY DayPlace
  <1>2. Begins(t) = d * DayLength /\ d * DayLength \in Int /\ e * DayLength \in Int
    BY <1>1, LengthAssumption DEF Begins
  <1>3. e = y \div DayLength
    BY <1>1 DEF Day
  <1>4. (d + 1) * DayLength = d * DayLength + DayLength /\ (e + 1) * DayLength = e * DayLength + DayLength
    BY LengthAssumption
  <1>5. e * DayLength <= y /\ y < e * DayLength + DayLength
    BY <1>3, Place
  <1>6. Begins(t) <= y /\ y < Begins(t) + DayLength => e = d
    BY <1>2, <1>3, Quotient
  <1>7. Begins(t) + DayLength <= y /\ y < Begins(t) + DayLength + DayLength => e = d + 1
    <2>1. d + 1 \in Int
      OBVIOUS
    <2>2. Begins(t) + DayLength = (d + 1) * DayLength
      BY <1>2, <1>4
    <2> QED
      BY <1>3, <2>1, <2>2, Quotient
  <1>8. y < Begins(t) + DayLength => e <= d
    <2>1. SUFFICES ASSUME y < Begins(t) + DayLength, d < e PROVE FALSE
      OBVIOUS
    <2>2. (d + 1) * DayLength <= e * DayLength
      BY <2>1, LengthAssumption
    <2> QED
      BY <1>2, <1>4, <1>5, <2>1, <2>2, LengthAssumption
  <1>9. Begins(t) <= y => d <= e
    <2>1. SUFFICES ASSUME Begins(t) <= y, e < d PROVE FALSE
      OBVIOUS
    <2>2. (e + 1) * DayLength <= d * DayLength
      BY <2>1, LengthAssumption
    <2> QED
      BY <1>2, <1>4, <1>5, <2>1, <2>2, LengthAssumption
  <1> QED
    BY <1>1, <1>6, <1>7, <1>8, <1>9

\* Where the jump to the next midnight lands: at the beginning of the next day or,
\* when the clock went forward meanwhile, a little into it; when it went back, short
\* of it.
LEMMA MidnightJump ==
  ASSUME TypeInv, SmallShifts, NEW t \in Int, NEW m, m = t + DayLength - Minutes(t)
  PROVE  /\ m \in Int /\ m > t
         /\ \/ /\ Day(m) = Day(t) + 1
               /\ \A u \in t..m - 1 :
                    /\ Day(u) >= Day(t)
                    /\ \/ Day(u) = Day(t)
                       \/ u >= m - BackLimit /\ \A v \in u..m : Day(v) = Day(m)
            \/ /\ Day(m) = Day(t)
               /\ t < zone.at /\ zone.at <= m
               /\ \A u \in t..m - 1 : Day(u) <= Day(t)
  <1>1. /\ Local(t) \in Int /\ Day(t) \in Int /\ Begins(t) \in Int
        /\ Begins(t) <= Local(t) /\ Local(t) < Begins(t) + DayLength
        /\ Minutes(t) = Local(t) - Begins(t)
    BY DayPlace
  <1>2. /\ DayLength \in Nat /\ DayLength > 0 /\ BackLimit \in Nat /\ BackLimit < DayLength
        /\ zone.at \in Int /\ zone.jump \in Int /\ -BackLimit <= zone.jump /\ zone.jump <= BackLimit
    BY LengthAssumption, ZoneAssumption DEF SmallShifts, TypeInv
  <1>3. m \in Int /\ m > t /\ m - t = Begins(t) + DayLength - Local(t)
    BY <1>1, <1>2
  <1>4. \A u \in Int : Local(u) = IF u >= zone.at THEN u + zone.jump ELSE u
    BY DEF Local
  <1>5. \A u \in t..m - 1 : u \in Int
    OBVIOUS
  <1>6. CASE ~(t < zone.at /\ zone.at <= m)
    <2>1. \A u \in t..m : Local(u) = Local(t) + (u - t)
      BY <1>1, <1>2, <1>3, <1>4, <1>6
    <2>2. Day(m) = Day(t) + 1
      <3>1. Local(m) = Begins(t) + DayLength
        <4>1. m \in t..m
          BY <1>3
        <4>2. Local(m) = Local(t) + (m - t)
          BY <2>1, <4>1
        <4> QED
          BY <1>1, <1>2, <1>3, <4>2
      <3> QED
        BY <1>1, <1>2, <1>3, <3>1, DayOf
    <2>3. \A u \in t..m - 1 : Day(u) = Day(t)
      <3>1. TAKE u \in t..m - 1
      <3>2. u \in Int /\ Begins(t) <= Local(u) /\ Local(u) < Begins(t) + DayLength
        BY <1>1, <1>2, <1>3, <2>1
      <3> QED
        BY <3>2, DayOf
    <2> QED
      BY <1>1, <1>3, <2>2, <2>3
  <1>7. CASE t < zone.at /\ zone.at <= m /\ zone.jump >= 0
    <2>0. ~(t >= zone.at)
      BY <1>2, <1>7
    <2>1. Local(t) = t /\ m = Begins(t) + DayLength
      BY <1>1, <1>2, <1>3, <1>4, <2>0
    <2>2. Day(m) = Day(t) + 1
      <3>1. Local(m) = Begins(t) + DayLength + zone.jump
        BY <1>3, <1>4, <1>7, <2>1
      <3>2. Begins(t) + DayLength <= Local(m) /\ Local(m) < Begins(t) + DayLength + DayLength
        BY <1>1, <1>2, <1>7, <3>1
      <3> QED
        BY <1>3, <3>2, DayOf
    <2>3. ASSUME NEW u \in t..m - 1
          PROVE  /\ Day(u) >= Day(t)
                 /\ \/ Day(u) = Day(t)
                    \/ u >= m - BackLimit /\ \A v \in u..m : Day(v) = Day(m)
      <3>1. Local(u) >= Begins(t) /\ u \in Int /\ Local(u) \in Int
        BY <1>1, <1>2, <1>4, <1>7, <2>1
      <3>2. Day(u) >= Day(t)
        BY <3>1, DayOf
      <3>3. CASE Local(u) < Begins(t) + DayLength
        BY <3>1, <3>2, <3>3, DayOf
      <3>4. CASE Local(u) >= Begins(t) + DayLength
        <4>1. u >= zone.at /\ Local(u) = u + zone.jump
          BY <1>2, <1>4, <2>1, <3>1, <3>4
        <4>2. u >= m - BackLimit
          BY <1>1, <1>2, <2>1, <3>4, <4>1
        <4>3. \A v \in u..m : Day(v) = Day(m)
          <5>1. TAKE v \in u..m
          <5>2. v \in Int /\ Local(v) = v + zone.jump
            BY <1>2, <1>4, <4>1
          <5>3. Begins(t) + DayLength <= Local(v) /\ Local(v) < Begins(t) + DayLength + DayLength
            BY <1>1, <1>2, <2>1, <3>1, <3>4, <4>1, <5>2
          <5> QED
            BY <2>2, <5>2, <5>3, DayOf
        <4> QED
          BY <3>2, <4>2, <4>3
      <3> QED
        BY <1>1, <1>2, <3>1, <3>3, <3>4
    <2> QED
      BY <1>3, <2>2, <2>3
  <1>8. CASE t < zone.at /\ zone.at <= m /\ zone.jump < 0
    <2>0. ~(t >= zone.at)
      BY <1>2, <1>8
    <2>1. Local(t) = t /\ m = Begins(t) + DayLength
      BY <1>1, <1>2, <1>3, <1>4, <2>0
    <2>2. Day(m) = Day(t)
      <3>1. Local(m) = Begins(t) + DayLength + zone.jump
        BY <1>3, <1>4, <1>8, <2>1
      <3>2. Begins(t) <= Local(m) /\ Local(m) < Begins(t) + DayLength
        BY <1>1, <1>2, <1>8, <3>1
      <3> QED
        BY <1>3, <3>2, DayOf
    <2>3. \A u \in t..m - 1 : Day(u) <= Day(t)
      <3>1. TAKE u \in t..m - 1
      <3>2. u \in Int /\ Local(u) < Begins(t) + DayLength
        BY <1>1, <1>2, <1>4, <1>8, <2>1
      <3> QED
        BY <3>2, DayOf
    <2> QED
      BY <1>3, <1>8, <2>2, <2>3
  <1> QED
    BY <1>2, <1>6, <1>7, <1>8

-----------------------------------------------------------------------------
(* The keys of budgets *)

\* There is always a last year and a last month begun, and a month of at most 31
\* days has its next one.
IsLast(days, day, d) == d \in days /\ d <= day /\ \A e \in days : e <= day => e <= d

CalendarRuns ==
  \A day \in Int :
    /\ \E d \in YearStarts : IsLast(YearStarts, day, d)
    /\ \E d \in MonthStarts : IsLast(MonthStarts, day, d)
    /\ \E d \in MonthStarts : day < d /\ d <= day + 31

\* The key of a local day.
KeyOf(day) == CASE search = "day"   -> day
                [] search = "week"  -> IsoWeekKey(day)
                [] search = "month" -> LastUpTo(MonthStarts, day)

\* The key of an instant is its day's.
LEMMA KeyIs == ASSUME NEW t PROVE KeyAt(t) = KeyOf(Day(t))
  BY DEF KeyAt, KeyOf

\* LastUpTo() is what its name says.
LEMMA LastOne ==
  ASSUME NEW days \in SUBSET Int, NEW day \in Int, \E d \in days : IsLast(days, day, d)
  PROVE  IsLast(days, day, LastUpTo(days, day))
  <1>1. \E d \in days : d <= day /\ \A e \in days : e <= day => e <= d
    BY DEF IsLast
  <1>2. LET l == LastUpTo(days, day)
        IN  l \in days /\ l <= day /\ \A e \in days : e <= day => e <= l
    BY <1>1 DEF LastUpTo
  <1> QED
    BY <1>2 DEF IsLast

\* The week changes into every Monday.
LEMMA MondaysTurn ==
  ASSUME CalendarRuns, NEW day \in Int, WeekdayOf(day + 1) = 1
  PROVE  IsoWeekKey(day + 1) # IsoWeekKey(day)
  <1> DEFINE Thursday(d) == d + 4 - (IF WeekdayOf(d) = 0 THEN 7 ELSE WeekdayOf(d))
             Year(d) == LastUpTo(YearStarts, Thursday(d))
  <1>1. WeekdayOf(day) = 0
    BY DEF WeekdayOf
  <1>2. Thursday(day) = day - 3 /\ Thursday(day + 1) = day + 4
    BY <1>1
  <1>3. Year(day) \in Int /\ Year(day + 1) \in Int
    <2>1. YearStarts \in SUBSET Int
      BY CalendarAssumption
    <2>2. \A d \in Int : IsLast(YearStarts, d, LastUpTo(YearStarts, d))
      BY <2>1, LastOne DEF CalendarRuns
    <2>3. \A d \in Int : LastUpTo(YearStarts, d) \in Int
      BY <2>1, <2>2 DEF IsLast
    <2>4. day - 3 \in Int /\ day + 4 \in Int
      OBVIOUS
    <2> QED
      BY <1>2, <2>3, <2>4
  <1>4. /\ IsoWeekKey(day) = <<Year(day), (Thursday(day) - Year(day)) \div 7 + 1>>
        /\ IsoWeekKey(day + 1) = <<Year(day + 1), (Thursday(day + 1) - Year(day + 1)) \div 7 + 1>>
    BY DEF IsoWeekKey
  <1>5. CASE Year(day) = Year(day + 1)
    <2>1. PICK y \in Int : y = Year(day)
      BY <1>3
    <2>2. (day + 4 - y) \div 7 + 1 # (day - 3 - y) \div 7 + 1
      OBVIOUS
    <2> HIDE DEF Year, Thursday
    <2>3. IsoWeekKey(day)[2] # IsoWeekKey(day + 1)[2]
      BY <1>2, <1>4, <1>5, <2>1, <2>2
    <2> QED
      BY <2>3
  <1>6. CASE Year(day) # Year(day + 1)
    <2> HIDE DEF Year, Thursday
    <2>1. IsoWeekKey(day)[1] # IsoWeekKey(day + 1)[1]
      BY <1>4, <1>6
    <2> QED
      BY <2>1
  <1> QED
    BY <1>5, <1>6

\* Every key changes within 31 days.
LEMMA KeysTurn ==
  ASSUME CalendarRuns, search \in {"day", "week", "month"}, NEW day \in Int
  PROVE  \E d \in day..day + 31 : KeyOf(d) # KeyOf(day)
  <1>1. CASE search = "day"
    <2>1. KeyOf(day + 1) = day + 1 /\ KeyOf(day) = day
      BY <1>1 DEF KeyOf
    <2>2. day + 1 \in day..day + 31 /\ day + 1 # day
      OBVIOUS
    <2> QED
      BY <2>1, <2>2
  <1>2. CASE search = "week"
    <2>1. \A d : KeyOf(d) = IsoWeekKey(d)
      BY <1>2 DEF KeyOf
    <2>2. PICK d \in day..day + 6 : WeekdayOf(d + 1) = 1
      <3>1. day % 7 \in 0..6
        OBVIOUS
      <3>2. PICK w \in 0..6 : w = day % 7
        BY <3>1
      <3>3. PICK d \in day..day + 6 : d = IF w = 0 THEN day ELSE day + 7 - w
        <4>1. CASE w = 0
          BY <4>1
        <4>2. CASE w # 0
          <5>1. day + 7 - w \in day..day + 6
            BY <4>2
          <5> QED
            BY <4>2, <5>1
        <4> QED
          BY <4>1, <4>2
      <3>4. (d + 1) % 7 = 1
        BY <3>2, <3>3
      <3> QED
        BY <3>3, <3>4 DEF WeekdayOf
    <2>3. d \in Int /\ IsoWeekKey(d + 1) # IsoWeekKey(d)
      BY <2>2, MondaysTurn
    <2>4. d \in day..day + 31 /\ d + 1 \in day..day + 31
      OBVIOUS
    <2>5. KeyOf(d) # KeyOf(day) \/ KeyOf(d + 1) # KeyOf(day)
      BY <2>1, <2>3
    <2> QED
      BY <2>4, <2>5
  <1>3. CASE search = "month"
    <2>1. \A d : KeyOf(d) = LastUpTo(MonthStarts, d)
      BY <1>3 DEF KeyOf
    <2>2. PICK d \in MonthStarts : day < d /\ d <= day + 31
      BY DEF CalendarRuns
    <2>3. MonthStarts \in SUBSET Int
      BY CalendarAssumption
    <2>4. d \in Int /\ d \in day..day + 31
      BY <2>2, <2>3
    <2>5. IsLast(MonthStarts, d, LastUpTo(MonthStarts, d)) /\ IsLast(MonthStarts, day, LastUpTo(MonthStarts, day))
      BY <2>3, <2>4, LastOne DEF CalendarRuns
    <2>6. LastUpTo(MonthStarts, d) >= d /\ LastUpTo(MonthStarts, day) <= day
      BY <2>2, <2>4, <2>5 DEF IsLast
    <2>7. LastUpTo(MonthStarts, d) \in Int /\ LastUpTo(MonthStarts, day) \in Int
      BY <2>3, <2>5 DEF IsLast
    <2>8. LastUpTo(MonthStarts, d) # LastUpTo(MonthStarts, day)
      BY <2>2, <2>4, <2>6, <2>7
    <2> QED
      BY <2>1, <2>4, <2>8
  <1> QED
    BY <1>1, <1>2, <1>3

-----------------------------------------------------------------------------
(* The search for a reset *)

Same(day) == KeyOf(day) = KeyOf(Day(now))

\* While it jumps, no day up to the one it has come to has another key, and every
\* jump but one that the clocks cut short has been to a new day.
AheadAt(t, made) ==
  /\ Day(now) <= Day(t)
  /\ \A u \in now..t : Day(u) <= Day(t)
  /\ \A d \in Day(now)..Day(t) : Same(d)
  /\ made <= Day(t) - Day(now) + (IF now < zone.at /\ zone.at <= t THEN 1 ELSE 0)

\* The day of t is the first one ahead with another key.
Turned(t) ==
  /\ t > now /\ Day(now) < Day(t) /\ ~Same(Day(t))
  /\ \A d \in Day(now)..Day(t) - 1 : Same(d)

\* While it steps back, it can still reach the first minute of that day, and there
\* is a minute of the days before on the way.
LandedAt(t, made) ==
  /\ Turned(t)
  /\ \E from \in now..t - 1 : Day(from) < Day(t) /\ \A u \in from..t : Day(now) <= Day(u)
  /\ \A u \in now..t - 1 :
       \/ Day(u) < Day(t)
       \/ u >= t - (BackLimit - made) /\ \A v \in u..t : Day(v) = Day(t)

\* It has answered with the first minute of that day.
FoundAt(t) ==
  /\ t \in Int /\ Turned(t)
  /\ \A u \in now..t - 1 : Day(u) < Day(t)

ResetInv ==
  /\ search \in {"quiet", "day", "week", "month"}
  /\ pc = "jump" => steps = 0
  /\ search # "quiet" =>
       /\ pc = "jump" => AheadAt(at, jumps)
       /\ pc = "back" => LandedAt(at, steps)
       /\ pc = "done" => FoundAt(result)

\* None of this changes in a search.
LEMMA SameReset ==
  ASSUME Fixed
  PROVE  /\ \A t, made : AheadAt(t, made)' = AheadAt(t, made)
         /\ \A t, made : LandedAt(t, made)' = LandedAt(t, made)
         /\ \A t : FoundAt(t)' = FoundAt(t)
  <1>1. \A t : Day(t)' = Day(t)
    BY DEF Fixed, Day, Local
  <1>2. \A d : KeyOf(d)' = KeyOf(d)
    BY DEF Fixed, KeyOf
  <1>3. now' = now /\ zone' = zone
    BY DEF Fixed
  <1>4. Day(now)' = Day(now)
    BY <1>1, <1>3
  <1>5. \A d : Same(d)' = Same(d)
    BY <1>2, <1>4 DEF Same
  <1>6. \A t : Turned(t)' = Turned(t)
    BY <1>1, <1>3, <1>4, <1>5 DEF Turned
  <1>7. \A t, made : AheadAt(t, made)' = AheadAt(t, made)
    BY <1>1, <1>3, <1>4, <1>5 DEF AheadAt
  <1>8. \A t, made : LandedAt(t, made)' = LandedAt(t, made)
    BY <1>1, <1>3, <1>4, <1>6 DEF LandedAt
  <1>9. \A t : FoundAt(t)' = FoundAt(t)
    BY <1>1, <1>3, <1>6 DEF FoundAt
  <1> QED
    BY <1>7, <1>8, <1>9

\* A jump goes on ahead, or lands on the first day with another key.
LEMMA ResetJump ==
  ASSUME TypeInv, SmallShifts, NEW t \in Int, t >= now, NEW made \in Int, AheadAt(t, made),
         NEW m, m = t + DayLength - Minutes(t)
  PROVE  /\ m \in Int /\ m > t
         /\ Same(Day(m)) => AheadAt(m, made + 1)
         /\ ~Same(Day(m)) => LandedAt(m, 0)
  <1>1. /\ m \in Int /\ m > t
        /\ \/ /\ Day(m) = Day(t) + 1
              /\ \A u \in t..m - 1 :
                   /\ Day(u) >= Day(t)
                   /\ \/ Day(u) = Day(t)
                      \/ u >= m - BackLimit /\ \A v \in u..m : Day(v) = Day(m)
           \/ /\ Day(m) = Day(t)
              /\ t < zone.at /\ zone.at <= m
              /\ \A u \in t..m - 1 : Day(u) <= Day(t)
    BY MidnightJump
  <1>2. now \in Int /\ BackLimit \in Int /\ \A u \in Int : Day(u) \in Int
    BY DayPlace, LengthAssumption DEF TypeInv
  <1>2a. zone.at \in Int
    BY ZoneAssumption DEF TypeInv
  <1>3. /\ Day(now) <= Day(t)
        /\ \A u \in now..t : Day(u) <= Day(t)
        /\ \A d \in Day(now)..Day(t) : Same(d)
        /\ made <= Day(t) - Day(now) + (IF now < zone.at /\ zone.at <= t THEN 1 ELSE 0)
    BY DEF AheadAt
  <1>4. Day(now) \in Int /\ Day(t) \in Int /\ Day(m) \in Int
    BY <1>1, <1>2
  <1>5. \A u \in now..m - 1 : u \in now..t \/ u \in t..m - 1
    BY <1>1, <1>2
  <1>6. CASE /\ Day(m) = Day(t) + 1
             /\ \A u \in t..m - 1 :
                  /\ Day(u) >= Day(t)
                  /\ \/ Day(u) = Day(t)
                     \/ u >= m - BackLimit /\ \A v \in u..m : Day(v) = Day(m)
    <2>1. \A u \in now..m - 1 :
            \/ Day(u) <= Day(t)
            \/ u >= m - BackLimit /\ \A v \in u..m : Day(v) = Day(m)
      <3>1. TAKE u \in now..m - 1
      <3>2. Day(u) \in Int
        BY <1>2
      <3> QED
        BY <1>3, <1>4, <1>5, <1>6, <3>2
    <2>2. ASSUME Same(Day(m)) PROVE AheadAt(m, made + 1)
      <3>1. Day(now) <= Day(m)
        BY <1>3, <1>4, <1>6
      <3>2. \A u \in now..m : Day(u) <= Day(m)
        <4>1. TAKE u \in now..m
        <4>2. CASE u = m
          BY <1>4, <4>2
        <4>3. CASE u \in now..m - 1
          <5>1. Day(u) \in Int /\ u \in u..m
            BY <1>1, <1>2, <4>3
          <5> QED
            BY <1>4, <1>6, <2>1, <4>3, <5>1
        <4> QED
          BY <1>1, <1>2, <4>2, <4>3
      <3>3. \A d \in Day(now)..Day(m) : Same(d)
        <4>1. \A d \in Day(now)..Day(m) : d \in Day(now)..Day(t) \/ d = Day(m)
          BY <1>4, <1>6
        <4> QED
          BY <1>3, <2>2, <4>1
      <3>4. made + 1 <= Day(m) - Day(now) + (IF now < zone.at /\ zone.at <= m THEN 1 ELSE 0)
        BY <1>1, <1>2, <1>2a, <1>3, <1>4, <1>6
      <3> QED
        BY <3>1, <3>2, <3>3, <3>4 DEF AheadAt
    <2>3. ASSUME ~Same(Day(m)) PROVE LandedAt(m, 0)
      <3>1. Turned(m)
        <4>1. \A d \in Day(now)..Day(m) - 1 : Same(d)
          BY <1>3, <1>4, <1>6
        <4> QED
          BY <1>1, <1>2, <1>3, <1>4, <1>6, <2>3, <4>1 DEF Turned
      <3>2. \E from \in now..m - 1 : Day(from) < Day(m) /\ \A u \in from..m : Day(now) <= Day(u)
        <4>1. t \in now..m - 1 /\ Day(t) < Day(m)
          BY <1>1, <1>2, <1>4, <1>6
        <4>2. \A u \in t..m : Day(now) <= Day(u)
          <5>1. TAKE u \in t..m
          <5>2. CASE u = m
            BY <1>3, <1>4, <1>6, <5>2
          <5>3. CASE u \in t..m - 1
            <6>1. Day(u) \in Int
              BY <1>2
            <6> QED
              BY <1>3, <1>4, <1>6, <5>3, <6>1
          <5> QED
            BY <1>1, <5>2, <5>3
        <4> QED
          BY <4>1, <4>2
      <3>3. \A u \in now..m - 1 :
              \/ Day(u) < Day(m)
              \/ u >= m - (BackLimit - 0) /\ \A v \in u..m : Day(v) = Day(m)
        <4>1. TAKE u \in now..m - 1
        <4>2. Day(u) \in Int /\ BackLimit - 0 = BackLimit
          BY <1>2
        <4> QED
          BY <1>4, <1>6, <2>1, <4>2
      <3> QED
        BY <3>1, <3>2, <3>3 DEF LandedAt
    <2> QED
      BY <1>1, <2>2, <2>3
  <1>7. CASE /\ Day(m) = Day(t)
             /\ t < zone.at /\ zone.at <= m
             /\ \A u \in t..m - 1 : Day(u) <= Day(t)
    <2>1. Same(Day(m))
      BY <1>3, <1>4, <1>7
    <2>2. \A u \in now..m : Day(u) <= Day(m)
      <3>1. TAKE u \in now..m
      <3>2. u = m \/ u \in now..m - 1
        BY <1>1, <1>2
      <3> QED
        BY <1>3, <1>4, <1>5, <1>7, <3>2
    <2>3. made + 1 <= Day(m) - Day(now) + (IF now < zone.at /\ zone.at <= m THEN 1 ELSE 0)
      BY <1>1, <1>2, <1>2a, <1>3, <1>4, <1>7
    <2>4. AheadAt(m, made + 1)
      BY <1>3, <1>7, <2>2, <2>3 DEF AheadAt
    <2> QED
      BY <1>1, <2>1, <2>4
  <1> QED
    BY <1>1, <1>6, <1>7

\* A step back stays on the day the jump has come to.
LEMMA ResetBack ==
  ASSUME TypeInv, NEW t \in Int, NEW made \in Int, LandedAt(t, made), t - 1 > now, ~Same(Day(t - 1))
  PROVE  LandedAt(t - 1, made + 1)
  <1>0. /\ now \in Int /\ BackLimit \in Int /\ t - 1 \in Int /\ t - 1 \in now..t - 1
        /\ \A u \in Int : Day(u) \in Int
    BY DayPlace, LengthAssumption DEF TypeInv
  <1>1. /\ Turned(t)
        /\ \A u \in now..t - 1 :
             \/ Day(u) < Day(t)
             \/ u >= t - (BackLimit - made) /\ \A v \in u..t : Day(v) = Day(t)
    BY DEF LandedAt
  <1>2. PICK from \in now..t - 1 : Day(from) < Day(t) /\ \A u \in from..t : Day(now) <= Day(u)
    BY DEF LandedAt
  <1>3. /\ t > now /\ Day(now) < Day(t) /\ ~Same(Day(t))
        /\ \A d \in Day(now)..Day(t) - 1 : Same(d)
    BY <1>1 DEF Turned
  <1>4. Day(t - 1) = Day(t)
    <2>1. Day(now) <= Day(t - 1)
      <3>1. t - 1 \in from..t
        BY <1>0, <1>2
      <3> QED
        BY <1>2, <3>1
    <2>2. Day(t - 1) \in Int /\ Day(t) \in Int /\ Day(now) \in Int
      BY <1>0
    <2>3. ~(Day(t - 1) < Day(t))
      BY <1>3, <2>1, <2>2
    <2>4. t - 1 \in (t - 1)..t
      BY <1>0
    <2> QED
      BY <1>0, <1>1, <2>3, <2>4
  <1>5. Turned(t - 1)
    BY <1>3, <1>4 DEF Turned
  <1>6. from \in now..(t - 1) - 1
    <2>1. from # t - 1
      BY <1>0, <1>2, <1>4
    <2> QED
      BY <1>0, <1>2, <2>1
  <1>7. \A u \in from..t - 1 : u \in from..t
    BY <1>0, <1>2
  <1>8. ASSUME NEW u \in now..(t - 1) - 1
        PROVE  \/ Day(u) < Day(t - 1)
               \/ u >= (t - 1) - (BackLimit - (made + 1)) /\ \A v \in u..t - 1 : Day(v) = Day(t - 1)
    <2>1. u \in now..t - 1 /\ \A v \in u..t - 1 : v \in u..t
      BY <1>0
    <2>2. (t - 1) - (BackLimit - (made + 1)) = t - (BackLimit - made)
      BY <1>0
    <2> QED
      BY <1>1, <1>4, <2>1, <2>2
  <1>9. Day(from) < Day(t - 1) /\ \A u \in from..t - 1 : Day(now) <= Day(u)
    BY <1>2, <1>4, <1>7
  <1> QED
    BY <1>5, <1>6, <1>8, <1>9 DEF LandedAt

\* Where it stops is the first minute of that day.
LEMMA ResetStops ==
  ASSUME TypeInv, NEW t \in Int, NEW made \in Int, LandedAt(t, made),
         ~(made < BackLimit /\ t - 1 > now /\ ~Same(Day(t - 1)))
  PROVE  FoundAt(t)
  <1>0. /\ now \in Int /\ BackLimit \in Int /\ t - 1 \in Int
        /\ \A u \in Int : Day(u) \in Int
    BY DayPlace, LengthAssumption DEF TypeInv
  <1>1. /\ Turned(t)
        /\ \A u \in now..t - 1 :
             \/ Day(u) < Day(t)
             \/ u >= t - (BackLimit - made) /\ \A v \in u..t : Day(v) = Day(t)
    BY DEF LandedAt
  <1>2. t > now /\ Day(now) < Day(t) /\ ~Same(Day(t))
    BY <1>1 DEF Turned
  <1>3. ASSUME NEW u \in now..t - 1 PROVE Day(u) < Day(t)
    <2>1. SUFFICES ASSUME u >= t - (BackLimit - made), \A v \in u..t : Day(v) = Day(t) PROVE FALSE
      BY <1>1
    <2>2. made < BackLimit
      BY <1>0, <2>1
    <2>3. u \in u..t /\ t - 1 \in u..t
      BY <1>0
    <2>4. Day(u) = Day(t) /\ Day(t - 1) = Day(t)
      BY <2>1, <2>3
    <2>5. u # now
      BY <1>0, <1>2, <2>4
    <2>6. t - 1 > now
      BY <1>0, <2>5
    <2> QED
      BY <1>2, <2>2, <2>4, <2>6
  <1> QED
    BY <1>1, <1>3 DEF FoundAt

\* It never gives up: as many jumps go a month ahead, and a key has changed by then.
LEMMA ResetInTime ==
  ASSUME TypeInv, CalendarRuns, search \in {"day", "week", "month"}, NEW t \in Int,
         NEW made \in Int, AheadAt(t, made)
  PROVE  made < 32
  <1>1. SUFFICES ASSUME made >= 32 PROVE FALSE
    OBVIOUS
  <1>2. Day(now) \in Int /\ Day(t) \in Int
    BY DayPlace DEF TypeInv
  <1>3. \A d \in Day(now)..Day(t) : Same(d)
    BY DEF AheadAt
  <1>4. made <= Day(t) - Day(now) + (IF now < zone.at /\ zone.at <= t THEN 1 ELSE 0)
    BY DEF AheadAt
  <1>5. Day(t) >= Day(now) + 31
    BY <1>1, <1>2, <1>4
  <1>6. PICK d \in Day(now)..Day(now) + 31 : KeyOf(d) # KeyOf(Day(now))
    BY <1>2, KeysTurn
  <1>7. d \in Day(now)..Day(t)
    BY <1>2, <1>5
  <1> QED
    BY <1>3, <1>6, <1>7 DEF Same

\* A search begins so.
LEMMA ResetInit == ASSUME Init, TypeInv PROVE ResetInv
  <1>1. now \in Int /\ at = now /\ jumps = 0 /\ steps = 0 /\ pc = "jump" /\ Day(now) \in Int
    BY DayPlace DEF Init, TypeInv
  <1>2. \A u \in now..now : u = now
    BY <1>1
  <1>3. \A d \in Day(now)..Day(now) : d = Day(now)
    BY <1>1
  <1>4. 0 <= Day(now) - Day(now) + (IF now < zone.at /\ zone.at <= now THEN 1 ELSE 0)
    BY <1>1
  <1>5. AheadAt(now, 0)
    BY <1>1, <1>2, <1>3, <1>4 DEF AheadAt, Same
  <1> QED
    BY <1>1, <1>5 DEF Init, ResetInv

\* It goes on so.
LEMMA ResetStep ==
  ASSUME SmallShifts, CalendarRuns, KeyJumps >= 32, TypeInv, ResetInv, [Next]_vars
  PROVE  ResetInv'
  <1>1. Fixed
    BY StepFixed
  <1>2. search' = search /\ now' = now
    BY <1>1 DEF Fixed
  <1>3. /\ \A t, made : AheadAt(t, made)' = AheadAt(t, made)
        /\ \A t, made : LandedAt(t, made)' = LandedAt(t, made)
        /\ \A t : FoundAt(t)' = FoundAt(t)
    BY <1>1, SameReset
  <1>4. at \in Int /\ at >= now /\ jumps \in Int /\ steps \in Int /\ now \in Int
    BY LengthAssumption, JumpAssumption DEF TypeInv, TypeOK
  <1>5. CASE search = "quiet"
    <2>1. pc' = "jump" => steps' = 0
      BY <1>5, [Next]_vars, ResetInv
         DEF Next, QuietJump, KeyJump, GiveUp, StepBack, Return, vars, ResetInv
    <2> QED
      BY <1>2, <1>5, <2>1 DEF ResetInv
  <1>6. CASE search # "quiet"
    <2>0. search \in {"day", "week", "month"}
      BY <1>6 DEF ResetInv
    <2>1. CASE KeyJump
      <3>1. /\ at' = at + DayLength - Minutes(at) /\ jumps' = jumps + 1 /\ steps' = 0
            /\ pc' = IF KeyAt(at') # KeyAt(now) THEN "back" ELSE "jump"
            /\ AheadAt(at, jumps)
        BY <1>6, <2>1 DEF KeyJump, ResetInv
      <3>2. PICK m : m = at'
        OBVIOUS
      <3>3. KeyAt(m) = KeyAt(now) <=> Same(Day(m))
        BY KeyIs DEF Same
      <3>4. /\ Same(Day(m)) => AheadAt(m, jumps + 1)
            /\ ~Same(Day(m)) => LandedAt(m, 0)
        BY <1>4, <3>1, <3>2, ResetJump
      <3>5. \A t, made : pc' = "jump" /\ t = at' /\ made = jumps' => AheadAt(t, made)'
        BY <1>3, <3>1, <3>2, <3>3, <3>4
      <3>6. \A t, made : pc' = "back" /\ t = at' /\ made = steps' => LandedAt(t, made)'
        BY <1>3, <3>1, <3>2, <3>3, <3>4
      <3>7. pc' # "done"
        BY <3>1
      <3> QED
        BY <1>2, <2>0, <3>1, <3>5, <3>6, <3>7 DEF ResetInv
    <2>2. CASE GiveUp
      <3>1. pc = "jump" /\ jumps = KeyJumps /\ AheadAt(at, jumps)
        BY <1>6, <2>2 DEF GiveUp, ResetInv
      <3>2. jumps < 32
        BY <1>4, <2>0, <3>1, ResetInTime
      <3> QED
        BY <3>1, <3>2, JumpAssumption
    <2>3. CASE StepBack
      <3>1. /\ pc = "back" /\ pc' = "back" /\ at' = at - 1 /\ steps' = steps + 1
            /\ at - 1 > now /\ ~Refuses(at - 1)
        BY <2>3 DEF StepBack, MayStep
      <3>2. ~Same(Day(at - 1))
        BY <1>6, <3>1, KeyIs DEF Refuses, Same
      <3>3. LandedAt(at - 1, steps + 1)
        BY <1>4, <1>6, <3>1, <3>2, ResetBack DEF ResetInv
      <3>4. \A t, made : t = at' /\ made = steps' => LandedAt(t, made)'
        BY <1>3, <3>1, <3>3
      <3> QED
        BY <1>2, <2>0, <3>1, <3>4 DEF ResetInv
    <2>4. CASE Return
      <3>1. /\ pc = "back" /\ pc' = "done" /\ ~MayStep
            /\ result' = IF at > now THEN at ELSE Null
        BY <2>4 DEF Return
      <3>2. LandedAt(at, steps)
        BY <1>6, <3>1 DEF ResetInv
      <3>3. at > now
        BY <3>2 DEF LandedAt, Turned
      <3>4. ~(steps < BackLimit /\ at - 1 > now /\ ~Same(Day(at - 1)))
        BY <1>6, <3>1, KeyIs DEF MayStep, Refuses, Same
      <3>5. FoundAt(at)
        BY <1>4, <3>2, <3>4, ResetStops
      <3>6. \A t : t = result' => FoundAt(t)'
        BY <1>3, <3>1, <3>3, <3>5
      <3> QED
        BY <1>2, <2>0, <3>1, <3>6 DEF ResetInv
    <2>5. CASE UNCHANGED vars
      <3>1. pc' = pc /\ steps' = steps /\ jumps' = jumps /\ at' = at /\ result' = result
        BY <2>5 DEF vars
      <3> QED
        BY <1>2, <1>3, <1>6, <3>1 DEF ResetInv
    <2>6. ~QuietJump
      BY <1>6 DEF QuietJump
    <2> QED
      BY <2>1, <2>2, <2>3, <2>4, <2>5, <2>6 DEF Next
  <1> QED
    BY <1>5, <1>6

\* The minutes before a reset that was found.
LEMMA BeforeReset ==
  ASSUME TypeInv, FoundAt(result), NEW u \in now..result - 1
  PROVE  /\ Day(u) \in Int /\ Day(u) < Day(result)
         /\ Day(u) < Day(now) \/ Same(Day(u))
  <1>1. now \in Int /\ result \in Int /\ u \in Int /\ Day(u) \in Int /\ Day(result) \in Int /\ Day(now) \in Int
    BY DayPlace DEF FoundAt, TypeInv
  <1>2. Day(u) < Day(result) /\ \A d \in Day(now)..Day(result) - 1 : Same(d)
    BY DEF FoundAt, Turned
  <1> QED
    BY <1>1, <1>2

\* ResetsOnMonday, however the years lie, where no clock is shifted by more than a
\* search steps back and months have at most 31 days: nextKeyChange() answers with
\* the first minute of a Monday, and no Monday begins before.
THEOREM WeeksTurn ==
  ASSUME SmallShifts, CalendarRuns, KeyJumps >= 32 PROVE Spec => []ResetsOnMonday
  <1>1. Init => TypeInv /\ ResetInv
    BY TypeInit, ResetInit
  <1>2. TypeInv /\ ResetInv /\ [Next]_vars => (TypeInv /\ ResetInv)'
    BY TypeStep, ResetStep
  <1>3. TypeInv /\ ResetInv => ResetsOnMonday
    <2>1. SUFFICES ASSUME TypeInv, ResetInv, search = "week", pc = "done"
                   PROVE  /\ WeekdayOf(Day(result)) = 1 /\ Day(result - 1) # Day(result)
                          /\ \A t \in now + 1..result - 1 : WeekdayOf(Day(t)) = 1 => Day(t) <= Day(now)
      BY DEF ResetsOnMonday
    <2>2. FoundAt(result)
      BY <2>1 DEF ResetInv
    <2>3. /\ now \in Int /\ result \in Int /\ result > now /\ Day(now) \in Int /\ Day(result) \in Int
          /\ Day(now) < Day(result) /\ ~Same(Day(result))
          /\ \A d \in Day(now)..Day(result) - 1 : Same(d)
      BY <2>1, <2>2, DayPlace DEF FoundAt, Turned, TypeInv
    <2>4. \A d : KeyOf(d) = IsoWeekKey(d)
      BY <2>1 DEF KeyOf
    <2>5. WeekdayOf(Day(result)) = 1
      <3>1. PICK d \in Int : d = Day(result) - 1
        BY <2>3
      <3>2. d + 1 = Day(result) /\ d \in Day(now)..Day(result) - 1
        BY <2>3, <3>1
      <3>3. IsoWeekKey(d + 1) # IsoWeekKey(d)
        BY <2>3, <2>4, <3>2 DEF Same
      <3>4. WeekdayOf(d + 1) = 1
        BY <3>3, WeekTurnsOnMonday
      <3> QED
        BY <3>2, <3>4
    <2>6. Day(result - 1) # Day(result)
      <3>1. result - 1 \in now..result - 1
        BY <2>3
      <3> QED
        BY <2>1, <2>2, <2>3, <3>1, BeforeReset
    <2>7. ASSUME NEW t \in now + 1..result - 1, WeekdayOf(Day(t)) = 1 PROVE Day(t) <= Day(now)
      <3>1. SUFFICES ASSUME Day(now) < Day(t) PROVE FALSE
        BY <2>1, <2>3, DayPlace DEF TypeInv
      <3>2. t \in now..result - 1
        BY <2>3
      <3>3. Day(t) \in Int /\ Day(t) < Day(result)
        BY <2>1, <2>2, <3>2, BeforeReset
      <3>4. PICK d \in Int : d = Day(t) - 1
        BY <3>3
      <3>5. d + 1 = Day(t) /\ Same(d) /\ Same(d + 1)
        BY <2>3, <3>1, <3>3, <3>4
      <3>6. IsoWeekKey(d + 1) = IsoWeekKey(d)
        BY <2>4, <3>5 DEF Same
      <3> QED
        BY <2>7, <3>5, <3>6, MondaysTurn
    <2> QED
      BY <2>5, <2>6, <2>7
  <1> QED
    BY <1>1, <1>2, <1>3, PTL DEF Spec

\* The search for a reset, for every key: it never gives up, and a reset is only
\* overlooked where the clock goes back into the day before the refusal's.
THEOREM ResetsFound ==
  ASSUME SmallShifts, CalendarRuns, KeyJumps >= 32
  PROVE  Spec => [](search # "quiet" => OnlyShortSpellsOverlooked /\ GivesUpSixDaysOn)
  <1>1. Init => TypeInv /\ ResetInv
    BY TypeInit, ResetInit
  <1>2. TypeInv /\ ResetInv /\ [Next]_vars => (TypeInv /\ ResetInv)'
    BY TypeStep, ResetStep
  <1>3. TypeInv /\ ResetInv => (search # "quiet" => OnlyShortSpellsOverlooked /\ GivesUpSixDaysOn)
    <2>1. SUFFICES ASSUME TypeInv, ResetInv, search # "quiet", pc = "done"
                   PROVE  OnlyShortSpellsOverlooked /\ GivesUpSixDaysOn
      BY DEF OnlyShortSpellsOverlooked, GivesUpSixDaysOn
    <2>2. FoundAt(result)
      BY <2>1 DEF ResetInv
    <2>3. result # Null
      BY <2>2, StartAssumption DEF FoundAt
    <2>4. \A t \in Passed : Refuses(t) \/ Day(t) < Day(now)
      <3>1. TAKE t \in Passed
      <3>2. t \in now..result - 1
        BY <2>3 DEF Passed
      <3>3. Day(t) < Day(now) \/ Same(Day(t))
        BY <2>1, <2>2, <3>2, BeforeReset
      <3> QED
        BY <2>1, <3>3, KeyIs DEF Refuses, Same
    <2> QED
      BY <2>1, <2>3, <2>4 DEF OnlyShortSpellsOverlooked, GivesUpSixDaysOn
  <1> QED
    BY <1>1, <1>2, <1>3, PTL DEF Spec

-----------------------------------------------------------------------------
(* The search for the end of quiet hours *)

\* Windows begin and end within the day, at its end at the latest.
InDay(w) == w.start \in 0..DayLength /\ w.end \in 0..DayLength

WindowsInDay ==
  \A q \in Schedules :
    /\ q.default # NoWindow => InDay(q.default)
    /\ \A day \in DOMAIN q.days : q.days[day] # NoWindow => InDay(q.days[day])
    /\ \A day \in DOMAIN q.dates : q.dates[day] # NoWindow => InDay(q.dates[day])

\* The window at a local time.
HitLocal(x) == QuietAt(quiet, x \div DayLength, x % DayLength)

\* The window at an instant.
LEMMA HitIs == ASSUME NEW t PROVE Hit(t) = HitLocal(Local(t))
  BY DEF Hit, HitLocal, Day, Minutes

\* What is open, or spills over, silences.
LEMMA Silences ==
  ASSUME NEW day, NEW minutes
  PROVE  /\ OpensOver(WindowFor(quiet, day), minutes) => QuietAt(quiet, day, minutes) # NoWindow
         /\ SpillsOver(WindowFor(quiet, day - 1), minutes) => QuietAt(quiet, day, minutes) # NoWindow
  BY DEF QuietAt, OpensOver, SpillsOver, DayBefore

\* The window of a day, at a minute of that day and of the next one.
LEMMA CoversIs ==
  ASSUME NEW w \in Window, InDay(w), w # NoWindow,
         NEW day \in Int, NEW minutes \in 0..DayLength - 1
  PROVE  /\ Covers(w, day, day * DayLength + minutes) <=> OpensOver(w, minutes)
         /\ Covers(w, day - 1, day * DayLength + minutes) <=> SpillsOver(w, minutes)
  <1>1. PICK from \in Int : from = day * DayLength
    BY LengthAssumption
  <1>2. (day - 1) * DayLength = from - DayLength
    BY <1>1, LengthAssumption
  <1>3. w.start \in 0..DayLength /\ w.end \in 0..DayLength
    BY DEF InDay
  <1>4. Covers(w, day, from + minutes) <=> OpensOver(w, minutes)
    BY <1>1, <1>3, LengthAssumption DEF Covers, OpensOver
  <1>5. Covers(w, day - 1, from + minutes) <=> SpillsOver(w, minutes)
    BY <1>2, <1>3, LengthAssumption DEF Covers, SpillsOver
  <1> QED
    BY <1>1, <1>4, <1>5

\* A user is silenced for as long as a window lasts that opened today or yesterday,
\* exceptions included, which for one window every day is what quietAt() says of
\* itself.
THEOREM WindowsSilence ==
  ASSUME NoWindow \notin Window, WindowsInDay PROVE Spec => []SilentInItsWindows
<1>1. ASSUME TypeInv PROVE SilentInItsWindows
  <2>1. at \in Int
    BY <1>1 DEF TypeInv, TypeOK
  <2>2. PICK day \in Int, minutes \in 0..DayLength - 1 :
          day = Day(at) /\ minutes = Minutes(at) /\ Local(at) = day * DayLength + minutes
    <3>1. Day(at) \in Int /\ Minutes(at) \in 0..DayLength - 1
      BY <1>1, <2>1, ClockType
    <3>2. Local(at) = Day(at) * DayLength + Minutes(at)
      BY <1>1, <2>1, DayPlace DEF Begins
    <3> QED
      BY <3>1, <3>2
  <2>3. \A d : WindowFor(quiet, d) # NoWindow =>
                 WindowFor(quiet, d) \in Window /\ InDay(WindowFor(quiet, d))
    BY <1>1, ScheduleAssumption DEF WindowsInDay, TypeInv, WindowFor
  <2>4. OpensOver(WindowFor(quiet, day), minutes)
          <=> Covers(WindowFor(quiet, day), day, Local(at))
    BY <2>2, <2>3, CoversIs DEF OpensOver, Covers
  <2>5. SpillsOver(WindowFor(quiet, day - 1), minutes)
          <=> Covers(WindowFor(quiet, day - 1), day - 1, Local(at))
    BY <2>2, <2>3, CoversIs DEF SpillsOver, Covers
  <2>6. Hit(at) # NoWindow
          <=> OpensOver(WindowFor(quiet, day), minutes) \/ SpillsOver(WindowFor(quiet, day - 1), minutes)
    BY <2>2 DEF Hit, QuietAt, DayBefore, OpensOver, SpillsOver
  <2>7. Day(at) - 1..Day(at) = {day - 1, day}
    BY <2>2
  <2> QED
    BY <1>1, <2>4, <2>5, <2>6, <2>7, SameWindow DEF SilentInItsWindows
<1>2. QED
  BY <1>1, TypeInit, TypeStep, PTL DEF Spec

\* By a clock nobody changes it stays quiet until the minute the jump goes to.
LEMMA QuietUntil ==
  ASSUME TypeInv, WindowsInDay, NEW t \in Int, Hit(t) # NoWindow,
         NEW x \in Local(t)..Local(t) + UntilEnd(t) - 1
  PROVE  HitLocal(x) # NoWindow
  <1>1. /\ Local(t) \in Int /\ Day(t) \in Int /\ Begins(t) \in Int
        /\ Begins(t) <= Local(t) /\ Local(t) < Begins(t) + DayLength
        /\ Minutes(t) = Local(t) - Begins(t)
    BY DayPlace
  <1>2. \A day : WindowFor(quiet, day) # NoWindow => InDay(WindowFor(quiet, day))
    BY DEF WindowsInDay, TypeInv, WindowFor
  <1>3. PICK d \in Int, p \in Int, k \in Int, w \in Window \cup {NoWindow} :
          d = Day(t) /\ p = Begins(t) /\ k = Minutes(t) /\ w = Hit(t)
    BY <1>1, HitType
  <1>4. DayLength \in Nat /\ DayLength > 0 /\ 0 <= k /\ k < DayLength /\ Local(t) = p + k
    BY <1>1, <1>3, LengthAssumption
  <1>5. p = d * DayLength /\ (d + 1) * DayLength = p + DayLength
    BY <1>3, LengthAssumption DEF Begins
  <1>6. UntilEnd(t) = IF (w.end - k) % DayLength = 0 THEN 1 ELSE (w.end - k) % DayLength
    BY <1>3 DEF UntilEnd
  <1>7. UntilEnd(t) \in Nat \ {0} /\ x \in Int
    BY <1>1, UntilEndType
  <1>8. ASSUME x < p + DayLength
        PROVE  HitLocal(x) = QuietAt(quiet, d, x - p) /\ k <= x - p
    <2>0. d * DayLength <= x /\ x < d * DayLength + DayLength
      BY <1>1, <1>4, <1>5, <1>7, <1>8
    <2>1. x \div DayLength = d
      BY <1>7, <2>0, Quotient
    <2>2. x % DayLength = x - p
      BY <1>5, <1>7, <2>1, Place
    <2> QED
      BY <1>1, <1>3, <1>4, <1>7, <2>1, <2>2 DEF HitLocal
  <1>9. ASSUME x >= p + DayLength, x < p + DayLength + DayLength
        PROVE  HitLocal(x) = QuietAt(quiet, d + 1, x - (p + DayLength))
    <2>1. x \div DayLength = d + 1
      BY <1>5, <1>7, <1>9, Quotient
    <2>2. x % DayLength = x - (p + DayLength)
      BY <1>5, <1>7, <2>1, Place
    <2> QED
      BY <2>1, <2>2 DEF HitLocal
  <1>10. x <= p + k + UntilEnd(t) - 1
    BY <1>1, <1>4, <1>7
  <1>11. \/ OpensOver(WindowFor(quiet, d), k) /\ w = WindowFor(quiet, d)
         \/ SpillsOver(WindowFor(quiet, d - 1), k) /\ w = WindowFor(quiet, d - 1)
    BY <1>3 DEF Hit, QuietAt, DayBefore
  <1>12. InDay(w) /\ w # NoWindow
    BY <1>2, <1>3, <1>11
  <1>13. w.start \in Int /\ w.end \in Int /\ 0 <= w.start /\ 0 <= w.end /\ w.end <= DayLength
    BY <1>4, <1>12 DEF InDay
  <1>14. (w.end > k => w.end - k <= DayLength) /\ \A n \in Int : 0 <= n /\ n < DayLength => n % DayLength = n
    <2>1. ASSUME NEW n \in Int, 0 <= n, n < DayLength PROVE n % DayLength = n
      <3>1. 0 * DayLength = 0 /\ 0 \in Int
        BY <1>4
      <3>2. n \div DayLength = 0
        BY <1>4, <2>1, <3>1, Quotient
      <3> QED
        BY <2>1, <3>1, <3>2, Place
    <2> QED
      BY <1>4, <1>13, <2>1
  <1>15. DayLength % DayLength = 0
    <2>1. 1 * DayLength = DayLength /\ 1 \in Int
      BY <1>4
    <2>2. DayLength \div DayLength = 1
      BY <1>4, <2>1, Quotient
    <2> QED
      BY <1>4, <2>1, <2>2, Place
  <1>16. ASSUME k < w.end PROVE x < p + DayLength /\ x - p < w.end
    <2>1. CASE w.end - k = DayLength
      <3>1. UntilEnd(t) = 1
        BY <1>6, <1>15, <2>1
      <3> QED
        BY <1>4, <1>7, <1>10, <1>13, <1>16, <3>1
    <2>2. CASE w.end - k # DayLength
      <3>1. w.end - k \in Int /\ 0 < w.end - k /\ w.end - k < DayLength
        BY <1>4, <1>13, <1>14, <1>16, <2>2
      <3>2. UntilEnd(t) = w.end - k
        BY <1>6, <1>14, <3>1
      <3> QED
        BY <1>4, <1>7, <1>10, <1>13, <3>2
    <2> QED
      BY <2>1, <2>2
  <1>17. CASE OpensOver(WindowFor(quiet, d), k) /\ w = WindowFor(quiet, d) /\ w.start < w.end
    <2>1. k >= w.start /\ k < w.end
      BY <1>17 DEF OpensOver
    <2>2. x < p + DayLength /\ x - p < w.end
      BY <1>16, <2>1
    <2>3. HitLocal(x) = QuietAt(quiet, d, x - p) /\ k <= x - p
      BY <1>8, <2>2
    <2>4. OpensOver(WindowFor(quiet, d), x - p)
      BY <1>4, <1>7, <1>12, <1>13, <1>17, <2>1, <2>2, <2>3 DEF OpensOver
    <2> QED
      BY <2>3, <2>4, Silences
  <1>18. CASE OpensOver(WindowFor(quiet, d), k) /\ w = WindowFor(quiet, d) /\ ~(w.start < w.end)
    <2>1. w.start > w.end /\ k >= w.start
      BY <1>13, <1>18 DEF OpensOver
    <2>2. UntilEnd(t) = w.end - k + DayLength /\ w.end - k + DayLength < DayLength
      <3>1. PICK n \in Int : n = w.end - k
        BY <1>13
      <3>2. 0 < n + DayLength /\ n + DayLength < DayLength /\ n + DayLength \in Int
        BY <1>4, <1>13, <2>1, <3>1
      <3>3. n % DayLength = n + DayLength
        <4>1. (-1) * DayLength = -DayLength /\ -1 \in Int
          BY <1>4
        <4>2. n \div DayLength = -1
          BY <1>4, <3>1, <3>2, <4>1, Quotient
        <4> QED
          BY <1>4, <3>1, <4>1, <4>2, Place
      <3> QED
        BY <1>6, <3>1, <3>2, <3>3
    <2>3. CASE x < p + DayLength
      <3>1. HitLocal(x) = QuietAt(quiet, d, x - p) /\ k <= x - p
        BY <1>8, <2>3
      <3>2. OpensOver(WindowFor(quiet, d), x - p)
        BY <1>4, <1>7, <1>12, <1>13, <1>18, <2>1, <3>1 DEF OpensOver
      <3> QED
        BY <3>1, <3>2, Silences
    <2>4. CASE x >= p + DayLength
      <3>1. x - (p + DayLength) < w.end /\ x < p + DayLength + DayLength
        BY <1>4, <1>7, <1>10, <1>13, <2>2
      <3>2. HitLocal(x) = QuietAt(quiet, d + 1, x - (p + DayLength))
        BY <1>9, <2>4, <3>1
      <3>3. (d + 1) - 1 = d
        OBVIOUS
      <3>4. SpillsOver(WindowFor(quiet, (d + 1) - 1), x - (p + DayLength))
        BY <1>12, <1>18, <2>1, <3>1, <3>3 DEF SpillsOver
      <3> QED
        BY <3>2, <3>4, Silences
    <2> QED
      BY <1>4, <1>7, <2>3, <2>4
  <1>19. CASE SpillsOver(WindowFor(quiet, d - 1), k) /\ w = WindowFor(quiet, d - 1)
    <2>1. w.start > w.end /\ k < w.end
      BY <1>19 DEF SpillsOver
    <2>2. x < p + DayLength /\ x - p < w.end
      BY <1>16, <2>1
    <2>3. HitLocal(x) = QuietAt(quiet, d, x - p)
      BY <1>8, <2>2
    <2>4. SpillsOver(WindowFor(quiet, d - 1), x - p)
      BY <1>12, <1>19, <2>1, <2>2 DEF SpillsOver
    <2> QED
      BY <2>3, <2>4, Silences
  <1> QED
    BY <1>11, <1>17, <1>18, <1>19

\* An open minute after the clock went forward on the way, so near that what lies at t follows
\* within the shift.
Pending(u, t) == now < zone.at /\ u >= zone.at /\ zone.jump >= 0 /\ t <= u + zone.jump

\* While it jumps, no open minute was passed over but in a short spell, or one that
\* turns out to be short if it is quiet at t.
BehindAt(t) == \A u \in now..t - 1 : Refuses(u) \/ ShortSpell(u) \/ Pending(u, t)

\* While it steps back, it can still reach those that are not.
ReachableAt(t, made) ==
  \A u \in now..t - 1 :
    Refuses(u) \/ ShortSpell(u) \/ (Pending(u, t) /\ u >= t - (BackLimit - made))

\* Where it stops there are none.
EndedAt(t) == t \in Int /\ \A u \in now..t - 1 : Refuses(now) => Refuses(u) \/ ShortSpell(u)

EndInv ==
  /\ pc = "jump" => steps = 0
  /\ search = "quiet" =>
       /\ pc = "jump" => BehindAt(at)
       /\ pc = "back" => ReachableAt(at, steps)
       /\ pc = "done" /\ result # Null => EndedAt(result)

\* None of this changes in a search.
LEMMA SameEnd ==
  ASSUME Fixed
  PROVE  /\ \A t : BehindAt(t)' = BehindAt(t)
         /\ \A t, made : ReachableAt(t, made)' = ReachableAt(t, made)
         /\ \A t : EndedAt(t)' = EndedAt(t)
  <1>1. \A t : Refuses(t)' = Refuses(t)
    BY SameRefusal
  <1>2. now' = now /\ zone' = zone
    BY DEF Fixed
  <1>3. \A t : ShortSpell(t)' = ShortSpell(t)
    BY <1>1, <1>2 DEF ShortSpell
  <1>4. \A u, t : Pending(u, t)' = Pending(u, t)
    BY <1>2 DEF Pending
  <1>5. \A t : BehindAt(t)' = BehindAt(t)
    BY <1>1, <1>2, <1>3, <1>4 DEF BehindAt
  <1>6. \A t, made : ReachableAt(t, made)' = ReachableAt(t, made)
    BY <1>1, <1>2, <1>3, <1>4 DEF ReachableAt
  <1>7. Refuses(now)' = Refuses(now)
    BY <1>1, <1>2
  <1>8. \A t : EndedAt(t)' = EndedAt(t)
    BY <1>1, <1>2, <1>3, <1>7 DEF EndedAt
  <1> QED
    BY <1>5, <1>6, <1>8

\* A pending minute is in a short spell when it is quiet at t.
LEMMA SpellEnds ==
  ASSUME TypeInv, NEW t \in Int, Refuses(t), NEW u \in Int, u <= t, Pending(u, t)
  PROVE  ShortSpell(u)
  <1>1. zone.jump \in Int /\ zone.at \in Int
    BY ZoneAssumption DEF TypeInv
  <1>2. now < zone.at /\ u >= zone.at /\ zone.jump >= 0 /\ t \in u..u + zone.jump
    BY <1>1 DEF Pending
  <1> QED
    BY <1>1, <1>2 DEF ShortSpell

\* What a jump passes over.
LEMMA QuietPassed ==
  ASSUME TypeInv, WindowsInDay, search = "quiet", NEW t \in Int, t >= now, Hit(t) # NoWindow,
         NEW u \in t..t + UntilEnd(t) - 1
  PROVE  Refuses(u) \/ ShortSpell(u) \/ Pending(u, t + UntilEnd(t))
  <1>1. PICK left \in Int : left = UntilEnd(t) /\ left > 0
    BY UntilEndType
  <1>2. zone.jump \in Int /\ zone.at \in Int /\ Local(t) \in Int /\ u \in Int
    BY ZoneAssumption, DayPlace DEF TypeInv
  <1>3. \A x \in Local(t)..Local(t) + left - 1 : HitLocal(x) # NoWindow
    BY <1>1, QuietUntil
  <1>4. \A v \in Int : HitLocal(Local(v)) # NoWindow => Refuses(v)
    BY HitIs DEF Refuses
  <1>5. \A v \in Int : Local(v) = IF v >= zone.at THEN v + zone.jump ELSE v
    BY DEF Local
  <1>6. CASE ~(t < zone.at /\ zone.at <= u)
    <2>1. Local(u) = Local(t) + (u - t)
      BY <1>2, <1>5, <1>6
    <2>2. Local(u) \in Local(t)..Local(t) + left - 1
      BY <1>1, <1>2, <2>1
    <2> QED
      BY <1>2, <1>3, <1>4, <2>2
  <1>7. CASE t < zone.at /\ zone.at <= u
    <2>0. now < zone.at
      BY <1>2, <1>7 DEF TypeInv
    <2>1. Local(t) = t /\ Local(u) = u + zone.jump
      BY <1>2, <1>5, <1>7
    <2>2. CASE zone.jump >= 0
      <3>1. CASE u + zone.jump <= t + left - 1
        <4>1. Local(u) \in Local(t)..Local(t) + left - 1
          BY <1>1, <1>2, <2>1, <2>2, <3>1
        <4> QED
          BY <1>2, <1>3, <1>4, <4>1
      <3>2. CASE ~(u + zone.jump <= t + left - 1)
        BY <1>1, <1>2, <1>7, <2>0, <2>2, <3>2 DEF Pending
      <3> QED
        BY <3>1, <3>2
    <2>3. CASE zone.jump < 0
      <3>1. PICK v \in Int : v = u - zone.jump
        BY <1>2
      <3>2. Local(v) = u /\ v \in u..u + (-zone.jump)
        BY <1>2, <1>5, <1>7, <2>3, <3>1
      <3>3. Local(v) \in Local(t)..Local(t) + left - 1
        BY <1>1, <1>2, <2>1, <3>2
      <3>4. Refuses(v)
        BY <1>3, <1>4, <3>3
      <3> QED
        BY <1>7, <2>0, <2>3, <3>2, <3>4 DEF ShortSpell
    <2> QED
      BY <1>2, <2>2, <2>3
  <1> QED
    BY <1>6, <1>7

\* A jump from a quiet minute.
LEMMA EndJump ==
  ASSUME TypeInv, WindowsInDay, search = "quiet", NEW t \in Int, t >= now, Hit(t) # NoWindow, BehindAt(t)
  PROVE  BehindAt(t + UntilEnd(t))
  <1>1. PICK m \in Int : m = t + UntilEnd(t) /\ m > t
    BY UntilEndType
  <1>2. Refuses(t) /\ now \in Int
    BY DEF Refuses, TypeInv
  <1>3. ASSUME NEW u \in now..m - 1 PROVE Refuses(u) \/ ShortSpell(u) \/ Pending(u, m)
    <2>1. CASE u \in t..m - 1
      <3>1. u \in t..t + UntilEnd(t) - 1
        <4>1. m - 1 = t + UntilEnd(t) - 1
          BY <1>1, UntilEndType
        <4> QED
          BY <2>1, <4>1
      <3> QED
        BY <1>1, <3>1, QuietPassed
    <2>2. CASE u \in now..t - 1
      <3>1. Refuses(u) \/ ShortSpell(u) \/ Pending(u, t)
        BY <2>2 DEF BehindAt
      <3> QED
        BY <1>2, <2>2, <3>1, SpellEnds
    <2> QED
      BY <1>1, <1>2, <2>1, <2>2
  <1> QED
    BY <1>1, <1>3 DEF BehindAt

\* At an open minute it turns back, and has steps enough.
LEMMA EndTurn ==
  ASSUME TypeInv, SmallShifts, NEW t \in Int, BehindAt(t) PROVE ReachableAt(t, 0)
  <1>1. zone.jump \in Int /\ zone.jump <= BackLimit /\ BackLimit \in Int /\ now \in Int
    BY ZoneAssumption, LengthAssumption DEF SmallShifts, TypeInv
  <1>2. \A u \in now..t - 1 : Pending(u, t) => u >= t - (BackLimit - 0)
    BY <1>1 DEF Pending
  <1> QED
    BY <1>2 DEF BehindAt, ReachableAt

\* A step back uses up one step.
LEMMA EndBack ==
  ASSUME TypeInv, NEW t \in Int, NEW made \in Int, ReachableAt(t, made)
  PROVE  ReachableAt(t - 1, made + 1)
  <1>1. zone.jump \in Int /\ zone.at \in Int /\ BackLimit \in Int /\ now \in Int
    BY ZoneAssumption, LengthAssumption DEF TypeInv
  <1>2. ASSUME NEW u \in now..(t - 1) - 1
        PROVE  \/ Refuses(u) \/ ShortSpell(u)
               \/ Pending(u, t - 1) /\ u >= (t - 1) - (BackLimit - (made + 1))
    <2>1. u \in now..t - 1 /\ u \in Int
      BY <1>1
    <2>2. Refuses(u) \/ ShortSpell(u) \/ (Pending(u, t) /\ u >= t - (BackLimit - made))
      BY <2>1 DEF ReachableAt
    <2>3. Pending(u, t) => Pending(u, t - 1)
      BY <1>1, <2>1 DEF Pending
    <2>4. (t - 1) - (BackLimit - (made + 1)) = t - (BackLimit - made)
      BY <1>1
    <2> QED
      BY <2>2, <2>3, <2>4
  <1> QED
    BY <1>2 DEF ReachableAt

\* Where it stops, what was passed over is refused or short.
LEMMA EndStops ==
  ASSUME TypeInv, NEW t \in Int, t > now, NEW made \in Int, ReachableAt(t, made),
         ~(made < BackLimit /\ t - 1 > now /\ ~Refuses(t - 1))
  PROVE  EndedAt(t)
  <1>1. zone.jump \in Int /\ zone.at \in Int /\ BackLimit \in Int /\ now \in Int /\ t - 1 \in Int
    BY ZoneAssumption, LengthAssumption DEF TypeInv
  <1>2. ASSUME NEW u \in now..t - 1, Refuses(now) PROVE Refuses(u) \/ ShortSpell(u)
    <2>1. SUFFICES ASSUME Pending(u, t), u >= t - (BackLimit - made) PROVE Refuses(u) \/ ShortSpell(u)
      BY DEF ReachableAt
    <2>2. made < BackLimit /\ u \in Int
      BY <1>1, <2>1
    <2>3. CASE t - 1 > now
      <3>1. Refuses(t - 1)
        BY <2>2, <2>3
      <3>2. Pending(u, t - 1) /\ u <= t - 1
        BY <1>1, <2>1, <2>2 DEF Pending
      <3> QED
        BY <1>1, <2>2, <3>1, <3>2, SpellEnds
    <2>4. CASE ~(t - 1 > now)
      <3>1. u = now
        BY <1>1, <2>2, <2>4
      <3> QED
        BY <1>2, <3>1
    <2> QED
      BY <2>3, <2>4
  <1> QED
    BY <1>2 DEF EndedAt

\* The search goes on so.
LEMMA EndStep ==
  ASSUME SmallShifts, WindowsInDay, TypeInv, OpenInv, EndInv, [Next]_vars PROVE EndInv'
  <1>1. Fixed
    BY StepFixed
  <1>2. search' = search /\ now' = now
    BY <1>1 DEF Fixed
  <1>3. /\ \A t : BehindAt(t)' = BehindAt(t)
        /\ \A t, made : ReachableAt(t, made)' = ReachableAt(t, made)
        /\ \A t : EndedAt(t)' = EndedAt(t)
    BY <1>1, SameEnd
  <1>4. at \in Int /\ at >= now /\ steps \in Int /\ now \in Int
    BY LengthAssumption DEF TypeInv, TypeOK
  <1>5. CASE search # "quiet"
    <2>1. pc' = "jump" => steps' = 0
      BY <1>5 DEF Next, QuietJump, KeyJump, GiveUp, StepBack, Return, vars, EndInv
    <2> QED
      BY <1>2, <1>5, <2>1 DEF EndInv
  <1>6. CASE search = "quiet"
    <2>1. CASE QuietJump
      <3>1. pc = "jump" /\ steps = 0 /\ steps' = 0 /\ BehindAt(at)
        BY <1>6, <2>1 DEF QuietJump, EndInv
      <3>2. CASE Hit(at) = NoWindow
        <4>1. pc' = "back" /\ at' = at
          BY <2>1, <3>2 DEF QuietJump
        <4>2. ReachableAt(at, 0)
          BY <1>4, <3>1, EndTurn
        <4>3. \A t, made : t = at' /\ made = steps' => ReachableAt(t, made)'
          BY <1>3, <3>1, <4>1, <4>2
        <4> QED
          BY <4>1, <4>3 DEF EndInv
      <3>3. CASE Hit(at) # NoWindow
        <4>1. pc' = "jump" /\ at' = at + UntilEnd(at)
          BY <2>1, <3>1, <3>3 DEF QuietJump
        <4>2. BehindAt(at + UntilEnd(at))
          BY <1>4, <1>6, <3>1, <3>3, EndJump
        <4>3. \A t : t = at' => BehindAt(t)'
          BY <1>3, <4>1, <4>2
        <4> QED
          BY <3>1, <4>1, <4>3 DEF EndInv
      <3> QED
        BY <3>2, <3>3
    <2>2. CASE GiveUp
      <3>1. pc' = "done" /\ result' = Null
        BY <2>2 DEF GiveUp, OpenInv
      <3> QED
        BY <3>1 DEF EndInv
    <2>3. CASE StepBack
      <3>1. pc = "back" /\ pc' = "back" /\ at' = at - 1 /\ steps' = steps + 1 /\ ReachableAt(at, steps)
        BY <1>6, <2>3 DEF StepBack, EndInv
      <3>2. ReachableAt(at - 1, steps + 1)
        BY <1>4, <3>1, EndBack
      <3>3. \A t, made : t = at' /\ made = steps' => ReachableAt(t, made)'
        BY <1>3, <3>1, <3>2
      <3> QED
        BY <3>1, <3>3 DEF EndInv
    <2>4. CASE Return
      <3>1. /\ pc = "back" /\ pc' = "done" /\ ~MayStep /\ result' = (IF at > now THEN at ELSE Null)
            /\ ReachableAt(at, steps)
        BY <1>6, <2>4 DEF Return, EndInv
      <3>2. at > now => EndedAt(at)
        BY <1>4, <3>1, EndStops DEF MayStep
      <3>3. \A t : t = result' /\ t # Null => EndedAt(t)'
        BY <1>3, <3>1, <3>2
      <3> QED
        BY <3>1, <3>3 DEF EndInv
    <2>5. CASE UNCHANGED vars
      <3>1. pc' = pc /\ steps' = steps /\ at' = at /\ result' = result
        BY <2>5 DEF vars
      <3> QED
        BY <1>2, <1>3, <1>6, <3>1 DEF EndInv
    <2>6. ~KeyJump
      BY <1>6 DEF KeyJump
    <2> QED
      BY <2>1, <2>2, <2>3, <2>4, <2>5, <2>6 DEF Next
  <1> QED
    BY <1>5, <1>6

\* The end of quiet hours that quietEndsAt() names is the first one, unless the
\* clocks change on the way; then it overlooks only one that more of them follow
\* within the shift.
THEOREM EndsFound ==
  ASSUME SmallShifts, WindowsInDay
  PROVE  Spec => [](search = "quiet" /\ result # Null => OnlyShortSpellsOverlooked)
  <1>1. Init => TypeInv /\ EndInv /\ OpenInv
    <2>1. ASSUME Init PROVE EndInv
      <3>1. now \in Int /\ at = now /\ pc = "jump" /\ steps = 0
        BY <2>1, TypeInit DEF Init, TypeInv
      <3>2. \A u \in now..now - 1 : FALSE
        BY <3>1
      <3> QED
        BY <3>1, <3>2 DEF EndInv, BehindAt
    <2> QED
      BY <2>1, TypeInit DEF Init, OpenInv
  <1>2. TypeInv /\ EndInv /\ OpenInv /\ [Next]_vars => (TypeInv /\ EndInv /\ OpenInv)'
    BY TypeStep, EndStep, OpenStep
  <1>3. TypeInv /\ EndInv => (search = "quiet" /\ result # Null => OnlyShortSpellsOverlooked)
    <2>1. SUFFICES ASSUME TypeInv, EndInv, search = "quiet", result # Null, pc = "done", Refuses(now)
                   PROVE  \A t \in Passed : Refuses(t) \/ ShortSpell(t)
      BY DEF OnlyShortSpellsOverlooked
    <2>2. EndedAt(result)
      BY <2>1 DEF EndInv
    <2> QED
      BY <2>1, <2>2 DEF EndedAt, Passed
  <1> QED
    BY <1>1, <1>2, <1>3, PTL DEF Spec
=============================================================================
