\* The daily budget is in shadow mode.
SPECIFICATION Spec
CONSTANTS
  None = None
  NoKey = NoKey
  e1 = e1
  e2 = e2
  kDup1 = kDup1
  kDup2 = kDup2
  kDay = kDay
  kWeek = kWeek
  Gates = {g1}
  Candidates = {e1}
  Instants = {t1}
  Decisions = {d1, d2}
  Calls = {c1, c2}
  Keys = {kDay}
  NumChecks = 1
  KeyOf <- DailyOnly
  Limit <- One
  Shadow = {1}
  Modes <- Patient
  SharedInstants = FALSE
  Mortal = {}
  MaxSequence = 2
  MaxErrors = 0
  MaxExpired = 0
SYMMETRY Actors
INVARIANT RefusedForCause
\* Every decision and call is used up in the end: the model stops.
CHECK_DEADLOCK FALSE
