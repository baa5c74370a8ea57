\* A caller starts commit() again before the first call answered.
SPECIFICATION Spec
CONSTANTS
  None = None
  NoKey = NoKey
  e1 = e1
  e2 = e2
  kDup1 = kDup1
  kDup2 = kDup2
  kDay = kDay
  kWeek = kWeek
  Gates = {g1}
  Candidates = {e1}
  Instants = {t1}
  Decisions = {d1}
  Calls = {c1, c2}
  Keys = {kWeek, kDay}
  NumChecks = 2
  KeyOf <- WeeklyThenDaily
  Limit <- TwoOne
  Shadow = {}
  Modes <- Hasty
  SharedInstants = FALSE
  Mortal = {}
  MaxSequence = 1
  MaxErrors = 0
  MaxExpired = 0
SYMMETRY Actors
INVARIANT OneSpendPerDecision
\* Every decision and call is used up in the end: the model stops.
CHECK_DEADLOCK FALSE
