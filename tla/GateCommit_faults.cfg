\* Overlapping calls and patient ones, crashes at any await, a store call that throws.
SPECIFICATION Spec
CONSTANTS
  None = None
  NoKey = NoKey
  e1 = e1
  e2 = e2
  kDup1 = kDup1
  kDup2 = kDup2
  kDay = kDay
  kWeek = kWeek
  Gates = {g1, g2}
  Candidates = {e1, e2}
  Instants = {t1}
  Decisions = {d1, d2}
  Calls = {c1, c2, c3}
  Keys = {kDup1, kDup2, kDay}
  NumChecks = 2
  KeyOf <- DedupeThenDaily
  Limit <- OneOne
  Shadow = {}
  Modes <- AllModes
  SharedInstants = FALSE
  Mortal = {g1, g2}
  MaxSequence = 2
  MaxErrors = 1
  MaxExpired = 1
SYMMETRY Actors
CONSTRAINT OneMishap
INVARIANT TypeOK
INVARIANT GrantsBounded
INVARIANT DuplicatesSpendNothing
INVARIANT OneSpendForPatient
INVARIANT RefusedForCause
PROPERTY FirstResultStays
PROPERTY ImplementsLedger
\* Every decision and call is used up in the end: the model stops.
CHECK_DEADLOCK FALSE
