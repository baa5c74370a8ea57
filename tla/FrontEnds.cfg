\* Front ends of every kind race under the policy init writes for the minor mode.
SPECIFICATION FrontSpec
CONSTANTS
  None = None
  NoKey = NoKey
  e1 = e1
  minor = minor
  kDay = kDay
  kMinor = kMinor
  mcp1 = mcp1
  adapter1 = adapter1
  replay1 = replay1
  hook1 = hook1
  dry1 = dry1
  Gates = {mcp1, adapter1, replay1, hook1, dry1}
  Kind <- AllKinds
  Candidates = {e1, minor}
  Instants = {t1}
  Decisions = {d1, d2, d3}
  Calls = {d1, d2, d3}
  Keys = {kDay, kMinor}
  NumChecks = 2
  KeyOf <- MinorThenDaily
  Limit <- OneTwo
  Shadow = {}
  Modes <- Patient
  SharedInstants = FALSE
  Mortal = {}
  MaxSequence = 3
  MaxErrors = 0
  MaxExpired = 1
INVARIANT EachHoldsItsUnit
INVARIANT LosesToOthersOnly
PROPERTY EveryUnitIsUsed
\* Every request is answered in the end: the model stops.
CHECK_DEADLOCK FALSE
