\* Two candidates and a state update, every kind of policy; a local day of two instants.
SPECIFICATION Spec
CONSTANTS
  NumEvents = 2
  NumUpdates = 1
  Users = {u1}
  Offsets = {0, 1}
  States <- MCStates
  Instants = {0, 2}
  DayLength = 2
  Night = {0}
  Policies <- MCPolicies
  Expiry = 3
  MaxAttempts = 3
  Delays <- MCDelays
  None = None
CONSTRAINT UpdatedLater
INVARIANT NothingForgotten
INVARIANT SentOnFreshState
INVARIANT PaidDeliveriesStand
INVARIANT RowsAreWhatWasPaid
INVARIANT DeferralEnds
INVARIANT BooksBalance
INVARIANT BusyDaysWerePostponed
INVARIANT TimelineTellsTheRun
PROPERTY ForwardOnly
\* A replay ends.
CHECK_DEADLOCK FALSE
