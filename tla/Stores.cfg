\* The three clients of the map stores, with and without a lifetime; and callers of
\* each SQL store, in one process or two.
SPECIFICATION MCSpec
CONSTANTS
  p1 = p1
  p2 = p2
  Callers = {c1, c2, c3}
  Counters = {claim}
  Cells = {marker}
  Values = {1}
  Absent = Absent
  None = None
  MaxNow = 4
  MaxErrors = 1
  Lifetimes = {0, 2}
  Never = Never
  Layouts <- OneOrTwo
  Operations = {"get", "set", "incr", "del"}
  Lifetime = 2
  Kinds = {"postgres", "sqlite", "python", "aiosqlite"}
  NoTime = NoTime
CONSTRAINT SmallTables
SYMMETRY Symmetry
INVARIANT OneClaimPerLifetime
INVARIANT ImmortalOnlyByFailure
INVARIANT WritesLostToPruneOnly
INVARIANT OneProcessPrunesTheDead
INVARIANT TransactionsEnd
PROPERTY ImplementsStore
\* Every call is used up in the end: the model stops.
CHECK_DEADLOCK FALSE
