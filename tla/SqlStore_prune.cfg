\* Callers of a PostgresStore: reads and claims.
SPECIFICATION PySpec
CONSTANTS
  p1 = p1
  Callers = {c1, c2, c3, c4}
  Layouts <- OneProcess
  Counters = {claim}
  Cells = {marker}
  Values = {1}
  Operations = {"get", "incr"}
  Lifetime = 2
  Kinds = {"postgres"}
  NoTime = NoTime
  Absent = Absent
  None = None
  MaxNow = 4
  MaxErrors = 0
SYMMETRY Symmetry
INVARIANT OneClaimPerWindow
\* Every call is used up in the end: the model stops.
CHECK_DEADLOCK FALSE
