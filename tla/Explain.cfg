\* Documents of one check or preset with any option, documents of three checks, and
\* policies of three checks written by hand.
SPECIFICATION ExplainSpec
CONSTANTS
  NumChecks = 3
  feed = feed
  push = push
  Lists = {{feed}, {push}}
  UserSurfaces = {push}
  Requested = {feed, push}
  Instants = {0, 2}
  Now = 1
  GivenLimit = 5
  Documents <- MCDocuments
  HandWritten <- MCHandWritten
  None = None
  Absent = Absent
INVARIANT FirstStopDecides
INVARIANT LastAdjustRoutes
INVARIANT TraceTellsAll
INVARIANT DocumentsAreHonoured
INVARIANT PresetsKeepTheirLimits
INVARIANT SpeaksForTheSpeaker
INVARIANT SummaryNamesTheDecider
\* An evaluation ends, and a document that does not compile starts none.
CHECK_DEADLOCK FALSE
