SPECIFICATION MCSpec
CONSTANTS
  c1 = c1
  c2 = c2
  Clients = {c1, c2}
  MaxTimeouts = 2
  MaxAsks = 2
  MaxReports = 1
  MaxRuns = 2
INVARIANTS
  AnswersFresh
  TimeoutsConverge
PROPERTIES
  TimeoutsArrive
CHECK_DEADLOCK FALSE
