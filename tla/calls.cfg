\* Four callers, two nodes; or the record of two calls.
SPECIFICATION CallsSpec
CONSTANTS
  c1 = c1
  c2 = c2
  c3 = c3
  c4 = c4
  MaxNodes = 2
  Connections = {c1, c2, c3, c4}
  CallIds = {c1, c2}
  None = None
  Minute = 2
  DayLength = 4
  DailyResetOffset = 1
  MaxNameRetries = 2
  MaxPasswordFailures = 2
  MaxGateAttempts = 2
  MaxResetAttempts = 2
  CallWorkloads <- PlansTried
INVARIANTS NodesHeldOnce SlotsLeadToTheHolder CountedBeforeLogged
PROPERTIES OnlyAFullPoolRefuses CallersAnswered EndToldOnce TimeCharged CallsEnd
\* the run ends when every connection was served, or the calls of the plan are over
CHECK_DEADLOCK FALSE
