\* A question about two data models, one attempt at each request.
SPECIFICATION PlanSpec
CONSTANTS
  Tables = {d1, d2}
  Invented = Invented
  NoTable = NoTable
  RouteTurns = 2
  BuildTurns = 3
  Attempts = 1
INVARIANT BuildsWhatWasNamed
CHECK_DEADLOCK FALSE
