\* Two dashboards, two loads and two actions at once.
SPECIFICATION FairSpec
CONSTANTS
  d1 = d1
  d2 = d2
  e1 = e1
  e2 = e2
  Dashboards = {d1, d2}
  Elements = {e1, e2}
  FilterElements <- MCFilterElements
  Routes <- MCRoutes
  FirstRoute <- MCFirstRoute
  Jobs = {1, 2}
  Loads = {1, 2}
  MaxActions = 3
  MaxEdits = 2
  MaxLoads = 2
  None = None
INVARIANTS
  CleanMeansSaved
PROPERTIES
  EditsKept
  AddsWhereAsked
  WorkspaceUsable
\* What the user does is bounded.
CHECK_DEADLOCK FALSE
