\* The plan of the AI and what the user does meanwhile.
SPECIFICATION Spec
CONSTANTS
  d1 = d1
  d2 = d2
  e1 = e1
  e2 = e2
  Dashboards = {d1, d2}
  Elements = {e1, e2}
  FilterElements <- MCFilterElements
  Routes <- MCRoutes
  FirstRoute <- MCFirstRoute
  Jobs = {1, 2}
  Loads = {1, 2}
  MaxActions = 2
  MaxEdits = 2
  MaxLoads = 3
  None = None
PROPERTIES
  AiEditsKeepElements
\* What the user does is bounded.
CHECK_DEADLOCK FALSE
