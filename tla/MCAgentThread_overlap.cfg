\* Does the check of the status keep a second run out?
SPECIFICATION ThreadSpec
CONSTANTS
  Runs = {r1, r2}
  MaxCompactions = 1
PROPERTIES
  RunsExclusively
CHECK_DEADLOCK FALSE
