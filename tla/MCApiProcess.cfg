\* Three runs and three compactions of a thread; two logins, a status request,
\* a choice of the model and two restarts; two edits and two reads of a source
\* whose API issues two tokens, beside one full load; a question about two data
\* models.  Logins and edits, of components that share nothing, have the same names.
SPECIFICATION ProcessSpec
CONSTANTS
  Runs = {r1, r2, r3}
  MaxCompactions = 3
  Logins = {q1, q2}
  Statuses = {s1}
  Boot = boot
  Choices = {m1}
  DEFAULT = default
  MaxRestarts = 2
  Nothing = Nothing
  Edits = {q1, q2}
  Reads = {p1, p2}
  MaxTokens = 2
  Tables = {d1, d2}
  Invented = Invented
  NoTable = NoTable
  RouteTurns = 2
  BuildTurns = 2
  Attempts = 2
SYMMETRY Symmetric
INVARIANTS
  OneCompactionForgetsNothing
  LoginSurvives
  ChosenModelStays
  EditsStay
  RefusedStaysOut
  GroundedPlan
  AskedAtMost
\* Requests, restarts and tokens are finitely many.
CHECK_DEADLOCK FALSE
