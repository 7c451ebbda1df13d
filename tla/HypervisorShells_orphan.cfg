CONSTANTS
  MaxShells = 1
  Shells = {s1, s2}
  Projects = {p1}
  LongIds = {}
  Deaths = {"clean", "crash"}
  Commands = {"open"}
  UserGiven = {TRUE}
  ForkMayFail = TRUE
  MaxRestarts = 1
  Handler = handler
  NULL = null
SPECIFICATION Spec
CHECK_DEADLOCK FALSE
INVARIANTS FailedOpenKillsChild
