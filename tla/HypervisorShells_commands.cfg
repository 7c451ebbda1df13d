CONSTANTS
  MaxShells = 1
  Shells = {s1, s2}
  Projects = {p1, p2}
  LongIds = {p2}
  Deaths = {"clean", "crash"}
  Commands = {"open", "close", "background", "keys", "disconnect", "resize", "status", "poweroff"}
  UserGiven = {TRUE, FALSE}
  ForkMayFail = TRUE
  MaxRestarts = 1
  Handler = handler
  NULL = null
SPECIFICATION Spec
CHECK_DEADLOCK FALSE
SYMMETRY ShellSymmetry
INVARIANTS TypeOK MutexLostOnlyByOverflow
