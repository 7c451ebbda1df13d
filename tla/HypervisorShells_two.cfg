CONSTANTS
  MaxShells = 2
  Shells = {s1, s2, s3}
  Projects = {p1, p2}
  LongIds = {}
  Deaths = {"clean", "crash"}
  Commands = {"open", "close", "background"}
  UserGiven = {TRUE}
  ForkMayFail = TRUE
  MaxRestarts = 1
  Handler = handler
  NULL = null
SPECIFICATION Spec
CHECK_DEADLOCK FALSE
SYMMETRY Symmetry
INVARIANTS SlotsMatchShells FileNamesItsProject
PROPERTIES ImplementsTable
