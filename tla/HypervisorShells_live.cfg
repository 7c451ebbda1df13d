CONSTANTS
  MaxShells = 1
  Shells = {s1, s2}
  Projects = {p1}
  LongIds = {}
  Deaths = {"clean", "crash"}
  Commands = {"open", "close", "background", "keys", "disconnect", "resize", "status", "poweroff"}
  UserGiven = {TRUE, FALSE}
  ForkMayFail = TRUE
  MaxRestarts = 1
  Handler = handler
  NULL = null
SPECIFICATION FairSpec
CHECK_DEADLOCK FALSE
PROPERTIES DeadShellsAreFreed BackgroundCrashIsRepaired HandlerComesBack
