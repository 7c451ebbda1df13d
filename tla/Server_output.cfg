CONSTANTS
  Retries = TRUE
  MaxConnections = 2
  MaxEvents = 2
  BuildCost = 2
  Builds = {b1}
  b1 = b1
  b2 = b2
  Pipes <- SomePipes
  MaxOutput = 2
  PipeSize = 1
  MaxOthers = 0
  Senders = {s1, s2}
  Projects = {p1}
  Workers = {w1}
  MaxRange = 2
  MaxSignals = 3
SPECIFICATION Spec
CHECK_DEADLOCK FALSE
INVARIANTS OutputIsSent
