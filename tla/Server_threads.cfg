CONSTANTS
  Retries = TRUE
  MaxConnections = 2
  MaxEvents = 4
  BuildCost = 2
  Builds = {b1, b2}
  b1 = b1
  b2 = b2
  Pipes <- SomePipes
  MaxOutput = 2
  PipeSize = 1
  MaxOthers = 1
  Senders = {s1, s2}
  Projects = {p1}
  Workers = {w1}
  MaxRange = 2
  MaxSignals = 3
SPECIFICATION FairSpec
CHECK_DEADLOCK FALSE
INVARIANTS FlagsMatchConnection SendingHasSender MixedOnlyByReuse OutputInOrder OnlyPostedIsTrimmed
PROPERTIES BuildsEnd StopEndsSenders LostIsRetried
