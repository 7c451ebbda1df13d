CONSTANTS
  Programs = {"server", "hypervisor"}
  Writers = {w1, w2}
  Entries = {e1, e2, e3, e4}
  MaxLogs = 2
  MaxSize = 3
  Sender = sender
  Freed = freed
  NULL = null
SPECIFICATION FairSpec
CHECK_DEADLOCK FALSE
INVARIANTS HypervisorTakesOnce
PROPERTIES LogReturns LogIsTaken
