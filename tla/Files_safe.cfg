CONSTANTS
  Paths = {p1, p2}
  Calls = {"attr", "list"}
  Answers = {"ok", "error", "bad"}
  MaxAsked = 1
  Fuse = fuse
  Xmpp = xmpp
  NULL = null
SPECIFICATION Spec
CHECK_DEADLOCK FALSE
SYMMETRY Symmetry
INVARIANTS NoLostWakeup WaitsOnLiveConnection OwnAnswerUntilError
