CONSTANTS
  Paths = {p1}
  Calls = {"list", "read"}
  Answers = {"ok", "error", "bad"}
  MaxAsked = 1
  Fuse = fuse
  Xmpp = xmpp
  NULL = null
SPECIFICATION FairSpec
CHECK_DEADLOCK FALSE
PROPERTIES ErrorReleasesCaller AnswerReleasesCaller
