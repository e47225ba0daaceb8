\* A radio behind the master's address speaks first, against PEER_MODE.md:25 and :66.
\* stop ends it.
SPECIFICATION Spec
CONSTANTS
  Ids = {1, 2, 3}
  Hosts = {"m", "r"}
  Ports = {1, 2}
  None = None
  Endpoints <- MasterAndSibling
  Masters <- JustMaster
  Lists <- NoLists
  MasterHost = "m"
  MasterPort = 1
  MasterId = 0
  AllowUnknown = TRUE
  Prune = TRUE
  AliveInterval = 2
  MaxMissed = 2
  MaxLag = 1
INVARIANT LearntFromAReply
CHECK_DEADLOCK FALSE
