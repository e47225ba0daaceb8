\* An upstream master and a sibling behind its address, a repeater that moves to another
\* port; only listed peers are accepted and the master ID is learnt. stop ends it.
SPECIFICATION FairSpec
CONSTANTS
  Ids = {1, 2, 3}
  Hosts = {"m", "r"}
  Ports = {1, 2}
  None = None
  Endpoints <- Everyone
  Masters <- MasterAndSibling
  Lists <- BothLists
  MasterHost = "m"
  MasterPort = 1
  MasterId = 0
  AllowUnknown = FALSE
  Prune = TRUE
  AliveInterval = 3
  MaxMissed = 3
  MaxLag = 1
INVARIANTS TypeOK MasterIsNoPeer
PROPERTIES LinkIsKept KeptWhileAsked SilenceIsNoticed
CHECK_DEADLOCK FALSE
