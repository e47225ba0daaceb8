\* A MASTER and a PEER endpoint with two faults: lost, repeated or delayed datagrams, a NAT
\* that moves the port, crashes. The watchdog takes a tick more than the latest keepalive.
SPECIFICATION PairSpec
CONSTANTS
  Ids = {3}
  Hosts = {"m", "r"}
  Ports = {1, 2}
  None = None
  AllowedHost = None
  ExpectedId = 3
  KeepaliveWatchdog = 4
  MasterId = 1
  MasterAt <- MasterHere
  RepeaterId = 3
  RepeaterHost = "r"
  AliveInterval = 2
  MaxMissed = 2
  MaxLag = 1
  MaxFaults = 2
INVARIANT TypeOK
PROPERTIES MasterKeepsLink Settles DeathIsNoticed
