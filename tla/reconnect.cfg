\* The master ends sessions and the keepalives get lost, but no login does.
\* A signal stops the process.
SPECIFICATION FairSpec
CONSTANTS
  None = None
  Tasks = {t1, t2}
  Tracking = TRUE
  Options = FALSE
  EarlyPeer = FALSE
  Faults <- KeepaliveFaults
  KaInterval = 1
  MaxKaAge = 3
  ReconnectDelay = 1
  MaxInFlight = 2
PROPERTIES Reconnects DeadMasterNoticed
CHECK_DEADLOCK FALSE
