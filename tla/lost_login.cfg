\* A datagram of the login is lost, against theory_of_operation.md 6.5.
SPECIFICATION FairSpec
CONSTANTS
  None = None
  Tasks = {t1, t2}
  Tracking = FALSE
  Options = FALSE
  EarlyPeer = FALSE
  Faults <- HandshakeLoss
  KaInterval = 1
  MaxKaAge = 1
  ReconnectDelay = 1
  MaxInFlight = 2
PROPERTY Reconnects
CHECK_DEADLOCK FALSE
