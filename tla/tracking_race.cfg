\* The peer is lost while the socket is being made, against theory_of_operation.md 6.3.
SPECIFICATION Spec
CONSTANTS
  None = None
  Tasks = {t1, t2}
  Tracking = TRUE
  Options = FALSE
  EarlyPeer = FALSE
  Faults <- NoFaults
  KaInterval = 1
  MaxKaAge = 1
  ReconnectDelay = 1
  MaxInFlight = 2
INVARIANT TrackingFollowsPeer
SYMMETRY TaskSymmetry
CHECK_DEADLOCK FALSE
