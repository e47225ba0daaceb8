\* TRACKING mode with an options string; sockets, sends and datagrams fail at any step,
\* and a peer may register before the client is started.
\* A signal stops the process, after which nothing moves.
SPECIFICATION Spec
CONSTANTS
  None = None
  Tasks = {t1, t2}
  Tracking = TRUE
  Options = TRUE
  EarlyPeer = TRUE
  Faults <- LocalFaults
  KaInterval = 1
  MaxKaAge = 3
  ReconnectDelay = 1
  MaxInFlight = 3
INVARIANTS TypeOK OneSession ConnectedIsServed EndIsReported
PROPERTY ConnectedIsAccepted
SYMMETRY TaskSymmetry
CHECK_DEADLOCK FALSE
