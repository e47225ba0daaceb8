------------------------------ MODULE MCClient ------------------------------
(***************************************************************************)
(* Instances of HBPClient for TLC: two tasks, so that a second connect     *)
(* loop could exist, and ticks of five seconds.                            *)
(***************************************************************************)
EXTENDS HBPClient, TLC

NoFaults        == {}
LocalFaults     == {"send error", "socket error", "endpoint error", "keepalive loss",
                    "handshake loss"}
KeepaliveFaults == {"keepalive loss", "MSTNAK", "MSTCL"}
HandshakeLoss   == {"handshake loss"}
TaskSymmetry == Permutations(Tasks)   \* safety runs only
=============================================================================
