----------------------------- MODULE MCIpscPair -----------------------------
(***************************************************************************)
(* An instance of IpscPair: ports 1 and 2, of which the master has 1.      *)
(***************************************************************************)
EXTENDS IpscPair

MasterHere == [host |-> "m", port |-> 1]
=============================================================================
