------------------------------ MODULE IpscLink ------------------------------
(***************************************************************************)
(* What an IPSC endpoint promises the translator, in MASTER and in PEER    *)
(* mode: is_peer_registered() and the callbacks agree.  peer_registered    *)
(* and peer_lost alternate, each at the very step that changes the answer, *)
(* and voice is handed over only in between.  CallTranslator and HBPClient *)
(* assume no more of their IPSC side than this.                            *)
(***************************************************************************)
VARIABLES
  up,        \* is_peer_registered()
  callback   \* the callback made by the last step, or "none"

linkVars == <<up, callback>>

Init == up = FALSE /\ callback = "none"

Registered == ~up /\ up' = TRUE /\ callback' = "peer_registered"
Lost       == up /\ up' = FALSE /\ callback' = "peer_lost"
Voice      == up /\ up' = TRUE /\ callback' = "ipsc_voice_received"
Quiet      == up' = up /\ callback' = "none"

Next == Registered \/ Lost \/ Voice \/ Quiet

Spec == Init /\ [][Next]_linkVars
=============================================================================
