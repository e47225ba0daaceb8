----------------------------- MODULE MCIpscPeer -----------------------------
(***************************************************************************)
(* Instances of IpscPeer: the upstream master (1) and a sibling (2) behind *)
(* the same address, and a repeater (3) that may move to another port.     *)
(***************************************************************************)
EXTENDS IpscPeer, TLC

At(id, host, port) == [id |-> id, addr |-> [host |-> host, port |-> port]]
Master   == At(1, "m", 1)
Sibling  == At(2, "m", 2)
Repeater == At(3, "r", 1)
Moved    == At(3, "r", 2)

Everyone == {Master, Sibling, Repeater, Moved}
JustMaster == {Master}
MasterAndSibling == {Master, Sibling}

\* The list before the repeater is on the air, and after.
EmptyList == [id \in {} |-> Repeater.addr]
FullList  == 1 :> Master.addr @@ 2 :> Sibling.addr @@ 3 :> Repeater.addr
BothLists == {EmptyList, FullList}
NoLists   == {EmptyList}
=============================================================================
