-------------------------- MODULE IpscMasterProofs --------------------------
(***************************************************************************)
(* Proofs about IpscMaster: type correctness, and that the endpoint        *)
(* implements the contract IpscLink.                                       *)
(***************************************************************************)
EXTENDS IpscMaster, TLAPS

LEMMA ConstantsType ==
  /\ KeepaliveWatchdog \in Nat
  /\ \A p \in [id : Ids, addr : Addr] : p # None
BY MasterAssumption

LEMMA InitTypeOK == Init => TypeOK
BY ConstantsType DEF Init, TypeOK, registered

\* The datagrams of a step are of the master's kinds.
LEMMA SendType ==
  ASSUME NEW ops \in SUBSET MasterOps, NEW a \in Addr, Send(ops, a)
  PROVE  sent' \subseteq [op : MasterOps, to : Addr]
BY DEF Send

LEMMA NextTypeOK == TypeOK /\ [Next]_vars => TypeOK'
<1> SUFFICES ASSUME TypeOK, [Next]_vars PROVE TypeOK'
  OBVIOUS
<1> USE ConstantsType DEF registered
<1>1. ASSUME NEW id \in Ids, NEW a \in Addr, _on_reg_req(id, a) PROVE TypeOK'
  <2>1. sent' \subseteq [op : MasterOps, to : Addr]
    BY <1>1, SendType DEF _on_reg_req, MasterOps
  <2> QED
    BY <1>1, <2>1 DEF _on_reg_req, TypeOK
<1>2. ASSUME NEW id \in Ids, NEW a \in Addr, _on_alive_req(id, a) PROVE TypeOK'
  <2>1. sent' \subseteq [op : MasterOps, to : Addr]
    BY <1>2, SendType DEF _on_alive_req, MasterOps
  <2> QED
    BY <1>2, <2>1 DEF _on_alive_req, TypeOK
<1>3. ASSUME NEW id \in Ids, NEW a \in Addr, _on_peer_list_req(id, a) PROVE TypeOK'
  <2>1. sent' \subseteq [op : MasterOps, to : Addr]
    BY <1>3, SendType DEF _on_peer_list_req, MasterOps
  <2> QED
    BY <1>3, <2>1 DEF _on_peer_list_req, TypeOK
<1>4. ASSUME NEW id \in Ids, NEW a \in Addr, _on_de_reg_req(id, a) PROVE TypeOK'
  <2>1. sent' \subseteq [op : MasterOps, to : Addr]
    BY <1>4, SendType DEF _on_de_reg_req, MasterOps
  <2> QED
    BY <1>4, <2>1 DEF _on_de_reg_req, _clear_peer, TypeOK
<1>5. ASSUME NEW a \in Addr, _on_group_voice(a) PROVE TypeOK'
  BY <1>5 DEF _on_group_voice, TypeOK
<1>6. CASE send_to_peer
  <2>1. sent' \subseteq [op : MasterOps, to : Addr]
    BY <1>6, SendType DEF send_to_peer, MasterOps, TypeOK
  <2> QED
    BY <1>6, <2>1 DEF send_to_peer, TypeOK
<1>7. CASE Watchdog
  BY <1>7 DEF Watchdog, _clear_peer, TypeOK
<1>8. CASE Tick
  BY <1>8 DEF Tick, TypeOK
<1>9. CASE UNCHANGED vars
  BY <1>9 DEF vars, TypeOK
<1> QED
  BY <1>1, <1>2, <1>3, <1>4, <1>5, <1>6, <1>7, <1>8, <1>9 DEF Next

\* The types hold for every set of IDs, hosts and ports and every watchdog time.
THEOREM TypeCorrect == Spec => []TypeOK
<1>1. TypeOK /\ [Next]_vars => TypeOK'
  BY NextTypeOK
<1> QED
  BY InitTypeOK, <1>1, PTL DEF Spec

-----------------------------------------------------------------------------
\* Each step of the endpoint is one of the contract.
LEMMA StepKeepsLink == TypeOK /\ [Next]_vars => [Link!Next]_(Link!linkVars)
<1> SUFFICES ASSUME TypeOK, [Next]_vars PROVE [Link!Next]_(Link!linkVars)
  OBVIOUS
<1> USE ConstantsType DEF registered, Link!Next, Link!linkVars
<1>1. ASSUME NEW id \in Ids, NEW a \in Addr, _on_reg_req(id, a) PROVE Link!Next
  BY <1>1 DEF _on_reg_req, Link!Registered, Link!Quiet
<1>2. ASSUME NEW id \in Ids, NEW a \in Addr,
             _on_alive_req(id, a) \/ _on_peer_list_req(id, a)
      PROVE  Link!Next
  BY <1>2 DEF _on_alive_req, _on_peer_list_req, Link!Quiet
<1>3. ASSUME NEW id \in Ids, NEW a \in Addr, _on_de_reg_req(id, a) PROVE Link!Next
  BY <1>3 DEF _on_de_reg_req, IsPeer, _clear_peer, Link!Lost
<1>4. ASSUME NEW a \in Addr, _on_group_voice(a) PROVE Link!Next
  BY <1>4 DEF _on_group_voice, Link!Voice
<1>5. CASE Watchdog
  BY <1>5 DEF Watchdog, _clear_peer, Link!Lost
<1>6. CASE send_to_peer \/ Tick
  BY <1>6 DEF send_to_peer, Tick, Link!Quiet
<1>7. CASE UNCHANGED vars
  BY <1>7 DEF vars
<1> QED
  BY <1>1, <1>2, <1>3, <1>4, <1>5, <1>6, <1>7 DEF Next

\* The master endpoint keeps its promise to the translator with any number of
\* repeaters, whatever datagrams arrive: peer_registered and peer_lost alternate
\* with the answer of is_peer_registered, and voice comes only in between.
THEOREM MasterImplementsLink == Spec => LinkIsKept
<1>1. Init => Link!Init
  BY DEF Init, Link!Init, registered
<1>2. TypeOK /\ [Next]_vars => [Link!Next]_(Link!linkVars)
  BY StepKeepsLink
<1> QED
  BY <1>1, <1>2, TypeCorrect, PTL DEF Spec, LinkIsKept, Link!Spec
=============================================================================
