----------------------------- MODULE IpscMaster -----------------------------
(***************************************************************************)
(* The IPSC endpoint in MASTER mode (class IPSCProtocol of                 *)
(* src/ipsc/protocol.py): one repeater registers, keeps its registration   *)
(* alive and sends voice.  A handler takes a datagram's radio ID and the   *)
(* address it came from; one that no action takes is dropped.  Next lets   *)
(* any datagram arrive at any time, so whatever is shown of Spec holds     *)
(* with any number of repeaters and any network.                           *)
(***************************************************************************)
EXTENDS Integers

CONSTANTS
  Ids,               \* radio IDs of repeaters
  Hosts, Ports,      \* where datagrams come from
  None,
  AllowedHost,       \* allowed_peer_ip, or None
  ExpectedId,        \* ipsc_peer_id, or None: any
  KeepaliveWatchdog  \* keepalive_watchdog, in ticks

Addr == [host : Hosts, port : Ports]

ASSUME MasterAssumption ==
  /\ None \notin [id : Ids, addr : Addr]
  /\ KeepaliveWatchdog \in Nat \ {0}

VARIABLES
  peer,      \* the registered repeater [id, addr] (_peer_id, _peer_ip, _peer_port), or None
  ka_age,    \* ticks since _last_ka
  callback,  \* the translator's callback made by the last step
  sent       \* the datagrams it sent: [op, to]

vars == <<peer, ka_age, callback, sent>>

registered == peer # None

MasterOps == {"MASTER_REG_REPLY", "PEER_LIST_REPLY", "MASTER_ALIVE_REPLY",
              "DE_REG_REPLY", "GROUP_VOICE"}

\* Every variable holds a value of its kind; the clock runs while a repeater is
\* registered.
TypeOK ==
  /\ peer \in [id : Ids, addr : Addr] \cup {None}
  /\ ka_age \in 0..KeepaliveWatchdog+1
  /\ callback \in {"none", "peer_registered", "peer_lost", "ipsc_voice_received"}
  /\ sent \subseteq [op : MasterOps, to : Addr]
  /\ registered \/ ka_age = 0

Init ==
  /\ peer = None
  /\ ka_age = 0
  /\ callback = "none"
  /\ sent = {}

-----------------------------------------------------------------------------
Send(ops, a) == sent' = [op : ops, to : {a}]

Admits(id, a) ==
  /\ AllowedHost \in {None, a.host}
  /\ ExpectedId \in {None, id}
  /\ registered => peer.addr.host = a.host

AnnouncesAgain(id, a) ==   \* mutant: every registration is announced
  /\ Admits(id, a)
  /\ peer' = [id |-> id, addr |-> a]
  /\ ka_age' = 0
  /\ Send({"MASTER_REG_REPLY", "PEER_LIST_REPLY"}, a)
  /\ callback' = "peer_registered"

\* A repeater that registers again, after a restart perhaps with another port or
\* ID, is not announced to the translator a second time.
_on_reg_req(id, a) ==
  /\ Admits(id, a)
  /\ peer' = [id |-> id, addr |-> a]
  /\ ka_age' = 0
  /\ Send({"MASTER_REG_REPLY", "PEER_LIST_REPLY"}, a)
  /\ callback' = IF registered THEN "none" ELSE "peer_registered"

\* The ID alone says whose keepalive it is; the answer goes where it came from
\* and the stored address stays.
IsPeer(id) == registered /\ peer.id = id

_on_alive_req(id, a) ==
  /\ IsPeer(id)
  /\ ka_age' = 0
  /\ Send({"MASTER_ALIVE_REPLY"}, a)
  /\ callback' = "none"
  /\ UNCHANGED peer

_on_peer_list_req(id, a) ==
  /\ IsPeer(id)
  /\ Send({"PEER_LIST_REPLY"}, a)
  /\ callback' = "none"
  /\ UNCHANGED <<peer, ka_age>>

ClearKeepsClock ==   \* mutant: the last keepalive stays
  /\ peer' = None
  /\ callback' = "peer_lost"
  /\ UNCHANGED ka_age

_clear_peer ==
  /\ peer' = None
  /\ ka_age' = 0
  /\ callback' = "peer_lost"

_on_de_reg_req(id, a) ==
  /\ IsPeer(id)
  /\ Send({"DE_REG_REPLY"}, a)
  /\ _clear_peer

\* Voice counts as a keepalive, if it comes from the stored address.
_on_group_voice(a) ==
  /\ registered
  /\ a = peer.addr
  /\ ka_age' = 0
  /\ callback' = "ipsc_voice_received"
  /\ sent' = {}
  /\ UNCHANGED peer

\* The translator sends a packet.
send_to_peer ==
  /\ registered
  /\ Send({"GROUP_VOICE"}, peer.addr)
  /\ callback' = "none"
  /\ UNCHANGED <<peer, ka_age>>

WatchdogOff == FALSE /\ UNCHANGED vars   \* mutant: no watchdog

\* A turn of _watchdog_loop that finds the keepalives overdue, by any fraction of
\* a tick.
Watchdog ==
  /\ registered
  /\ ka_age >= KeepaliveWatchdog
  /\ _clear_peer
  /\ sent' = {}

Tick ==
  /\ ka_age' = IF registered /\ ka_age <= KeepaliveWatchdog THEN ka_age + 1 ELSE ka_age
  /\ callback' = "none"
  /\ sent' = {}
  /\ UNCHANGED peer

-----------------------------------------------------------------------------
Next ==
  \/ \E id \in Ids, a \in Addr :
       \/ _on_reg_req(id, a)
       \/ _on_alive_req(id, a)
       \/ _on_peer_list_req(id, a)
       \/ _on_de_reg_req(id, a)
  \/ \E a \in Addr : _on_group_voice(a)
  \/ send_to_peer
  \/ Watchdog
  \/ Tick

Spec == Init /\ [][Next]_vars

\* The endpoint keeps its promise to the translator, however registrations are
\* repeated, lost, refused and given up (peer_registered and peer_lost calls).
Link == INSTANCE IpscLink WITH up <- registered
LinkIsKept == Link!Spec
=============================================================================
