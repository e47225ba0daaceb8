------------------------------ MODULE IpscPeer ------------------------------
(***************************************************************************)
(* The IPSC endpoint in PEER mode (class IPSCPeerProtocol of               *)
(* src/ipsc/protocol.py): it registers with an upstream master, fetches    *)
(* its list of peers, exchanges keepalives with them and with the master,  *)
(* and sends voice to all of them.  A handler takes the radio ID src of a  *)
(* datagram, 0 when it is too short to carry one, and the address it came  *)
(* from; datagrams with the endpoint's own ID, and those no action takes,  *)
(* are dropped.  Next lets any datagram arrive from any of the Endpoints   *)
(* at any time.                                                            *)
(***************************************************************************)
EXTENDS Integers

CONSTANTS
  Ids,                     \* radio IDs of the others, not 0
  Hosts, Ports, None,
  Endpoints,               \* [id, addr]: who sends from where
  Masters,                 \* those of them that answer as a master does
  Lists,                   \* the lists a master may send: some of Ids -> Addr
  MasterHost, MasterPort,  \* ipsc_upstream_master_ip, ..._port
  MasterId,                \* ipsc_upstream_master_id, 0: learn it
  AllowUnknown,            \* ipsc_peer_list_allow_unknown
  Prune,                   \* ipsc_peer_list_prune
  AliveInterval,           \* ipsc_peer_alive_interval, in ticks
  MaxMissed,               \* ipsc_max_missed
  MaxLag                   \* bound: ticks a turn of the maintenance loop may be late

Addr == [host : Hosts, port : Ports]
Src  == Ids \cup {0}

ASSUME PeerAssumption ==
  /\ Ids \subseteq Nat \ {0}
  /\ Masters \subseteq Endpoints
  /\ Endpoints \subseteq [id : Src, addr : Addr]
  /\ \A l \in Lists : \E D \in SUBSET Ids : l \in [D -> Addr]
  /\ MasterHost \in Hosts
  /\ MasterPort \in Ports
  /\ MasterId \in Src
  /\ {AllowUnknown, Prune} \subseteq BOOLEAN
  /\ {AliveInterval, MaxMissed} \subseteq Nat \ {0}
  /\ MaxLag \in Nat

VARIABLES
  running,         \* before connection_made, after it, or stopped
  registered,      \* _registered
  reg_reported,    \* _master_reg_reported
  peer_list_seen,  \* _peer_list_seen
  master_id,       \* _master_id_i
  master_port,     \* _master_port; _master_ip is always MasterHost
  rx_age,          \* ticks since _last_master_rx
  outstanding,     \* _master_outstanding, counted up to MaxMissed + 1
  peers,           \* _peers: an entry or None for each radio ID
  maint,           \* ticks to the next turn of _maintenance_loop, below 0 when late
  callback,        \* the translator's callback made by the last step
  sent             \* the datagrams it sent: [op, to]

masterVars == <<registered, reg_reported, peer_list_seen, master_id, master_port,
                rx_age, outstanding>>
vars == <<running, masterVars, peers, maint, callback, sent>>

Timeout == AliveInterval * MaxMissed

PeerReplies  == {"PEER_REG_REPLY", "PEER_ALIVE_REPLY"}
PeerRequests == {"PEER_REG_REQ", "PEER_ALIVE_REQ"}
SentOps == {"MASTER_REG_REQ", "MASTER_ALIVE_REQ", "PEER_LIST_REQ", "DE_REG_REQ",
            "DE_REG_REPLY", "GROUP_VOICE"} \cup PeerRequests \cup PeerReplies

Entry == [addr : Addr, connected : BOOLEAN, listed : BOOLEAN, outstanding : 0..MaxMissed+1]

\* Every variable holds a value of its kind; a registration is reported exactly while
\* it lasts.
TypeOK ==
  /\ running \in {"new", "running", "stopped"}
  /\ {registered, reg_reported, peer_list_seen} \subseteq BOOLEAN
  /\ master_id \in Src
  /\ master_port \in Ports
  /\ rx_age \in 0..Timeout+1
  /\ outstanding \in 0..MaxMissed+1
  /\ peers \in [Ids -> Entry \cup {None}]
  /\ maint \in -MaxLag..AliveInterval
  /\ callback \in {"none", "peer_registered", "peer_lost", "ipsc_voice_received"}
  /\ sent \subseteq [op : SentOps, to : Addr]
  /\ reg_reported = registered

Init ==
  /\ running = "new"
  /\ registered = FALSE
  /\ reg_reported = FALSE
  /\ peer_list_seen = FALSE
  /\ master_id = MasterId
  /\ master_port = MasterPort
  /\ rx_age = 0
  /\ outstanding = 0
  /\ peers = [id \in Ids |-> None]
  /\ maint = AliveInterval
  /\ callback = "none"
  /\ sent = {}

-----------------------------------------------------------------------------
Datagram(op, a) == [op |-> op, to |-> a]
MasterAddr(port) == [host |-> MasterHost, port |-> port]
Known == {id \in Ids : peers[id] # None}
Connected == {id \in Known : peers[id].connected}
Cap(n) == IF n > MaxMissed THEN MaxMissed + 1 ELSE n

Quiet == callback' = "none" /\ sent' = {}

connection_made ==
  /\ running = "new"
  /\ running' = "running"
  /\ sent' = {Datagram("MASTER_REG_REQ", MasterAddr(MasterPort))}
  /\ callback' = "none"
  /\ UNCHANGED <<masterVars, peers, maint>>

stop ==
  /\ running = "running"
  /\ running' = "stopped"
  /\ sent' = IF ~registered THEN {}
             ELSE {Datagram("DE_REG_REQ", a) :
                     a \in {MasterAddr(master_port)} \cup {peers[id].addr : id \in Connected}}
  /\ callback' = "none"
  /\ UNCHANGED <<masterVars, peers, maint>>

\* send_to_peer: a packet of the translator for the master and the connected peers.
send_to_peer ==
  /\ running = "running"
  /\ registered
  /\ sent' = {Datagram("GROUP_VOICE", a) :
                a \in {MasterAddr(master_port)} \cup {peers[id].addr : id \in Connected}}
  /\ callback' = "none"
  /\ UNCHANGED <<running, masterVars, peers, maint>>

-----------------------------------------------------------------------------
(***************************************************************************)
(* What arrives from the upstream master.  Of voice and DE_REG datagrams   *)
(* the ID tells whether it is the master who speaks, once it is known.     *)
(***************************************************************************)
_is_master_source(src, a) ==
  /\ a.host = MasterHost
  /\ master_id # 0 => src \in {0, master_id}

MasterSpeaks(src, a) ==
  /\ running = "running"
  /\ _is_master_source(src, a)
  /\ UNCHANGED <<running, maint>>

_touch_master(src, a) ==
  /\ master_id' = IF master_id = 0 THEN src ELSE master_id
  /\ master_port' = a.port
  /\ rx_age' = 0
  /\ outstanding' = 0

_on_master_reg_reply(src, a) ==
  /\ MasterSpeaks(src, a)
  /\ _touch_master(src, a)
  /\ registered' = TRUE
  /\ reg_reported' = (reg_reported \/ ~registered)
  /\ callback' = IF registered \/ reg_reported THEN "none" ELSE "peer_registered"
  /\ sent' = {Datagram("PEER_LIST_REQ", a)}
  /\ UNCHANGED <<peer_list_seen, peers>>

_on_master_alive_reply(src, a) ==
  /\ MasterSpeaks(src, a)
  /\ _touch_master(src, a)
  /\ sent' = IF registered THEN {} ELSE {Datagram("MASTER_REG_REQ", a)}
  /\ callback' = "none"
  /\ UNCHANGED <<registered, reg_reported, peer_list_seen, peers>>

NewEntry(a, listed) ==
  [addr |-> a, connected |-> FALSE, listed |-> listed, outstanding |-> 0]

ListsMaster(src, a, list) ==   \* mutant: the master is taken for a peer
  /\ MasterSpeaks(src, a)
  /\ _touch_master(src, a)
  /\ peers' = [id \in Ids |->
       IF id \in DOMAIN list
       THEN IF peers[id] = None THEN NewEntry(list[id], TRUE)
            ELSE [peers[id] EXCEPT !.addr = list[id], !.listed = TRUE]
       ELSE IF Prune /\ peers[id] # None /\ peers[id].listed THEN None ELSE peers[id]]
  /\ peer_list_seen' = TRUE
  /\ Quiet
  /\ UNCHANGED <<registered, reg_reported>>

\* The list adds peers, moves those it knows and, with Prune, drops the listed
\* ones it no longer names.
_on_peer_list_reply(src, a, list) ==
  /\ MasterSpeaks(src, a)
  /\ _touch_master(src, a)
  /\ LET seen == DOMAIN list \ {master_id'}
     IN  peers' = [id \in Ids |->
           IF id \in seen
           THEN IF peers[id] = None THEN NewEntry(list[id], TRUE)
                ELSE [peers[id] EXCEPT !.addr = list[id], !.listed = TRUE]
           ELSE IF Prune /\ peers[id] # None /\ peers[id].listed THEN None ELSE peers[id]]
  /\ peer_list_seen' = TRUE
  /\ Quiet
  /\ UNCHANGED <<registered, reg_reported>>

MasterVoice(src, a) ==
  /\ MasterSpeaks(src, a)
  /\ registered
  /\ _touch_master(src, a)
  /\ callback' = "ipsc_voice_received"
  /\ sent' = {}
  /\ UNCHANGED <<registered, reg_reported, peer_list_seen, peers>>

\* What is too short or, before the registration, of no use.
MasterHeard(src, a) ==
  /\ MasterSpeaks(src, a)
  /\ _touch_master(src, a)
  /\ Quiet
  /\ UNCHANGED <<registered, reg_reported, peer_list_seen, peers>>

ClearQuietly ==   \* mutant: what was reported is not forgotten
  /\ registered' = FALSE
  /\ outstanding' = 0
  /\ peer_list_seen' = FALSE
  /\ peers' = [id \in Ids |-> IF peers[id] = None THEN None
                 ELSE [peers[id] EXCEPT !.connected = FALSE, !.outstanding = 0]]
  /\ callback' = "peer_lost"
  /\ UNCHANGED reg_reported

_clear_master_registration ==
  /\ registered' = FALSE
  /\ outstanding' = 0
  /\ peer_list_seen' = FALSE
  /\ reg_reported' = FALSE
  /\ peers' = [id \in Ids |-> IF peers[id] = None THEN None
                 ELSE [peers[id] EXCEPT !.connected = FALSE, !.outstanding = 0]]
  /\ callback' = "peer_lost"

\* DE_REG_REQ, and DE_REG_REPLY too.
MasterDeregisters(src, a) ==
  /\ MasterSpeaks(src, a)
  /\ registered
  /\ _touch_master(src, a)
  /\ _clear_master_registration
  /\ sent' = {}

-----------------------------------------------------------------------------
(***************************************************************************)
(* What arrives from the other peers: those of the list and, with          *)
(* AllowUnknown, anyone who behaves like one.                              *)
(***************************************************************************)
_accept_or_get_peer(src) == src \in IF AllowUnknown THEN Ids ELSE Known

_touch_peer(src, a) ==
  IF peers[src] = None THEN NewEntry(a, FALSE) ELSE [peers[src] EXCEPT !.addr = a]

PeerSpeaks(src) ==
  /\ running = "running"
  /\ _accept_or_get_peer(src)
  /\ UNCHANGED <<running, maint, masterVars>>

Serve(src, a, connected) ==
  peers' = [peers EXCEPT ![src] =
              [_touch_peer(src, a) EXCEPT !.connected = connected, !.outstanding = 0]]

PeerAsks(src, a) ==
  /\ PeerSpeaks(src)
  /\ Serve(src, a, TRUE)
  /\ \E op \in PeerReplies : sent' = {Datagram(op, a)}
  /\ callback' = "none"

PeerAnswers(src, a) ==
  /\ PeerSpeaks(src)
  /\ Serve(src, a, TRUE)
  /\ Quiet

PeerDeregisters(src, a) ==
  /\ PeerSpeaks(src)
  /\ ~_is_master_source(src, a)
  /\ Serve(src, a, FALSE)
  /\ sent' \in {{}, {Datagram("DE_REG_REPLY", a)}}
  /\ callback' = "none"

PeerVoice(src, a) ==
  /\ PeerSpeaks(src)
  /\ ~_is_master_source(src, a)
  /\ registered
  /\ peers' = [peers EXCEPT ![src] = _touch_peer(src, a)]
  /\ callback' = "ipsc_voice_received"
  /\ sent' = {}

\* Any other datagram of a peer moves its address.  An unknown peer is entered by
\* its voice only, even when that is too early or too short.
PeerHeard(src, a) ==
  /\ PeerSpeaks(src)
  /\ peers[src] = None => ~_is_master_source(src, a)
  /\ peers' = [peers EXCEPT ![src] = _touch_peer(src, a)]
  /\ Quiet

-----------------------------------------------------------------------------
\* A peer of the list is asked to register or to answer; one that has not answered
\* MaxMissed times in a row is given up.
MissedStays(p) == [p EXCEPT !.outstanding = Cap(@ + 1)]   \* mutant: never given up

Missed(p) == [p EXCEPT !.outstanding = Cap(@ + 1),
                       !.connected = @ /\ p.outstanding < MaxMissed]

AskOf(id) == Datagram(IF peers[id].connected THEN "PEER_ALIVE_REQ" ELSE "PEER_REG_REQ",
                      peers[id].addr)

MaintenanceAsksOnce ==   \* mutant: a lost peer list is not asked for again
  /\ running = "running"
  /\ maint <= 0
  /\ maint' = AliveInterval
  /\ outstanding' = Cap(outstanding + 1)
  /\ IF registered
     THEN /\ sent' = {Datagram("MASTER_ALIVE_REQ", MasterAddr(master_port))}
                     \cup {AskOf(id) : id \in Known}
          /\ peers' = [id \in Ids |-> IF id \in Known THEN Missed(peers[id]) ELSE None]
     ELSE /\ sent' = {Datagram("MASTER_REG_REQ", MasterAddr(MasterPort))}
          /\ UNCHANGED peers
  /\ callback' = "none"
  /\ UNCHANGED <<running, registered, reg_reported, peer_list_seen, master_id,
                 master_port, rx_age>>

\* A turn of _maintenance_loop.  It sleeps for the interval after each turn, so that
\* the lags add up.
Maintenance ==
  /\ running = "running"
  /\ maint <= 0
  /\ maint' = AliveInterval
  /\ outstanding' = Cap(outstanding + 1)
  /\ IF registered
     THEN /\ sent' = {Datagram(op, MasterAddr(master_port)) : op \in
                        {"MASTER_ALIVE_REQ"}
                        \cup (IF peer_list_seen THEN {} ELSE {"PEER_LIST_REQ"})}
                     \cup {AskOf(id) : id \in Known}
          /\ peers' = [id \in Ids |-> IF id \in Known THEN Missed(peers[id]) ELSE None]
     ELSE /\ sent' = {Datagram("MASTER_REG_REQ", MasterAddr(MasterPort))}
          /\ UNCHANGED peers
  /\ callback' = "none"
  /\ UNCHANGED <<running, registered, reg_reported, peer_list_seen, master_id,
                 master_port, rx_age>>

WatchdogEarly ==   \* mutant: an interval too early
  /\ running = "running"
  /\ registered
  /\ rx_age >= Timeout - AliveInterval
  /\ _clear_master_registration
  /\ sent' = {}
  /\ UNCHANGED <<running, master_id, master_port, rx_age, maint>>

\* A turn of _watchdog_loop that finds the master silent for too long.  The code
\* compares fractions of a second, so any moment after Timeout will do.
Watchdog ==
  /\ running = "running"
  /\ registered
  /\ rx_age >= Timeout
  /\ _clear_master_registration
  /\ sent' = {}
  /\ UNCHANGED <<running, master_id, master_port, rx_age, maint>>

\* The maintenance loop is MaxLag ticks late at most, the watchdog any number.
Tick ==
  /\ running = "running"
  /\ maint > -MaxLag
  /\ maint' = maint - 1
  /\ rx_age' = IF rx_age > Timeout THEN rx_age ELSE rx_age + 1
  /\ Quiet
  /\ UNCHANGED <<running, registered, reg_reported, peer_list_seen, master_id,
                 master_port, outstanding, peers>>

-----------------------------------------------------------------------------
Answer(src, a) ==
  \/ _on_master_reg_reply(src, a)
  \/ _on_master_alive_reply(src, a)
  \/ \E list \in Lists : _on_peer_list_reply(src, a, list)

FromMaster(src, a) ==
  \/ MasterVoice(src, a)
  \/ MasterHeard(src, a)
  \/ MasterDeregisters(src, a)

FromPeer(src, a) ==
  \/ PeerAsks(src, a)
  \/ PeerAnswers(src, a)
  \/ PeerDeregisters(src, a)
  \/ PeerVoice(src, a)
  \/ PeerHeard(src, a)

Next ==
  \/ \E e \in Masters : Answer(e.id, e.addr)
  \/ \E e \in Endpoints : FromMaster(e.id, e.addr) \/ FromPeer(e.id, e.addr)
  \/ connection_made
  \/ stop
  \/ send_to_peer
  \/ Maintenance
  \/ Watchdog
  \/ Tick

Spec == Init /\ [][Next]_vars

\* Time passes and the two loops keep turning.
FairSpec == /\ Spec
            /\ WF_vars(Tick) /\ WF_vars(Maintenance) /\ WF_vars(Watchdog)

-----------------------------------------------------------------------------
\* The endpoint keeps its promise to the translator, whatever the master and the
\* peers send (peer_registered and peer_lost calls).
Link == INSTANCE IpscLink WITH up <- registered
LinkIsKept == Link!Spec

\* The registration is given up because of silence only when at least max_missed - 1
\* keepalives in a row went unanswered: the watchdog, which measures time, gets ahead
\* of the maintenance loop, which asks, by one turn at most, unless that loop lags so
\* much that its delays add up to a whole interval (_watchdog_loop, _maintenance_loop;
\* the sample configuration says max_missed, ipsc2hbp.peer.toml.sample:44-45).
KeptWhileAsked ==
  [][registered /\ ~registered' /\ rx_age' # 0 /\ (MaxMissed - 1) * MaxLag < AliveInterval
       => outstanding >= MaxMissed - 1]_vars

\* A master or a peer that falls silent is not taken for present for ever: again
\* and again it has either just answered or is given up.  Peers are asked only while
\* the endpoint is registered; in between their count stands at 0, and one that keyed
\* in stays connected, which matters to nobody until the next registration.
SilenceIsNoticed ==
  /\ []<>(running # "running" \/ ~registered \/ rx_age = 0)
  /\ \A id \in Ids : []<>(running # "running" \/ id \notin Connected
                          \/ peers[id].outstanding = 0)

\* The master's ID is configured or learnt from someone who answers as a master
\* (PEER_MODE.md:66).  The first packet from the master's host will do.
LearntFromAReply == master_id \in {0, MasterId} \cup {e.id : e \in Masters}

\* The master is not among the peers, where it would be sent each voice packet twice
\* (send_to_peer), as long as only listed peers are accepted and IDs are not 0.
MasterIsNoPeer == ~AllowUnknown => master_id \notin Known
=============================================================================
