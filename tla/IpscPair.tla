------------------------------ MODULE IpscPair ------------------------------
(***************************************************************************)
(* The two IPSC endpoints together: one ipsc2hbp in PEER mode registers    *)
(* with another in MASTER mode, over a network and through a NAT.  A fresh *)
(* datagram is delivered within a tick; a fault may lose it, repeat it or  *)
(* delay it for any time.  Either process may stop or crash and start      *)
(* again, the peer then perhaps at another port.  Faults come to an end.   *)
(***************************************************************************)
EXTENDS IpscMaster

CONSTANTS
  MasterId,     \* the master's own radio ID
  MasterAt,     \* its address
  RepeaterId,   \* the peer's radio ID
  RepeaterHost, \* and its host
  AliveInterval, MaxMissed, MaxLag,
  MaxFaults     \* bound: how many faults there are

ASSUME PairAssumption ==
  /\ RepeaterId \in Ids
  /\ RepeaterHost \in Hosts
  /\ MasterAt \in Addr

VARIABLES
  master_up,    \* the MASTER process runs
  port,         \* the peer's port, as the master sees it
  displaced,    \* the NAT moved the port, or the master took a registration
                \* that was sent from an earlier one
  to_master,    \* datagrams [op, at, late] on their way to the master
  to_peer,      \* and to the peer
  spoke,        \* there was voice in this tick
  faults,
  \* the peer's, see IpscPeer
  running, p_registered, reg_reported, peer_list_seen, master_id, master_port,
  rx_age, outstanding, peers, maint, p_callback, p_sent

P == INSTANCE IpscPeer WITH
       Ids <- {MasterId}, Endpoints <- {[id |-> MasterId, addr |-> MasterAt]},
       Masters <- {[id |-> MasterId, addr |-> MasterAt]},
       Lists <- {[id \in {} |-> MasterAt]},
       MasterHost <- MasterAt.host, MasterPort <- MasterAt.port, MasterId <- 0,
       AllowUnknown <- TRUE, Prune <- TRUE,
       registered <- p_registered, callback <- p_callback, sent <- p_sent

registrationVars == <<p_registered, reg_reported, peer_list_seen, master_id, master_port,
                      rx_age, outstanding, peers>>
peerVars == <<running, registrationVars, maint, p_callback, p_sent>>
netVars  == <<to_master, to_peer>>
pairVars == <<vars, peerVars, master_up, port, displaced, netVars, spoke, faults>>

At == [host |-> RepeaterHost, port |-> port]

PairInit ==
  /\ Init
  /\ P!Init
  /\ master_up = TRUE
  /\ port = MasterAt.port   \* as good as any
  /\ displaced = FALSE
  /\ to_master = {}
  /\ to_peer = {}
  /\ spoke = FALSE
  /\ faults = 0

-----------------------------------------------------------------------------
Fresh(ds) == {[op |-> d.op, at |-> d.to, late |-> FALSE] : d \in ds}

\* The master, or the peer, makes a step; got is the datagram it takes, if any, from
\* the network, and what it sends is put there.
MasterSteps(got) ==
  /\ master_up
  /\ to_master' = to_master \ got
  /\ to_peer' = to_peer \cup Fresh(sent')
  /\ P!Quiet
  /\ UNCHANGED <<running, registrationVars, maint, master_up, port, faults>>

PeerSteps(got) ==
  /\ to_peer' = to_peer \ got
  /\ to_master' = to_master \cup
       {[op |-> d.op, at |-> At, late |-> FALSE] : d \in {e \in p_sent' : e.to = MasterAt}}
  /\ callback' = "none"
  /\ sent' = {}
  /\ UNCHANGED <<peer, ka_age, master_up, port, displaced>>

MasterTakes(d) ==
  \/ d.op = "MASTER_REG_REQ" /\ _on_reg_req(RepeaterId, d.at)
  \/ d.op = "MASTER_ALIVE_REQ" /\ _on_alive_req(RepeaterId, d.at)
  \/ d.op = "PEER_LIST_REQ" /\ _on_peer_list_req(RepeaterId, d.at)
  \/ d.op = "DE_REG_REQ" /\ _on_de_reg_req(RepeaterId, d.at)
  \/ d.op = "GROUP_VOICE" /\ _on_group_voice(d.at)

\* What no handler takes is dropped.
Dropped(d) ==
  /\ CASE d.op = "MASTER_REG_REQ" -> ~Admits(RepeaterId, d.at)
       [] d.op = "GROUP_VOICE" -> ~(registered /\ d.at = peer.addr)
       [] OTHER -> ~IsPeer(RepeaterId)
  /\ callback' = "none"
  /\ sent' = {}
  /\ UNCHANGED <<peer, ka_age>>

MasterReceives ==
  /\ \E d \in to_master :
       /\ MasterTakes(d) \/ Dropped(d)
       /\ MasterSteps({d})
       /\ displaced' = (displaced \/ (d.op = "MASTER_REG_REQ" /\ d.at # At))
  /\ UNCHANGED spoke

PeerTakes(d) ==
  \/ d.op = "MASTER_REG_REPLY" /\ P!_on_master_reg_reply(MasterId, MasterAt)
  \/ d.op = "MASTER_ALIVE_REPLY" /\ P!_on_master_alive_reply(MasterId, MasterAt)
  \/ /\ d.op = "PEER_LIST_REPLY"
     /\ P!_on_peer_list_reply(MasterId, MasterAt, [id \in {} |-> MasterAt])
  \/ d.op = "GROUP_VOICE" /\ P!MasterVoice(MasterId, MasterAt)
  \/ d.op = "DE_REG_REPLY" /\ P!MasterDeregisters(MasterId, MasterAt)
  \/ /\ d.op \in {"GROUP_VOICE", "DE_REG_REPLY"}
     /\ ~p_registered
     /\ P!MasterHeard(MasterId, MasterAt)

PeerReceives ==
  /\ \E d \in to_peer : d.at = At /\ PeerTakes(d) /\ PeerSteps({d})
  /\ UNCHANGED <<spoke, faults>>

\* What arrives where nobody listens.
Vanish ==
  /\ \/ \E d \in to_peer : /\ d.at # At \/ running # "running"
                           /\ to_peer' = to_peer \ {d}
                           /\ UNCHANGED to_master
     \/ \E d \in to_master : /\ ~master_up
                             /\ to_master' = to_master \ {d}
                             /\ UNCHANGED to_peer
  /\ UNCHANGED <<vars, peerVars, master_up, port, displaced, spoke, faults>>

-----------------------------------------------------------------------------
Speaks == ~spoke /\ spoke' = TRUE
MasterVoice == Speaks /\ send_to_peer /\ MasterSteps({}) /\ UNCHANGED displaced
PeerVoice   == Speaks /\ P!send_to_peer /\ PeerSteps({}) /\ UNCHANGED faults

MasterWatchdog == Watchdog /\ MasterSteps({}) /\ UNCHANGED <<displaced, spoke>>
PeerStarts     == P!connection_made /\ PeerSteps({}) /\ UNCHANGED <<spoke, faults>>
PeerMaintains  == P!Maintenance /\ PeerSteps({}) /\ UNCHANGED <<spoke, faults>>
PeerWatchdog   == P!Watchdog /\ PeerSteps({}) /\ UNCHANGED <<spoke, faults>>

\* Time passes for both, once the fresh datagrams are delivered.
Passes ==
  /\ \A d \in to_master \cup to_peer : d.late
  /\ spoke' = FALSE
  /\ \/ master_up /\ Tick
     \/ ~master_up /\ UNCHANGED vars
  /\ \/ P!Tick
     \/ running = "stopped" /\ UNCHANGED peerVars
  /\ UNCHANGED <<master_up, port, displaced, netVars, faults>>

-----------------------------------------------------------------------------
(***************************************************************************)
(* The faults.                                                             *)
(***************************************************************************)
Fault == faults < MaxFaults /\ faults' = faults + 1
KeepProcesses == UNCHANGED <<vars, peerVars, master_up, spoke>>

Lose ==
  /\ Fault
  /\ \/ \E d \in to_master : to_master' = to_master \ {d} /\ UNCHANGED to_peer
     \/ \E d \in to_peer : to_peer' = to_peer \ {d} /\ UNCHANGED to_master
  /\ KeepProcesses
  /\ UNCHANGED <<port, displaced>>

\* A datagram, or a second copy of it, comes at any time later.
Straggle(net, d) ==
  LET straggler == [d EXCEPT !.late = TRUE]
  IN  {net \cup {straggler}, (net \ {d}) \cup {straggler}}

Delay ==
  /\ Fault
  /\ \/ \E d \in to_master : to_master' \in Straggle(to_master, d) /\ UNCHANGED to_peer
     \/ \E d \in to_peer : to_peer' \in Straggle(to_peer, d) /\ UNCHANGED to_master
  /\ KeepProcesses
  /\ UNCHANGED <<port, displaced>>

\* The NAT gives the peer another port.
Rebind ==
  /\ Fault
  /\ displaced' = TRUE
  /\ port' \in Ports \ {port}
  /\ KeepProcesses
  /\ UNCHANGED netVars

MasterCrash ==
  /\ Fault
  /\ master_up
  /\ master_up' = FALSE
  /\ peer' = None
  /\ ka_age' = 0
  /\ callback' = "none"
  /\ sent' = {}
  /\ P!Quiet
  /\ UNCHANGED <<running, registrationVars, maint, port, displaced, netVars, spoke>>

MasterStarts ==
  /\ ~master_up
  /\ master_up' = TRUE
  /\ UNCHANGED <<vars, peerVars, port, displaced, netVars, spoke, faults>>

PeerStops ==
  /\ Fault
  /\ P!stop
  /\ PeerSteps({})
  /\ UNCHANGED spoke

PeerCrash ==
  /\ Fault
  /\ running = "running"
  /\ running' = "stopped"
  /\ UNCHANGED <<vars, registrationVars, maint, p_callback, p_sent, master_up, port,
                 displaced, netVars, spoke>>

PeerRestarts ==
  /\ running = "stopped"
  /\ running' = "new"
  /\ p_registered' = FALSE
  /\ reg_reported' = FALSE
  /\ peer_list_seen' = FALSE
  /\ master_id' = 0
  /\ master_port' = MasterAt.port
  /\ rx_age' = 0
  /\ outstanding' = 0
  /\ peers' = [id \in {MasterId} |-> None]
  /\ maint' = AliveInterval
  /\ p_callback' = "none"
  /\ p_sent' = {}
  /\ port' \in Ports
  /\ UNCHANGED <<vars, master_up, displaced, netVars, spoke, faults>>

-----------------------------------------------------------------------------
PairNext ==
  \/ MasterReceives
  \/ PeerReceives
  \/ Vanish
  \/ MasterVoice
  \/ PeerVoice
  \/ MasterWatchdog
  \/ PeerStarts
  \/ PeerMaintains
  \/ PeerWatchdog
  \/ Passes
  \/ Lose
  \/ Delay
  \/ Rebind
  \/ MasterCrash
  \/ MasterStarts
  \/ PeerStops
  \/ PeerCrash
  \/ PeerRestarts

\* The network delivers, the loops turn and time passes.  Nothing obliges a process
\* that ended to start again.
PairSpec ==
  /\ PairInit
  /\ [][PairNext]_pairVars
  /\ WF_pairVars(MasterReceives) /\ WF_pairVars(PeerReceives) /\ WF_pairVars(Vanish)
  /\ WF_pairVars(MasterWatchdog) /\ WF_pairVars(PeerWatchdog)
  /\ WF_pairVars(PeerStarts) /\ WF_pairVars(PeerMaintains) /\ WF_pairVars(Passes)

BothUp == master_up /\ running = "running"

\* As long as its process runs, the master keeps its promise to its translator.
MasterKeepsLink == [][master_up /\ master_up' => Link!Next]_<<registered, callback>>

\* When the faults are over and both processes run, each comes to know the other for
\* good and the peer has its list, whatever was lost, repeated or forgotten.  Voice of
\* the peer is then taken from its port, unless a straggling registration or the
\* NAT displaced it: no keepalive ever corrects that.
Settles ==
  <>[](BothUp => /\ registered /\ p_registered /\ peer_list_seen
                 /\ displaced \/ peer.addr = At)

\* Who is gone is found out, if only by silence, whether or not it said so.
DeathIsNoticed ==
  /\ <>[](running = "stopped" => ~registered)
  /\ <>[](~master_up /\ running = "running" => ~p_registered)
=============================================================================
