----------------------------- MODULE HBPClient -----------------------------
(***************************************************************************)
(* The HBP side (src/hbp/protocol.py): HBPClient, whose connect loop opens *)
(* a UDP socket to the HBP master, waits until that session is over and    *)
(* tries again, and _HBPProtocol, the session: login handshake, keepalive, *)
(* disconnection.  The master and the network are the environment.         *)
(*                                                                         *)
(* A connect loop is an asyncio task; loop[t] is the await task t is at.   *)
(* A task has one session at a time, so t names its session as well.       *)
(* Every await is a place where other callbacks run, among them those of   *)
(* the IPSC side that activate and deactivate the client.                  *)
(***************************************************************************)
EXTENDS Integers, Sequences, FiniteSets

CONSTANTS
  Tasks,            \* the connect-loop tasks that may exist at once
  None,
  Tracking,         \* hbp_mode = TRACKING
  Options,          \* the configuration has an RPTO options string
  EarlyPeer,        \* IPSC datagrams may be handled before HBPClient.start
  Faults,           \* what may go wrong, see FaultKinds
  \* durations in ticks
  KaInterval, MaxKaAge, ReconnectDelay,
  MaxInFlight       \* bound: time passes, and a peer comes back, only while
                    \* fewer datagrams travel

FaultKinds == {"send error", "socket error", "endpoint error",
               "handshake loss", "keepalive loss", "MSTNAK", "MSTCL"}

ASSUME ClientAssumption ==
  /\ None \notin Tasks
  /\ {Tracking, Options, EarlyPeer} \subseteq BOOLEAN
  /\ Faults \subseteq FaultKinds
  /\ {KaInterval, MaxKaAge, ReconnectDelay, MaxInFlight} \subseteq Nat \ {0}

VARIABLES
  running,       \* before HBPClient.start, after it, or stopped by a signal
  peer,          \* an IPSC peer is registered
  \* HBPClient
  active,        \* _active
  connect_task,  \* _connect_task
  protocol,      \* _protocol: the session of a task, or None
  loop,          \* where each task is
  delay,         \* what is left of its reconnect delay
  \* _HBPProtocol, per task
  state,
  transport,     \* its socket: not made, open, closing, or lost (_done is set)
  ping,          \* ticks to the next keepalive of _ping_task, NoTimer if none
  pong_age,      \* ticks since _last_pong
  \* what the translator was last told: hbp_connected, or the end of it
  reported,
  \* the network and the master
  to_master,     \* datagrams [from, kind] on their way
  to_client,     \* kinds of the datagrams on their way to each session
  master, master_addr

clientVars  == <<active, connect_task, protocol, loop, delay>>
sessionVars == <<state, transport, ping, pong_age, reported>>
netVars     == <<to_master, to_client>>
masterVars  == <<master, master_addr>>
vars == <<running, peer, clientVars, sessionVars, netVars, masterVars>>

NoTimer == -1
SessionStates == {"LOGIN", "AUTH_SENT", "CONFIG_SENT", "OPTIONS_SENT",
                  "CONNECTED", "DISCONNECTED"}
MasterStates == {"IDLE", "WAIT_RPTK", "WAIT_RPTC", "WAIT_RPTO", "CONNECTED"}
Handshake == {"RPTL", "RPTK", "RPTC", "RPTO"}
Requests  == Handshake \cup {"RPTPING", "RPTCL"}
Replies   == {"RPTACK", "MSTNAK", "MSTPONG", "MSTCL"}
Datagram  == [from : Tasks \cup {None}, kind : Requests]

\* Every variable holds a value of its kind; closed sockets receive nothing and
\* only a connected session has a keepalive timer.
TypeOK ==
  /\ running \in {"starting", "running", "stopped"}
  /\ peer \in BOOLEAN
  /\ active \in BOOLEAN
  /\ {connect_task, protocol} \subseteq Tasks \cup {None}
  /\ loop \in [Tasks -> {"idle", "testing", "connecting", "waiting", "sleeping"}]
  /\ delay \in [Tasks -> 0..ReconnectDelay]
  /\ state \in [Tasks -> SessionStates]
  /\ transport \in [Tasks -> {"none", "open", "closing", "lost"}]
  /\ ping \in [Tasks -> NoTimer..KaInterval]
  /\ pong_age \in [Tasks -> 0..MaxKaAge+1]
  /\ reported \in BOOLEAN
  /\ to_master \in Seq(Datagram)
  /\ to_client \in [Tasks -> Seq(Replies)]
  /\ master \in MasterStates
  /\ master_addr \in Tasks \cup {None}
  /\ \A t \in Tasks : /\ transport[t] # "open" => to_client[t] = <<>>
                      /\ ping[t] # NoTimer => state[t] = "CONNECTED"

Init ==
  /\ running = "starting"
  /\ peer = FALSE
  /\ active = FALSE
  /\ connect_task = None
  /\ protocol = None
  /\ loop = [t \in Tasks |-> "idle"]
  /\ delay = [t \in Tasks |-> 0]
  /\ state = [t \in Tasks |-> "DISCONNECTED"]
  /\ transport = [t \in Tasks |-> "none"]
  /\ ping = [t \in Tasks |-> NoTimer]
  /\ pong_age = [t \in Tasks |-> 0]
  /\ reported = FALSE
  /\ to_master = <<>>
  /\ to_client = [t \in Tasks |-> <<>>]
  /\ master = "IDLE"
  /\ master_addr = None

is_connected == protocol # None /\ state[protocol] = "CONNECTED"

-----------------------------------------------------------------------------
(***************************************************************************)
(* The session.  sendto on a connected UDP socket may raise; asyncio then  *)
(* calls error_received before sendto returns.                             *)
(***************************************************************************)
Sent(t, kind) == to_master' = Append(to_master, [from |-> t, kind |-> kind])

DisconnectKeepsTimer(t) ==   \* mutant: the keepalive task is not cancelled
  /\ state' = [state EXCEPT ![t] = "DISCONNECTED"]
  /\ transport' = [transport EXCEPT ![t] = IF @ = "open" THEN "closing" ELSE @]
  /\ to_client' = [to_client EXCEPT ![t] = <<>>]
  /\ UNCHANGED <<ping, pong_age>>

DisconnectKeepsState(t) ==   \* mutant: only connection_lost ends the session
  /\ ping' = [ping EXCEPT ![t] = NoTimer]
  /\ transport' = [transport EXCEPT ![t] = IF @ = "open" THEN "closing" ELSE @]
  /\ to_client' = [to_client EXCEPT ![t] = <<>>]
  /\ UNCHANGED <<state, pong_age>>

\* _disconnect, without its RPTCL.
Disconnect(t) ==
  /\ state' = [state EXCEPT ![t] = "DISCONNECTED"]
  /\ ping' = [ping EXCEPT ![t] = NoTimer]
  /\ transport' = [transport EXCEPT ![t] = IF @ = "open" THEN "closing" ELSE @]
  /\ to_client' = [to_client EXCEPT ![t] = <<>>]
  /\ UNCHANGED pong_age

\* error_received and the keepalive watchdog tell the translator.
DisconnectAndReport(t) ==
  /\ Disconnect(t)
  /\ reported' = (reported /\ state[t] # "CONNECTED")

\* The session goes from one handshake state to the next with a request.  When
\* the request fails the handler still assigns the state, over DISCONNECTED.
Request(t, kind, next) ==
  /\ state' = [state EXCEPT ![t] = next]
  /\ UNCHANGED <<ping, pong_age, reported>>
  /\ \/ /\ Sent(t, kind)
        /\ to_client' = [to_client EXCEPT ![t] = Tail(@)]
        /\ UNCHANGED transport
     \/ /\ "send error" \in Faults
        /\ transport' = [transport EXCEPT ![t] = "closing"]
        /\ to_client' = [to_client EXCEPT ![t] = <<>>]
        /\ UNCHANGED to_master

BecomeConnected(t) ==
  /\ state' = [state EXCEPT ![t] = "CONNECTED"]
  /\ pong_age' = [pong_age EXCEPT ![t] = 0]
  /\ ping' = [ping EXCEPT ![t] = KaInterval]
  /\ reported' = TRUE
  /\ to_client' = [to_client EXCEPT ![t] = Tail(@)]
  /\ UNCHANGED <<to_master, transport>>

RptackSkipsOptions(t) ==   \* mutant: the options string is never sent
  \/ state[t] = "LOGIN" /\ Request(t, "RPTK", "AUTH_SENT")
  \/ state[t] = "AUTH_SENT" /\ Request(t, "RPTC", "CONFIG_SENT")
  \/ state[t] = "CONFIG_SENT" /\ BecomeConnected(t)

\* Whatever an RPTACK acknowledges, it moves the session on.
_on_rptack(t) ==
  \/ state[t] = "LOGIN" /\ Request(t, "RPTK", "AUTH_SENT")
  \/ state[t] = "AUTH_SENT" /\ Request(t, "RPTC", "CONFIG_SENT")
  \/ state[t] = "CONFIG_SENT" /\ Options /\ Request(t, "RPTO", "OPTIONS_SENT")
  \/ state[t] = "CONFIG_SENT" /\ ~Options /\ BecomeConnected(t)
  \/ state[t] = "OPTIONS_SENT" /\ BecomeConnected(t)

\* Voice (DMRD) goes to the translator when the session is connected and
\* changes nothing here.  The reader of the socket runs after the connect loop
\* has resumed.
Received(t, kind) ==
  /\ transport[t] = "open"
  /\ loop[t] = "waiting"
  /\ to_client[t] # <<>>
  /\ Head(to_client[t]) = kind
  /\ UNCHANGED <<running, peer, clientVars, masterVars>>

ReceiveRptack(t) == Received(t, "RPTACK") /\ _on_rptack(t)

\* MSTNAK and MSTCL: the translator is not told.
ReceiveEnd(t) ==
  /\ \E kind \in {"MSTNAK", "MSTCL"} : Received(t, kind)
  /\ Disconnect(t)
  /\ UNCHANGED <<reported, to_master>>

_on_mstpong(t) ==
  /\ Received(t, "MSTPONG")
  /\ pong_age' = [pong_age EXCEPT ![t] = 0]
  /\ to_client' = [to_client EXCEPT ![t] = Tail(@)]
  /\ UNCHANGED <<state, transport, ping, reported, to_master>>

error_received(t) ==
  /\ "socket error" \in Faults
  /\ transport[t] = "open"
  /\ loop[t] = "waiting"
  /\ DisconnectAndReport(t)
  /\ UNCHANGED <<running, peer, clientVars, masterVars, to_master>>

KeepaliveRefreshes(t) ==   \* mutant: the ping counts as an answer
  /\ ping[t] = 0
  /\ Sent(t, "RPTPING")
  /\ ping' = [ping EXCEPT ![t] = KaInterval]
  /\ pong_age' = [pong_age EXCEPT ![t] = 1]
  /\ UNCHANGED <<running, peer, clientVars, masterVars, state, transport, reported, to_client>>

KeepaliveUnreported(t) ==   \* mutant: the watchdog does not tell the translator
  /\ ping[t] = 0
  /\ \/ /\ pong_age[t] <= MaxKaAge
        /\ Sent(t, "RPTPING")
        /\ ping' = [ping EXCEPT ![t] = KaInterval]
        /\ UNCHANGED <<state, transport, pong_age, reported, to_client>>
     \/ /\ pong_age[t] > MaxKaAge
        /\ Sent(t, "RPTPING")
        /\ Disconnect(t)
        /\ UNCHANGED reported
  /\ UNCHANGED <<running, peer, clientVars, masterVars>>

\* A turn of _keepalive_loop: a ping, and the end of a session whose last pong
\* is too old.
Keepalive(t) ==
  /\ ping[t] = 0
  /\ \/ /\ pong_age[t] <= MaxKaAge
        /\ Sent(t, "RPTPING")
        /\ ping' = [ping EXCEPT ![t] = KaInterval]
        /\ UNCHANGED <<state, transport, pong_age, reported, to_client>>
     \/ /\ pong_age[t] > MaxKaAge
        /\ Sent(t, "RPTPING")
        /\ DisconnectAndReport(t)
     \/ /\ "send error" \in Faults
        /\ DisconnectAndReport(t)
        /\ UNCHANGED to_master
  /\ UNCHANGED <<running, peer, clientVars, masterVars>>

-----------------------------------------------------------------------------
(***************************************************************************)
(* The client and its connect loop.                                        *)
(***************************************************************************)
LoopLives == connect_task # None /\ loop[connect_task] # "idle"

NewTask ==
  \E t \in Tasks : /\ loop[t] = "idle"
                   /\ loop' = [loop EXCEPT ![t] = "testing"]
                   /\ connect_task' = t

ActivateAlways ==   \* mutant: a live connect loop is not looked for
  \/ active /\ UNCHANGED <<active, connect_task, loop>>
  \/ ~active /\ active' = TRUE /\ NewTask

ActivateOnce ==   \* mutant: a finished connect loop is not replaced
  /\ active' = TRUE
  /\ IF connect_task = None THEN NewTask ELSE UNCHANGED <<connect_task, loop>>

\* activate.  Before start there is no event loop to create the task on: the
\* call raises and leaves the client active without a task.
Activate ==
  \/ active /\ UNCHANGED <<active, connect_task, loop>>
  \/ /\ ~active
     /\ active' = TRUE
     /\ \/ /\ running = "running"
           /\ ~LoopLives
           /\ NewTask
        \/ /\ running = "running" => LoopLives
           /\ UNCHANGED <<connect_task, loop>>

\* _disconnect(send_rptcl=True) of the current session, if there is one.
CloseCleanly ==
  IF protocol = None THEN UNCHANGED <<state, transport, ping, pong_age, netVars>>
  ELSE /\ Disconnect(protocol)
       /\ \/ /\ state[protocol] = "CONNECTED"
             /\ Sent(protocol, "RPTCL")
          \/ /\ state[protocol] = "CONNECTED" => "send error" \in Faults
             /\ UNCHANGED to_master

start ==
  /\ running = "starting"
  /\ running' = "running"
  /\ IF Tracking THEN UNCHANGED <<active, connect_task, loop>>
     ELSE active' = TRUE /\ NewTask
  /\ UNCHANGED <<peer, protocol, delay, sessionVars, netVars, masterVars>>

\* peer_registered and peer_lost of the translator.  The latter forgets the
\* calls itself, before it deactivates the client.
PeerRegistered ==
  /\ running = "running" \/ (EarlyPeer /\ running = "starting")
  /\ ~peer
  /\ Len(to_master) < MaxInFlight
  /\ peer' = TRUE
  /\ IF Tracking THEN Activate ELSE UNCHANGED <<active, connect_task, loop>>
  /\ UNCHANGED <<running, protocol, delay, sessionVars, netVars, masterVars>>

PeerLost ==
  /\ running = "running"
  /\ peer
  /\ peer' = FALSE
  /\ IF Tracking
     THEN active' = FALSE /\ CloseCleanly /\ reported' = FALSE
     ELSE UNCHANGED <<active, sessionVars, netVars>>
  /\ UNCHANGED <<running, connect_task, protocol, loop, delay, masterVars>>

\* The signal handler's stop: the process ends.
stop ==
  /\ running = "running"
  /\ running' = "stopped"
  /\ active' = FALSE
  /\ CloseCleanly
  /\ loop' = [t \in Tasks |-> IF t = connect_task THEN "idle" ELSE loop[t]]
  /\ UNCHANGED <<peer, connect_task, protocol, delay, masterVars, reported>>

\* What the loop does after a session or a failed attempt.
Pause(t) ==
  /\ loop' = [loop EXCEPT ![t] = IF active THEN "sleeping" ELSE "idle"]
  /\ delay' = [delay EXCEPT ![t] = IF active THEN ReconnectDelay ELSE 0]
  /\ UNCHANGED <<active, connect_task>>

\* The loop's test, and the start of the next attempt with a new session.  What
\* the old socket sent may still travel.
ConnectLoop(t) ==
  /\ loop[t] = "testing" \/ (loop[t] = "sleeping" /\ delay[t] = 0)
  /\ loop' = [loop EXCEPT ![t] = IF active THEN "connecting" ELSE "idle"]
  /\ IF active
     THEN /\ state' = [state EXCEPT ![t] = "LOGIN"]
          /\ transport' = [transport EXCEPT ![t] = "none"]
          /\ pong_age' = [pong_age EXCEPT ![t] = 0]
          /\ protocol' = IF protocol = t THEN None ELSE protocol
          /\ to_master' = [i \in DOMAIN to_master |->
                             [to_master[i] EXCEPT !.from = IF @ = t THEN None ELSE @]]
          /\ master_addr' = IF master_addr = t THEN None ELSE master_addr
     ELSE UNCHANGED <<state, transport, pong_age, protocol, to_master, master_addr>>
  /\ UNCHANGED <<running, peer, active, connect_task, delay, ping, reported,
                 to_client, master>>

\* create_datagram_endpoint raises.
EndpointFails(t) ==
  /\ "endpoint error" \in Faults
  /\ loop[t] = "connecting"
  /\ transport[t] = "none"
  /\ Pause(t)
  /\ UNCHANGED <<running, peer, protocol, sessionVars, netVars, masterVars>>

\* The socket is made; the loop itself resumes later.
connection_made(t) ==
  /\ loop[t] = "connecting"
  /\ transport[t] = "none"
  /\ \/ /\ Sent(t, "RPTL")
        /\ transport' = [transport EXCEPT ![t] = "open"]
        /\ UNCHANGED state
     \/ /\ "send error" \in Faults
        /\ transport' = [transport EXCEPT ![t] = "closing"]
        /\ state' = [state EXCEPT ![t] = "DISCONNECTED"]
        /\ UNCHANGED to_master
  /\ UNCHANGED <<running, peer, clientVars, ping, pong_age, reported, to_client, masterVars>>

\* A socket that connection_made closed is lost before the loop resumes.
Resume(t) ==
  /\ loop[t] = "connecting"
  /\ transport[t] \in {"open", "lost"}
  /\ loop' = [loop EXCEPT ![t] = "waiting"]
  /\ protocol' = t
  /\ UNCHANGED <<running, peer, active, connect_task, delay, sessionVars, netVars, masterVars>>

connection_lost(t) ==
  /\ transport[t] = "closing"
  /\ transport' = [transport EXCEPT ![t] = "lost"]
  /\ protocol' = None
  /\ UNCHANGED <<running, peer, active, connect_task, loop, delay, state, ping, pong_age,
                 reported, netVars, masterVars>>

SessionOver(t) ==
  /\ loop[t] = "waiting"
  /\ transport[t] = "lost"
  /\ Pause(t)
  /\ UNCHANGED <<running, peer, protocol, sessionVars, netVars, masterVars>>

-----------------------------------------------------------------------------
(***************************************************************************)
(* The master, as tests/fake_hbp_master.py plays it, and a network that    *)
(* delays and loses but neither reorders nor duplicates.                   *)
(***************************************************************************)
Awaiting == [RPTL |-> MasterStates, RPTK |-> {"WAIT_RPTK"}, RPTC |-> {"WAIT_RPTC"},
             RPTO |-> {"WAIT_RPTO"}, RPTPING |-> {"WAIT_RPTO", "CONNECTED"},
             RPTCL |-> MasterStates]
Reached  == [RPTL |-> "WAIT_RPTK", RPTK |-> "WAIT_RPTC", RPTC |-> "WAIT_RPTO",
             RPTO |-> "CONNECTED", RPTPING |-> "CONNECTED", RPTCL |-> "IDLE"]

Reply(t, kind) ==
  to_client' = IF t \in Tasks /\ transport[t] = "open"
               THEN [to_client EXCEPT ![t] = Append(@, kind)] ELSE to_client

MasterAnswers(d) ==
  /\ master \in Awaiting[d.kind]
  /\ master' = Reached[d.kind]
  /\ \/ /\ d.kind \in Handshake
        /\ master_addr' = d.from
        /\ Reply(d.from, "RPTACK")
     \/ /\ d.kind = "RPTPING"
        /\ Reply(d.from, "MSTPONG")
        /\ UNCHANGED master_addr
     \/ /\ d.kind = "RPTCL"
        /\ master_addr' = None
        /\ UNCHANGED to_client

MasterIgnores(d) ==
  /\ master \notin Awaiting[d.kind]
  /\ UNCHANGED <<masterVars, to_client>>

MasterReceives ==
  /\ to_master # <<>>
  /\ to_master' = Tail(to_master)
  /\ MasterAnswers(Head(to_master)) \/ MasterIgnores(Head(to_master))
  /\ UNCHANGED <<running, peer, clientVars, sessionVars>>

\* MSTNAK and MSTCL of the master's own accord, to a client that logged in.
MasterEnds ==
  /\ master = "CONNECTED" \/ (master = "WAIT_RPTO" /\ ~Options)
  /\ master' = "IDLE"
  /\ \E kind \in Faults \cap {"MSTNAK", "MSTCL"} : Reply(master_addr, kind)
  /\ UNCHANGED <<running, peer, clientVars, sessionVars, to_master, master_addr>>

MayLose(kind) ==
  IF kind \in {"RPTPING", "MSTPONG"} THEN "keepalive loss" \in Faults
  ELSE "handshake loss" \in Faults

Lose ==
  /\ \/ /\ to_master # <<>>
        /\ MayLose(Head(to_master).kind)
        /\ to_master' = Tail(to_master)
        /\ UNCHANGED to_client
     \/ /\ \E t \in Tasks : /\ to_client[t] # <<>>
                            /\ MayLose(Head(to_client[t]))
                            /\ to_client' = [to_client EXCEPT ![t] = Tail(@)]
        /\ UNCHANGED to_master
  /\ UNCHANGED <<running, peer, clientVars, sessionVars, masterVars>>

Down(n) == IF n > 0 THEN n - 1 ELSE n

Tick ==
  /\ \A t \in Tasks : Len(to_master) + Len(to_client[t]) < MaxInFlight
  /\ delay' = [t \in Tasks |-> Down(delay[t])]
  /\ ping' = [t \in Tasks |-> Down(ping[t])]
  /\ pong_age' = [t \in Tasks |-> IF state[t] = "CONNECTED" /\ pong_age[t] <= MaxKaAge
                                  THEN pong_age[t] + 1 ELSE pong_age[t]]
  /\ UNCHANGED <<running, peer, active, connect_task, protocol, loop, state, transport,
                 reported, netVars, masterVars>>

-----------------------------------------------------------------------------
\* What the event loop runs when it is due, between start and stop.
EventLoop(t) ==
  \/ ConnectLoop(t)
  \/ connection_made(t)
  \/ Resume(t)
  \/ connection_lost(t)
  \/ SessionOver(t)
  \/ Keepalive(t)
  \/ ReceiveRptack(t)
  \/ ReceiveEnd(t)
  \/ _on_mstpong(t)

Next ==
  \/ start
  \/ PeerRegistered
  \/ PeerLost
  \/ stop
  \/ /\ running = "running"
     /\ \/ Tick
        \/ \E t \in Tasks : EventLoop(t) \/ EndpointFails(t) \/ error_received(t)
  \/ MasterReceives
  \/ MasterEnds
  \/ Lose

Spec == Init /\ [][Next]_vars

\* The event loop starts and runs what is due, time passes, and the master
\* reads what reaches it.
Fairness ==
  /\ WF_vars(start)
  /\ WF_vars(running = "running" /\ Tick)
  /\ \A t \in Tasks : WF_vars(running = "running" /\ EventLoop(t))
  /\ WF_vars(MasterReceives)

FairSpec == Spec /\ Fairness

-----------------------------------------------------------------------------
\* At most one connect loop lives and at most one session has a socket, however
\* the peer comes and goes while the loop waits, sleeps or connects (activate,
\* deactivate, _connect_loop): the master never sees two logins of one repeater.
OneSession ==
  /\ Cardinality({t \in Tasks : loop[t] # "idle"}) <= 1
  /\ Cardinality({t \in Tasks : transport[t] \in {"open", "closing"}}) <= 1

\* A session that reports itself connected has an open socket, a keepalive
\* that will notice a dead master, and a loop waiting to replace it; so voice is
\* never sent into a session nothing will ever end (_on_rptack after a failed
\* send, error_received, _disconnect).
ConnectedIsServed ==
  is_connected /\ running = "running" =>
    /\ transport[protocol] = "open"
    /\ ping[protocol] # NoTimer
    /\ loop[protocol] = "waiting"

\* The session becomes connected only when the master has accepted its
\* configuration and, if there are any, its options (_on_rptack takes every
\* RPTACK for the answer to its last request).
ConnectedIsAccepted ==
  [][\A t \in Tasks : state[t] # "CONNECTED" /\ state'[t] = "CONNECTED" =>
       master = (IF Options THEN "CONNECTED" ELSE "WAIT_RPTO") /\ master_addr = t]_vars

\* When a connected session has ended, the translator has been told and has
\* forgotten its calls (error_received, _keepalive_loop, deactivate).
EndIsReported == running = "running" /\ ~is_connected => ~reported

\* A master that no longer answers is noticed: no session stays connected while
\* its pongs stop (_keepalive_loop).
DeadMasterNoticed ==
  \A t \in Tasks : []<>(state[t] # "CONNECTED" \/ pong_age[t] = 0)

\* While the client is active it is connected again and again, whatever ended
\* the session before (_connect_loop, activate).
Reconnects == []<>(is_connected \/ ~active)

\* theory_of_operation.md 6.3, TRACKING: HBP connects only when an IPSC peer is
\* registered, and is disconnected when the peer is lost.
TrackingFollowsPeer == Tracking /\ is_connected => peer
=============================================================================
