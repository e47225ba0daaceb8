-------------------------- MODULE HBPClientProofs --------------------------
(***************************************************************************)
(* Proofs about HBPClient: type correctness, that there is one connect     *)
(* loop with one socket, that a connected session is looked after, and     *)
(* that its end is reported.                                               *)
(***************************************************************************)
EXTENDS HBPClient, FiniteSetTheorems, TLAPS

(***************************************************************************)
(* The inductive invariant: only connect_task may be alive, it alone may   *)
(* have a socket, and a connected session has all that keeps it alive.     *)
(* After stop the loop is gone and sockets may be left to the process end. *)
(***************************************************************************)
OneLoop == \A t \in Tasks : loop[t] # "idle" => t = connect_task

NoLoopYet == running = "starting" => \A t \in Tasks : loop[t] = "idle"

SocketOfLoop ==
  \A t \in Tasks : transport[t] \in {"open", "closing"} =>
    /\ t = connect_task
    /\ running # "stopped" => loop[t] \in {"connecting", "waiting"}

Served ==
  \A t \in Tasks : state[t] = "CONNECTED" =>
    /\ transport[t] = "open"
    /\ ping[t] # NoTimer
    /\ running # "stopped" => loop[t] = "waiting"

Looped == OneLoop /\ NoLoopYet /\ SocketOfLoop /\ Served
IInv == TypeOK /\ Looped

LEMMA ConstantsType ==
  /\ None \notin Tasks
  /\ KaInterval \in Nat /\ KaInterval > 0
  /\ MaxKaAge \in Nat
  /\ ReconnectDelay \in Nat
BY ClientAssumption

LEMMA InitIInv == Init => IInv
<1> SUFFICES ASSUME Init PROVE IInv
  OBVIOUS
<1>0. /\ NoTimer \in NoTimer..KaInterval /\ 0 \in 0..MaxKaAge+1 /\ 0 \in 0..ReconnectDelay
      /\ <<>> \in Seq(Datagram) /\ <<>> \in Seq(Replies)
  BY ConstantsType DEF NoTimer
<1>1. TypeOK
  BY <1>0 DEF Init, TypeOK, SessionStates, MasterStates
<1> QED
  BY <1>1 DEF Init, IInv, Looped, OneLoop, NoLoopYet, SocketOfLoop, Served

-----------------------------------------------------------------------------
(***************************************************************************)
(* What the parts of the handlers do.                                      *)
(***************************************************************************)
LEMMA SentType ==
  ASSUME TypeOK, NEW t \in Tasks, NEW kind \in Requests, Sent(t, kind)
  PROVE  to_master' \in Seq(Datagram)
<1>1. [from |-> t, kind |-> kind] \in Datagram
  BY DEF Datagram
<1> QED
  BY <1>1 DEF Sent, TypeOK

\* A request, an answer and a lost datagram take the first of the queue.
LEMMA TailType ==
  ASSUME TypeOK, NEW t \in Tasks, to_client[t] # <<>>
  PROVE  /\ [to_client EXCEPT ![t] = Tail(@)] \in [Tasks -> Seq(Replies)]
         /\ transport[t] = "open"
<1>1. to_client[t] \in Seq(Replies)
  BY DEF TypeOK
<1>2. Tail(to_client[t]) \in Seq(Replies)
  BY <1>1
<1> QED
  BY <1>2 DEF TypeOK

LEMMA DisconnectType ==
  ASSUME TypeOK, NEW t \in Tasks, Disconnect(t)
  PROVE  /\ state' \in [Tasks -> SessionStates]
         /\ transport' \in [Tasks -> {"none", "open", "closing", "lost"}]
         /\ ping' \in [Tasks -> NoTimer..KaInterval]
         /\ pong_age' \in [Tasks -> 0..MaxKaAge+1]
         /\ to_client' \in [Tasks -> Seq(Replies)]
         /\ \A u \in Tasks : /\ transport'[u] # "open" => to_client'[u] = <<>>
                             /\ ping'[u] # NoTimer => state'[u] = "CONNECTED"
<1>1. <<>> \in Seq(Replies) /\ NoTimer \in NoTimer..KaInterval
  BY ConstantsType DEF NoTimer
<1> QED
  BY <1>1 DEF Disconnect, TypeOK, SessionStates

LEMMA DisconnectLooped ==
  ASSUME TypeOK, Looped, NEW t \in Tasks, Disconnect(t),
         UNCHANGED <<running, connect_task, loop>>
  PROVE  Looped'
BY DEF Disconnect, TypeOK, Looped, OneLoop, NoLoopYet, SocketOfLoop, Served

\* What the network and the master do concerns none of the client's state.
LEMMA NetworkLooped ==
  ASSUME Looped, UNCHANGED <<running, clientVars, sessionVars>>
  PROVE  Looped'
BY DEF clientVars, sessionVars, Looped, OneLoop, NoLoopYet, SocketOfLoop, Served

-----------------------------------------------------------------------------
(***************************************************************************)
(* The session.                                                            *)
(***************************************************************************)
LEMMA RequestStep ==
  ASSUME TypeOK, Looped, NEW t \in Tasks, NEW kind \in Requests,
         NEW next \in SessionStates \ {"CONNECTED"},
         to_client[t] # <<>>, state[t] # "CONNECTED", Request(t, kind, next),
         UNCHANGED <<running, peer, clientVars, masterVars>>
  PROVE  IInv'
<1>1. ping[t] = NoTimer /\ transport[t] = "open"
  BY TailType DEF TypeOK
<1>2. CASE Sent(t, kind) /\ to_client' = [to_client EXCEPT ![t] = Tail(@)] /\ UNCHANGED transport
  <2>1. to_master' \in Seq(Datagram) /\ to_client' \in [Tasks -> Seq(Replies)]
    BY <1>2, SentType, TailType
  <2>2. \A u \in Tasks : transport'[u] # "open" => to_client'[u] = <<>>
    BY <1>1, <1>2 DEF TypeOK
  <2>3. TypeOK'
    BY <1>1, <1>2, <2>1, <2>2 DEF Request, TypeOK, clientVars, masterVars
  <2>4. Looped'
    BY <1>2 DEF Request, TypeOK, clientVars, Looped, OneLoop, NoLoopYet, SocketOfLoop, Served
  <2> QED
    BY <2>3, <2>4 DEF IInv
<1>3. CASE /\ transport' = [transport EXCEPT ![t] = "closing"]
           /\ to_client' = [to_client EXCEPT ![t] = <<>>]
           /\ UNCHANGED to_master
  <2>1. to_client' \in [Tasks -> Seq(Replies)]
    BY <1>3 DEF TypeOK
  <2>2. TypeOK'
    BY <1>1, <1>3, <2>1 DEF Request, TypeOK, clientVars, masterVars
  <2>3. Looped'
    BY <1>1, <1>3, ZenonT(60) DEF Request, TypeOK, clientVars, Looped, OneLoop, NoLoopYet, SocketOfLoop, Served
  <2> QED
    BY <2>2, <2>3 DEF IInv
<1> QED
  BY <1>2, <1>3 DEF Request

LEMMA RptackStep ==
  ASSUME TypeOK, Looped, NEW t \in Tasks, ReceiveRptack(t)
  PROVE  IInv'
<1>1. /\ to_client[t] # <<>> /\ transport[t] = "open" /\ loop[t] = "waiting"
      /\ UNCHANGED <<running, peer, clientVars, masterVars>>
  BY DEF ReceiveRptack, Received
<1>2. ASSUME NEW kind \in {"RPTK", "RPTC", "RPTO"},
             NEW next \in {"AUTH_SENT", "CONFIG_SENT", "OPTIONS_SENT"},
             state[t] # "CONNECTED", Request(t, kind, next)
      PROVE  IInv'
  BY <1>1, <1>2, RequestStep DEF Requests, Handshake, SessionStates
<1>3. CASE BecomeConnected(t)
  <2>1. to_client' \in [Tasks -> Seq(Replies)]
    BY <1>1, <1>3, TailType DEF BecomeConnected
  <2>2. 0 \in 0..MaxKaAge+1 /\ KaInterval \in NoTimer..KaInterval /\ KaInterval # NoTimer
    BY ConstantsType DEF NoTimer
  <2>3. TypeOK'
    BY <1>1, <1>3, <2>1, <2>2 DEF BecomeConnected, TypeOK, SessionStates, clientVars, masterVars
  <2>4. Looped'
    BY <1>1, <1>3, <2>2 DEF BecomeConnected, TypeOK, clientVars, Looped, OneLoop, NoLoopYet,
                            SocketOfLoop, Served
  <2> QED
    BY <2>3, <2>4 DEF IInv
<1> QED
  BY <1>2, <1>3 DEF ReceiveRptack, _on_rptack

LEMMA DisconnectStep ==
  ASSUME TypeOK, Looped, NEW t \in Tasks, Disconnect(t),
         UNCHANGED <<running, peer, clientVars, masterVars>>,
         to_master' \in Seq(Datagram), reported' \in BOOLEAN
  PROVE  IInv'
<1>1. TypeOK'
  BY DisconnectType DEF TypeOK, clientVars, masterVars
<1>2. Looped'
  BY DisconnectLooped DEF clientVars
<1> QED
  BY <1>1, <1>2 DEF IInv

LEMMA SessionStep ==
  ASSUME TypeOK, Looped, NEW t \in Tasks,
         ReceiveEnd(t) \/ _on_mstpong(t) \/ error_received(t) \/ Keepalive(t)
  PROVE  IInv'
<1>1. UNCHANGED <<running, peer, clientVars, masterVars>>
  BY DEF ReceiveEnd, Received, _on_mstpong, error_received, Keepalive
<1>2. CASE ReceiveEnd(t)
  BY <1>1, <1>2, DisconnectStep DEF ReceiveEnd, TypeOK
<1>3. CASE error_received(t)
  BY <1>1, <1>3, DisconnectStep DEF error_received, DisconnectAndReport, TypeOK
<1>4. CASE _on_mstpong(t)
  <2>1. to_client' \in [Tasks -> Seq(Replies)] /\ transport[t] = "open"
    BY <1>4, TailType DEF _on_mstpong, Received
  <2>2. TypeOK'
    BY <1>1, <1>4, <2>1, ConstantsType DEF _on_mstpong, TypeOK, clientVars, masterVars
  <2>3. Looped'
    BY <1>1, <1>4 DEF _on_mstpong, clientVars, Looped, OneLoop, NoLoopYet, SocketOfLoop, Served
  <2> QED
    BY <2>2, <2>3 DEF IInv
<1>5. CASE Keepalive(t)
  <2>1. Sent(t, "RPTPING") => to_master' \in Seq(Datagram)
    BY SentType DEF Requests
  <2>2. CASE DisconnectAndReport(t)
    BY <1>1, <1>5, <2>1, <2>2, DisconnectStep DEF Keepalive, DisconnectAndReport, TypeOK
  <2>3. CASE /\ Sent(t, "RPTPING")
             /\ ping' = [ping EXCEPT ![t] = KaInterval]
             /\ UNCHANGED <<state, transport, pong_age, reported, to_client>>
    <3>1. ping[t] # NoTimer /\ KaInterval # NoTimer /\ KaInterval \in NoTimer..KaInterval
      <4>1. ping[t] = 0
        BY <1>5 DEF Keepalive
      <4> QED
        BY <4>1, ConstantsType DEF NoTimer
    <3>2. TypeOK'
      BY <1>1, <2>1, <2>3, <3>1 DEF TypeOK, clientVars, masterVars
    <3>3. Looped'
      BY <1>1, <2>3, <3>1 DEF TypeOK, clientVars, Looped, OneLoop, NoLoopYet, SocketOfLoop, Served
    <3> QED
      BY <3>2, <3>3 DEF IInv
  <2> QED
    BY <1>5, <2>2, <2>3 DEF Keepalive
<1> QED
  BY <1>2, <1>3, <1>4, <1>5

-----------------------------------------------------------------------------
(***************************************************************************)
(* The client and its loop.                                                *)
(***************************************************************************)
\* A new task finds no other alive, and no socket left open.
LEMMA NewTaskStep ==
  ASSUME TypeOK, Looped, NewTask, running' = "running", running # "stopped",
         ~LoopLives \/ running = "starting",
         UNCHANGED <<state, transport, ping>>
  PROVE  /\ loop' \in [Tasks -> {"idle", "testing", "connecting", "waiting", "sleeping"}]
         /\ connect_task' \in Tasks
         /\ Looped'
<1>1. PICK t \in Tasks : /\ loop[t] = "idle"
                         /\ loop' = [loop EXCEPT ![t] = "testing"]
                         /\ connect_task' = t
  BY DEF NewTask
<1>2. \A u \in Tasks : loop[u] = "idle"
  BY ConstantsType DEF LoopLives, Looped, OneLoop, NoLoopYet
<1>3. \A u \in Tasks : transport[u] \notin {"open", "closing"} /\ state[u] # "CONNECTED"
  BY <1>2 DEF Looped, SocketOfLoop, Served
<1> QED
  BY <1>1, <1>2, <1>3 DEF TypeOK, Looped, OneLoop, NoLoopYet, SocketOfLoop, Served

LEMMA StartStep == TypeOK /\ Looped /\ start => IInv'
<1> SUFFICES ASSUME TypeOK, Looped, start PROVE IInv'
  OBVIOUS
<1>1. CASE UNCHANGED <<active, connect_task, loop>>
  <2>1. TypeOK'
    BY <1>1 DEF start, TypeOK, sessionVars, netVars, masterVars
  <2>2. Looped'
    BY <1>1 DEF start, sessionVars, Looped, OneLoop, NoLoopYet, SocketOfLoop, Served
  <2> QED
    BY <2>1, <2>2 DEF IInv
<1>2. CASE active' = TRUE /\ NewTask
  <2>1. /\ loop' \in [Tasks -> {"idle", "testing", "connecting", "waiting", "sleeping"}]
        /\ connect_task' \in Tasks
        /\ Looped'
    BY <1>2, NewTaskStep DEF start, sessionVars
  <2>2. TypeOK'
    BY <1>2, <2>1 DEF start, TypeOK, sessionVars, netVars, masterVars
  <2> QED
    BY <2>1, <2>2 DEF IInv
<1> QED
  BY <1>1, <1>2 DEF start

LEMMA RegisteredStep == TypeOK /\ Looped /\ PeerRegistered => IInv'
<1> SUFFICES ASSUME TypeOK, Looped, PeerRegistered PROVE IInv'
  OBVIOUS
<1>1. CASE UNCHANGED <<connect_task, loop>> /\ active' \in BOOLEAN
  <2>1. TypeOK'
    BY <1>1 DEF PeerRegistered, TypeOK, sessionVars, netVars, masterVars
  <2>2. Looped'
    BY <1>1 DEF PeerRegistered, sessionVars, Looped, OneLoop, NoLoopYet, SocketOfLoop, Served
  <2> QED
    BY <2>1, <2>2 DEF IInv
<1>2. CASE active' = TRUE /\ running = "running" /\ ~LoopLives /\ NewTask
  <2>1. /\ loop' \in [Tasks -> {"idle", "testing", "connecting", "waiting", "sleeping"}]
        /\ connect_task' \in Tasks
        /\ Looped'
    BY <1>2, NewTaskStep DEF PeerRegistered, sessionVars
  <2>2. TypeOK'
    BY <1>2, <2>1 DEF PeerRegistered, TypeOK, sessionVars, netVars, masterVars
  <2> QED
    BY <2>1, <2>2 DEF IInv
<1> QED
  BY <1>1, <1>2 DEF PeerRegistered, Activate, TypeOK

LEMMA CloseType ==
  ASSUME TypeOK, CloseCleanly
  PROVE  /\ state' \in [Tasks -> SessionStates]
         /\ transport' \in [Tasks -> {"none", "open", "closing", "lost"}]
         /\ ping' \in [Tasks -> NoTimer..KaInterval]
         /\ pong_age' \in [Tasks -> 0..MaxKaAge+1]
         /\ to_client' \in [Tasks -> Seq(Replies)]
         /\ \A u \in Tasks : /\ transport'[u] # "open" => to_client'[u] = <<>>
                             /\ ping'[u] # NoTimer => state'[u] = "CONNECTED"
         /\ to_master' \in Seq(Datagram)
<1>1. CASE protocol = None
  BY <1>1 DEF CloseCleanly, netVars, TypeOK
<1>2. CASE protocol # None
  <2>1. protocol \in Tasks
    BY <1>2 DEF TypeOK
  <2>2. to_master' \in Seq(Datagram)
    BY <1>2, <2>1, SentType DEF CloseCleanly, TypeOK, Requests
  <2> QED
    BY <1>2, <2>1, <2>2, DisconnectType DEF CloseCleanly
<1> QED
  BY <1>1, <1>2

LEMMA PeerLostStep == TypeOK /\ Looped /\ PeerLost => IInv'
<1> SUFFICES ASSUME TypeOK, Looped, PeerLost PROVE IInv'
  OBVIOUS
<1>1. CASE CloseCleanly /\ active' = FALSE /\ reported' = FALSE
  <2>1. TypeOK'
    BY <1>1, CloseType DEF PeerLost, TypeOK, masterVars
  <2>2. UNCHANGED <<running, connect_task, loop>>
    BY DEF PeerLost
  <2>3. Looped'
    <3>1. CASE protocol = None
      BY <1>1, <2>2, <3>1 DEF CloseCleanly, Looped, OneLoop, NoLoopYet, SocketOfLoop, Served
    <3>2. CASE protocol # None
      BY <1>1, <2>2, <3>2, DisconnectLooped DEF CloseCleanly, TypeOK
    <3> QED
      BY <3>1, <3>2
  <2> QED
    BY <2>1, <2>3 DEF IInv
<1>2. CASE UNCHANGED <<active, sessionVars, netVars>>
  <2>1. TypeOK'
    BY <1>2 DEF PeerLost, TypeOK, sessionVars, netVars, masterVars
  <2>2. Looped'
    BY <1>2 DEF PeerLost, sessionVars, Looped, OneLoop, NoLoopYet, SocketOfLoop, Served
  <2> QED
    BY <2>1, <2>2 DEF IInv
<1> QED
  BY <1>1, <1>2 DEF PeerLost

LEMMA StopStep == TypeOK /\ Looped /\ stop => IInv'
<1> SUFFICES ASSUME TypeOK, Looped, stop PROVE IInv'
  OBVIOUS
<1>1. TypeOK'
  BY CloseType DEF stop, TypeOK, masterVars
<1>2. \A t \in Tasks : /\ transport'[t] = "open" => transport[t] = "open"
                       /\ transport'[t] = "closing" => transport[t] \in {"open", "closing"}
                       /\ state'[t] = "CONNECTED" => /\ state[t] = "CONNECTED"
                                                     /\ transport'[t] = transport[t]
                                                     /\ ping'[t] = ping[t]
  <2>1. CASE protocol = None
    BY <2>1 DEF stop, CloseCleanly
  <2>2. CASE protocol # None
    BY <2>2 DEF stop, CloseCleanly, Disconnect, TypeOK
  <2> QED
    BY <2>1, <2>2
<1>3. Looped'
  BY <1>2 DEF stop, Looped, OneLoop, NoLoopYet, SocketOfLoop, Served
<1> QED
  BY <1>1, <1>3 DEF IInv

LEMMA ConnectLoopStep ==
  ASSUME TypeOK, Looped, running = "running", NEW t \in Tasks, ConnectLoop(t)
  PROVE  IInv'
<1>1. /\ transport[t] \notin {"open", "closing"} /\ state[t] # "CONNECTED"
      /\ to_client[t] = <<>> /\ ping[t] = NoTimer
      /\ t = connect_task
  BY DEF ConnectLoop, TypeOK, Looped, OneLoop, SocketOfLoop, Served
<1>2. UNCHANGED <<running, peer, active, connect_task, delay, ping, reported, to_client, master>>
  BY DEF ConnectLoop
<1>3. CASE active
  <2>1. to_master' \in Seq(Datagram)
    <3>1. to_master' = [i \in DOMAIN to_master |->
                          [to_master[i] EXCEPT !.from = IF @ = t THEN None ELSE @]]
      BY <1>3 DEF ConnectLoop
    <3>2. to_master \in Seq(Datagram)
      BY DEF TypeOK
    <3>3. \A d \in Datagram : [d EXCEPT !.from = IF @ = t THEN None ELSE @] \in Datagram
      BY DEF Datagram
    <3>4. DOMAIN to_master = 1..Len(to_master) /\ Len(to_master) \in Nat
          /\ \A i \in DOMAIN to_master : to_master[i] \in Datagram
      BY <3>2
    <3>5. to_master' \in [1..Len(to_master) -> Datagram]
      BY <3>1, <3>3, <3>4
    <3> QED
      BY <3>4, <3>5
  <2>2. /\ loop' = [loop EXCEPT ![t] = "connecting"]
        /\ state' = [state EXCEPT ![t] = "LOGIN"]
        /\ transport' = [transport EXCEPT ![t] = "none"]
        /\ pong_age' = [pong_age EXCEPT ![t] = 0]
        /\ protocol' \in {None, protocol}
        /\ master_addr' \in {None, master_addr}
    BY <1>3 DEF ConnectLoop
  <2>3. TypeOK'
    BY <1>1, <1>2, <2>1, <2>2, ConstantsType, SMTT(30) DEF TypeOK, SessionStates
  <2>4. Looped'
    BY <1>1, <1>2, <2>2 DEF TypeOK, Looped, OneLoop, NoLoopYet, SocketOfLoop, Served
  <2> QED
    BY <2>3, <2>4 DEF IInv
<1>4. CASE ~active
  <2>1. /\ loop' = [loop EXCEPT ![t] = "idle"]
        /\ UNCHANGED <<state, transport, pong_age, protocol, to_master, master_addr>>
    BY <1>4 DEF ConnectLoop
  <2>2. TypeOK'
    BY <1>2, <2>1 DEF TypeOK
  <2>3. Looped'
    BY <1>1, <1>2, <2>1 DEF TypeOK, Looped, OneLoop, NoLoopYet, SocketOfLoop, Served
  <2> QED
    BY <2>2, <2>3 DEF IInv
<1> QED
  BY <1>3, <1>4

LEMMA PauseStep ==
  ASSUME TypeOK, Looped, running = "running", NEW t \in Tasks,
         EndpointFails(t) \/ SessionOver(t)
  PROVE  IInv'
<1>1. /\ Pause(t) /\ loop[t] # "idle"
      /\ transport[t] \in {"none", "lost"}
      /\ UNCHANGED <<running, peer, protocol, sessionVars, netVars, masterVars>>
  BY DEF EndpointFails, SessionOver
<1>2. TypeOK'
  <2>1. 0 \in 0..ReconnectDelay /\ ReconnectDelay \in 0..ReconnectDelay
    BY ConstantsType
  <2>2. delay' \in [Tasks -> 0..ReconnectDelay]
    BY <1>1, <2>1 DEF Pause, TypeOK
  <2>3. loop' \in [Tasks -> {"idle", "testing", "connecting", "waiting", "sleeping"}]
    BY <1>1 DEF Pause, TypeOK
  <2> QED
    BY <1>1, <2>2, <2>3 DEF Pause, TypeOK, sessionVars, netVars, masterVars
<1>3. Looped'
  BY <1>1 DEF Pause, sessionVars, TypeOK, Looped, OneLoop, NoLoopYet, SocketOfLoop, Served
<1> QED
  BY <1>2, <1>3 DEF IInv

LEMMA SocketStep ==
  ASSUME TypeOK, Looped, running = "running", NEW t \in Tasks,
         connection_made(t) \/ Resume(t) \/ connection_lost(t)
  PROVE  IInv'
<1>1. CASE connection_made(t)
  <2>1. /\ state[t] # "CONNECTED" /\ ping[t] = NoTimer /\ to_client[t] = <<>>
        /\ t = connect_task /\ loop[t] = "connecting"
        /\ UNCHANGED <<running, peer, clientVars, ping, pong_age, reported, to_client, masterVars>>
    BY <1>1 DEF connection_made, TypeOK, Looped, OneLoop, Served
  <2>2. /\ to_master' \in Seq(Datagram)
        /\ \/ transport' = [transport EXCEPT ![t] = "open"] /\ UNCHANGED state
           \/ /\ transport' = [transport EXCEPT ![t] = "closing"]
              /\ state' = [state EXCEPT ![t] = "DISCONNECTED"]
    BY <1>1, SentType DEF connection_made, TypeOK, Requests, Handshake
  <2>3. TypeOK'
    <3>1. state' \in [Tasks -> SessionStates]
      <4>1. state \in [Tasks -> SessionStates] /\ "DISCONNECTED" \in SessionStates
        BY DEF TypeOK, SessionStates
      <4>2. \A s \in SessionStates : [state EXCEPT ![t] = s] \in [Tasks -> SessionStates]
        BY <4>1
      <4>3. state' = state \/ state' = [state EXCEPT ![t] = "DISCONNECTED"]
        BY <2>2
      <4> QED
        BY <4>1, <4>2, <4>3
    <3>2. transport' \in [Tasks -> {"none", "open", "closing", "lost"}]
      BY <2>2 DEF TypeOK
    <3>3. \A u \in Tasks : /\ transport'[u] # "open" => to_client'[u] = <<>>
                           /\ ping'[u] # NoTimer => state'[u] = "CONNECTED"
      BY <2>1, <2>2 DEF TypeOK
    <3>4. UNCHANGED <<running, peer, active, connect_task, protocol, loop, delay, ping,
                      pong_age, reported, to_client, master, master_addr>>
      BY <2>1 DEF clientVars, masterVars
    <3> QED
      BY <2>2, <3>1, <3>2, <3>3, <3>4 DEF TypeOK
  <2>4. Looped'
    BY <2>1, <2>2, SMTT(30) DEF TypeOK, clientVars, Looped, OneLoop, NoLoopYet, SocketOfLoop, Served
  <2> QED
    BY <2>3, <2>4 DEF IInv
<1>2. CASE Resume(t)
  <2>1. TypeOK'
    BY <1>2 DEF Resume, TypeOK, sessionVars, netVars, masterVars
  <2>2. Looped'
    BY <1>2 DEF Resume, TypeOK, sessionVars, Looped, OneLoop, NoLoopYet, SocketOfLoop, Served
  <2> QED
    BY <2>1, <2>2 DEF IInv
<1>3. CASE connection_lost(t)
  <2>1. TypeOK'
    BY <1>3 DEF connection_lost, TypeOK, netVars, masterVars
  <2>2. Looped'
    BY <1>3 DEF connection_lost, TypeOK, Looped, OneLoop, NoLoopYet, SocketOfLoop, Served
  <2> QED
    BY <2>1, <2>2 DEF IInv
<1> QED
  BY <1>1, <1>2, <1>3

-----------------------------------------------------------------------------
(***************************************************************************)
(* Time, the network and the master.                                       *)
(***************************************************************************)
LEMMA TickStep == TypeOK /\ Looped /\ Tick => IInv'
<1> SUFFICES ASSUME TypeOK, Looped, Tick PROVE IInv'
  OBVIOUS
<1>1. \A t \in Tasks : /\ delay[t] \in 0..ReconnectDelay /\ ping[t] \in NoTimer..KaInterval
                       /\ pong_age[t] \in 0..MaxKaAge+1
  BY DEF TypeOK
<1>2. \A t \in Tasks : /\ Down(delay[t]) \in 0..ReconnectDelay
                       /\ Down(ping[t]) \in NoTimer..KaInterval
                       /\ Down(ping[t]) # NoTimer <=> ping[t] # NoTimer
  BY <1>1, ConstantsType DEF Down, NoTimer
<1>3. pong_age' \in [Tasks -> 0..MaxKaAge+1]
  BY <1>1, ConstantsType DEF Tick
<1>4. TypeOK'
  BY <1>2, <1>3 DEF Tick, TypeOK, netVars, masterVars
<1>5. Looped'
  BY <1>2 DEF Tick, Looped, OneLoop, NoLoopYet, SocketOfLoop, Served
<1> QED
  BY <1>4, <1>5 DEF IInv

LEMMA ReplyType ==
  ASSUME TypeOK, NEW t \in Tasks \cup {None}, NEW kind \in Replies, Reply(t, kind)
  PROVE  /\ to_client' \in [Tasks -> Seq(Replies)]
         /\ \A u \in Tasks : transport[u] # "open" => to_client'[u] = <<>>
<1>1. CASE t \in Tasks /\ transport[t] = "open"
  <2>1. Append(to_client[t], kind) \in Seq(Replies)
    BY <1>1 DEF TypeOK
  <2> QED
    BY <1>1, <2>1 DEF Reply, TypeOK
<1>2. CASE ~(t \in Tasks /\ transport[t] = "open")
  BY <1>2 DEF Reply, TypeOK
<1> QED
  BY <1>1, <1>2

LEMMA EnvironmentStep ==
  ASSUME TypeOK, Looped, MasterReceives \/ MasterEnds \/ Lose
  PROVE  IInv'
<1>1. UNCHANGED <<running, peer, clientVars, sessionVars>>
  BY DEF MasterReceives, MasterEnds, Lose
<1>2. Looped'
  BY <1>1, NetworkLooped
<1>3. ASSUME to_client' \in [Tasks -> Seq(Replies)], to_master' \in Seq(Datagram),
             master' \in MasterStates, master_addr' \in Tasks \cup {None},
             \A u \in Tasks : transport[u] # "open" => to_client'[u] = <<>>
      PROVE  IInv'
  BY <1>1, <1>2, <1>3 DEF IInv, TypeOK, clientVars, sessionVars
<1>4. CASE MasterReceives
  <2>1. Tail(to_master) \in Seq(Datagram) /\ Head(to_master) \in Datagram
    BY <1>4 DEF MasterReceives, TypeOK
  <2>2. CASE MasterIgnores(Head(to_master))
    BY <1>3, <1>4, <2>1, <2>2 DEF MasterReceives, MasterIgnores, masterVars, TypeOK
  <2>3. CASE MasterAnswers(Head(to_master))
    <3> DEFINE d == Head(to_master)
    <3>1. d.from \in Tasks \cup {None} /\ d.kind \in Requests
      BY <2>1 DEF Datagram
    <3> HIDE DEF d
    <3>2. Reached[d.kind] \in MasterStates
      BY <3>1 DEF Reached, MasterStates, Requests, Handshake
    <3>3. /\ to_client' \in [Tasks -> Seq(Replies)]
          /\ \A u \in Tasks : transport[u] # "open" => to_client'[u] = <<>>
      BY <2>3, <3>1, ReplyType DEF MasterAnswers, Replies, TypeOK, d
    <3>4. master' = Reached[d.kind] /\ master_addr' \in {d.from, None, master_addr}
      BY <2>3 DEF MasterAnswers, d
    <3> QED
      BY <1>3, <1>4, <2>1, <3>1, <3>2, <3>3, <3>4 DEF MasterReceives, TypeOK
  <2> QED
    BY <1>4, <2>2, <2>3 DEF MasterReceives
<1>5. CASE MasterEnds
  <2>1. PICK kind \in {"MSTNAK", "MSTCL"} : Reply(master_addr, kind)
    BY <1>5 DEF MasterEnds
  <2> QED
    BY <1>3, <1>5, <2>1, ReplyType DEF MasterEnds, Replies, MasterStates, TypeOK
<1>6. CASE Lose
  <2>1. CASE to_master # <<>> /\ to_master' = Tail(to_master) /\ UNCHANGED to_client
    <3>1. Tail(to_master) \in Seq(Datagram)
      BY <2>1 DEF TypeOK
    <3> QED
      BY <1>3, <1>6, <2>1, <3>1 DEF Lose, masterVars, TypeOK
  <2>2. CASE /\ UNCHANGED to_master
             /\ \E t \in Tasks : /\ to_client[t] # <<>>
                                 /\ to_client' = [to_client EXCEPT ![t] = Tail(@)]
    <3>1. PICK t \in Tasks : /\ to_client[t] # <<>>
                             /\ to_client' = [to_client EXCEPT ![t] = Tail(@)]
      BY <2>2
    <3>2. to_client' \in [Tasks -> Seq(Replies)] /\ transport[t] = "open"
      BY <3>1, TailType
    <3>3. \A u \in Tasks : transport[u] # "open" => to_client'[u] = <<>>
      BY <3>1, <3>2 DEF TypeOK
    <3> QED
      BY <1>3, <1>6, <2>2, <3>2, <3>3 DEF Lose, masterVars, TypeOK
  <2> QED
    BY <1>6, <2>1, <2>2 DEF Lose
<1> QED
  BY <1>4, <1>5, <1>6

LEMMA NextIInv == IInv /\ [Next]_vars => IInv'
<1> SUFFICES ASSUME TypeOK, Looped, [Next]_vars PROVE IInv'
  BY DEF IInv
<1>1. ASSUME NEW t \in Tasks, running = "running",
             EventLoop(t) \/ EndpointFails(t) \/ error_received(t)
      PROVE  IInv'
  BY <1>1, ConnectLoopStep, PauseStep, SocketStep, SessionStep, RptackStep DEF EventLoop
<1>2. CASE UNCHANGED vars
  <2>1. TypeOK'
    BY <1>2 DEF vars, clientVars, sessionVars, netVars, masterVars, TypeOK
  <2> QED
    BY <1>2, <2>1, NetworkLooped DEF vars, IInv
<1> QED
  BY <1>1, <1>2, StartStep, RegisteredStep, PeerLostStep, StopStep, TickStep, EnvironmentStep
     DEF Next

\* The types hold for any number of tasks and all faults, and the invariant with them.
LEMMA AlwaysIInv == Spec => []IInv
BY InitIInv, NextIInv, PTL DEF Spec

\* The types hold for every number of tasks and all faults.
THEOREM TypeCorrect == Spec => []TypeOK
<1>1. IInv => TypeOK
  BY DEF IInv
<1> QED
  BY <1>1, AlwaysIInv, PTL

\* However the peer comes and goes and whatever fails, the master never sees two
\* sessions of one repeater: one connect loop lives, with one socket.
THEOREM LoopIsAlone == Spec => []OneSession
<1>1. IInv => OneSession
  <2> SUFFICES ASSUME IInv PROVE OneSession
    OBVIOUS
  <2>1. ASSUME NEW S \in SUBSET {connect_task} PROVE Cardinality(S) <= 1
    <3>1. IsFiniteSet({connect_task}) /\ Cardinality({connect_task}) = 1
      BY FS_Singleton
    <3> QED
      BY <3>1, FS_Subset
  <2>2. {t \in Tasks : loop[t] # "idle"} \subseteq {connect_task}
    BY DEF IInv, Looped, OneLoop
  <2>3. {t \in Tasks : transport[t] \in {"open", "closing"}} \subseteq {connect_task}
    BY DEF IInv, Looped, SocketOfLoop
  <2> QED
    BY <2>1, <2>2, <2>3 DEF OneSession
<1> QED
  BY <1>1, AlwaysIInv, PTL

\* A connected session has an open socket, a running keepalive and a loop that waits
\* for its end, for every number of tasks, all faults and all intervals.
THEOREM SessionIsServed == Spec => []ConnectedIsServed
<1>1. IInv => ConnectedIsServed
  BY DEF IInv, TypeOK, Looped, Served, ConnectedIsServed, is_connected
<1> QED
  BY <1>1, AlwaysIInv, PTL

-----------------------------------------------------------------------------
(***************************************************************************)
(* The end of a session and the translator.  What was reported connected   *)
(* is the session _protocol names; the master's own MSTNAK and MSTCL, which *)
(* are not reported, are left out.                                         *)
(***************************************************************************)
Acks == {"RPTACK", "MSTPONG"}
NoEnds == to_client \in [Tasks -> Seq(Acks)]
CurrentSession == \A t \in Tasks : loop[t] = "waiting" /\ transport[t] = "open" => protocol = t
ReportedLives  == reported /\ running # "stopped" => is_connected
Told == NoEnds /\ CurrentSession /\ ReportedLives

LEMMA InitTold == Init => Told
<1>1. Init => NoEnds
  <2>1. <<>> \in Seq(Acks)
    OBVIOUS
  <2> QED
    BY <2>1 DEF Init, NoEnds
<1> QED
  BY <1>1 DEF Init, Told, CurrentSession, ReportedLives

\* The session that is reported is that of the one live task.
LEMMA ReportedSession ==
  ASSUME IInv, Told, reported, running # "stopped"
  PROVE  /\ protocol \in Tasks
         /\ state[protocol] = "CONNECTED"
         /\ loop[protocol] = "waiting"
         /\ transport[protocol] = "open"
         /\ \A t \in Tasks \ {protocol} : /\ loop[t] = "idle"
                                          /\ transport[t] \notin {"open", "closing"}
<1>1. protocol \in Tasks /\ state[protocol] = "CONNECTED"
  BY DEF IInv, TypeOK, Told, ReportedLives, is_connected
<1>2. loop[protocol] = "waiting" /\ transport[protocol] = "open"
  BY <1>1 DEF IInv, Looped, Served
<1>3. protocol = connect_task
  BY <1>1, <1>2 DEF IInv, Looped, OneLoop
<1> QED
  BY <1>1, <1>2, <1>3 DEF IInv, Looped, OneLoop, SocketOfLoop

LEMMA TakenAck ==
  ASSUME NoEnds, NEW t \in Tasks, to_client[t] # <<>>
  PROVE  /\ Head(to_client[t]) \in Acks
         /\ [to_client EXCEPT ![t] = Tail(@)] \in [Tasks -> Seq(Acks)]
<1>1. to_client[t] \in Seq(Acks)
  BY DEF NoEnds
<1>2. Head(to_client[t]) \in Acks /\ Tail(to_client[t]) \in Seq(Acks)
  BY <1>1
<1> QED
  BY <1>2 DEF NoEnds

LEMMA ClosedTold ==
  ASSUME IInv, Told, NEW t \in Tasks, Disconnect(t),
         UNCHANGED <<running, clientVars>>,
         reported' = (reported /\ state[t] # "CONNECTED") \/ reported' = FALSE
  PROVE  Told'
<1>1. NoEnds'
  <2>1. <<>> \in Seq(Acks)
    OBVIOUS
  <2> QED
    BY <2>1 DEF Disconnect, Told, NoEnds
<1>2. CurrentSession'
  BY DEF Disconnect, IInv, TypeOK, clientVars, Told, CurrentSession
<1>3. ReportedLives'
  <2> SUFFICES ASSUME reported', running' # "stopped" PROVE is_connected'
    BY DEF ReportedLives
  <2>1. reported /\ running # "stopped" /\ state[t] # "CONNECTED"
    BY DEF clientVars
  <2>2. protocol \in Tasks /\ state[protocol] = "CONNECTED" /\ protocol # t
    BY <2>1, ReportedSession
  <2> QED
    BY <2>2, ConstantsType DEF Disconnect, IInv, TypeOK, clientVars, is_connected
<1> QED
  BY <1>1, <1>2, <1>3 DEF Told

LEMMA SessionTold ==
  ASSUME IInv, Told, NEW t \in Tasks, running = "running",
         \/ ReceiveRptack(t) \/ ReceiveEnd(t) \/ _on_mstpong(t) \/ error_received(t)
         \/ Keepalive(t)
  PROVE  Told'
<1>1. UNCHANGED <<running, clientVars>>
  BY DEF ReceiveRptack, ReceiveEnd, Received, _on_mstpong, error_received, Keepalive
<1>2. CASE ReceiveEnd(t)
  BY <1>2, TakenAck DEF ReceiveEnd, Received, Told, Acks
<1>3. CASE error_received(t)
  BY <1>1, <1>3, ClosedTold DEF error_received, DisconnectAndReport
<1>4. CASE Keepalive(t)
  <2>1. CASE DisconnectAndReport(t)
    BY <1>1, <2>1, ClosedTold DEF DisconnectAndReport
  <2>2. CASE UNCHANGED <<state, transport, reported, to_client>>
    BY <1>1, <2>2 DEF clientVars, Told, NoEnds, CurrentSession, ReportedLives, is_connected
  <2> QED
    BY <1>4, <2>1, <2>2 DEF Keepalive
<1>5. CASE _on_mstpong(t)
  <2>1. NoEnds'
    BY <1>5, TakenAck DEF _on_mstpong, Received, Told, NoEnds
  <2> QED
    BY <1>1, <1>5, <2>1 DEF _on_mstpong, clientVars, Told, CurrentSession, ReportedLives,
                            is_connected
<1>6. CASE ReceiveRptack(t)
  <2>1. to_client[t] # <<>> /\ transport[t] = "open" /\ loop[t] = "waiting"
    BY <1>6 DEF ReceiveRptack, Received
  <2>2. protocol = t
    BY <2>1 DEF Told, CurrentSession
  <2>3. CASE BecomeConnected(t)
    <3>1. NoEnds'
      BY <2>1, <2>3, TakenAck DEF BecomeConnected, Told, NoEnds
    <3>2. CurrentSession' /\ ReportedLives'
      BY <1>1, <2>2, <2>3, ConstantsType DEF BecomeConnected, clientVars, IInv, TypeOK, Told,
           CurrentSession, ReportedLives, is_connected
    <3> QED
      BY <3>1, <3>2 DEF Told
  <2>4. CASE state[t] # "CONNECTED" /\ \E kind, next : Request(t, kind, next)
    <3>1. PICK kind, next : Request(t, kind, next)
      BY <2>4
    <3>2. ~reported /\ ~reported'
      BY <2>2, <2>4, <3>1, ReportedSession DEF Request
    <3>3. NoEnds'
      <4>1. <<>> \in Seq(Acks)
        OBVIOUS
      <4> QED
        BY <2>1, <3>1, <4>1, TakenAck DEF Request, Told, NoEnds
    <3>4. CurrentSession'
      BY <1>1, <3>1 DEF Request, clientVars, IInv, TypeOK, Told, CurrentSession
    <3> QED
      BY <3>2, <3>3, <3>4 DEF Told, ReportedLives
  <2> QED
    BY <1>6, <2>3, <2>4 DEF ReceiveRptack, _on_rptack
<1> QED
  BY <1>2, <1>3, <1>4, <1>5, <1>6

LEMMA LoopTold ==
  ASSUME IInv, Told, NEW t \in Tasks, running = "running",
         \/ ConnectLoop(t) \/ connection_made(t) \/ Resume(t) \/ connection_lost(t)
         \/ SessionOver(t) \/ EndpointFails(t)
  PROVE  Told'
<1>1. /\ running' = "running"
      /\ UNCHANGED <<to_client, reported>>
  BY DEF ConnectLoop, connection_made, Resume, connection_lost, SessionOver, EndpointFails,
         sessionVars, netVars
<1>2. NoEnds'
  BY <1>1 DEF Told, NoEnds
<1>3. CurrentSession'
  <2> SUFFICES ASSUME NEW u \in Tasks, loop'[u] = "waiting", transport'[u] = "open"
               PROVE  protocol' = u
    BY DEF CurrentSession
  <2>t. /\ loop \in [Tasks -> {"idle", "testing", "connecting", "waiting", "sleeping"}]
        /\ transport \in [Tasks -> {"none", "open", "closing", "lost"}]
    BY DEF IInv, TypeOK
  <2>1. loop[u] = "waiting" /\ transport[u] = "open" => protocol = u /\ u = connect_task
    BY DEF Told, CurrentSession, IInv, Looped, OneLoop
  <2>2. loop[t] # "idle" \/ transport[t] = "closing" => t = connect_task
    BY DEF IInv, Looped, OneLoop, SocketOfLoop
  <2>3. CASE ConnectLoop(t)
    BY <2>t, <2>1, <2>2, <2>3 DEF ConnectLoop
  <2>4. CASE connection_made(t)
    BY <2>t, <2>1, <2>4 DEF connection_made, clientVars
  <2>5. CASE Resume(t)
    BY <2>t, <2>1, <2>2, <2>5 DEF Resume, sessionVars
  <2>6. CASE connection_lost(t)
    BY <2>t, <2>1, <2>2, <2>6 DEF connection_lost
  <2>7. CASE SessionOver(t) \/ EndpointFails(t)
    BY <2>t, <2>1, <2>7 DEF SessionOver, EndpointFails, Pause, sessionVars
  <2> QED
    BY <2>3, <2>4, <2>5, <2>6, <2>7
<1>4. ReportedLives'
  <2> SUFFICES ASSUME reported PROVE is_connected'
    BY <1>1 DEF ReportedLives
  <2> DEFINE p == protocol
  <2>1. /\ p \in Tasks /\ state[p] = "CONNECTED" /\ loop[p] = "waiting" /\ transport[p] = "open"
        /\ \A u \in Tasks \ {p} : loop[u] = "idle" /\ transport[u] \notin {"open", "closing"}
    BY ReportedSession
  <2>2. FALSE
    BY <2>1 DEF ConnectLoop, connection_made, Resume, connection_lost, SessionOver, EndpointFails
  <2> QED
    BY <2>2
<1> QED
  BY <1>2, <1>3, <1>4 DEF Told

LEMMA ClientTold ==
  ASSUME IInv, Told, start \/ PeerRegistered \/ PeerLost \/ stop
  PROVE  Told'
<1>1. CASE start \/ PeerRegistered
  <2>1. /\ UNCHANGED <<protocol, sessionVars, netVars>>
        /\ running' # "stopped" => running # "stopped"
    BY <1>1 DEF start, PeerRegistered
  <2>2. \A t \in Tasks : loop'[t] = "waiting" => loop[t] = "waiting"
    BY <1>1 DEF start, PeerRegistered, Activate, NewTask, IInv, TypeOK
  <2> QED
    BY <2>1, <2>2 DEF sessionVars, netVars, Told, NoEnds, CurrentSession, ReportedLives, is_connected
<1>2. CASE PeerLost /\ Tracking
  <2>1. CASE protocol = None
    BY <1>2, <2>1 DEF PeerLost, CloseCleanly, netVars, Told, NoEnds, CurrentSession, ReportedLives
  <2>2. CASE protocol # None
    <3>1. protocol \in Tasks /\ Disconnect(protocol) /\ reported' = FALSE
      BY <1>2, <2>2 DEF PeerLost, CloseCleanly, IInv, TypeOK
    <3>2. NoEnds'
      <4>1. <<>> \in Seq(Acks)
        OBVIOUS
      <4> QED
        BY <3>1, <4>1 DEF Disconnect, Told, NoEnds
    <3>3. CurrentSession'
      BY <1>2, <3>1 DEF PeerLost, Disconnect, IInv, TypeOK, Told, CurrentSession
    <3> QED
      BY <3>1, <3>2, <3>3 DEF Told, ReportedLives
  <2> QED
    BY <2>1, <2>2
<1>3. CASE PeerLost /\ ~Tracking
  BY <1>3 DEF PeerLost, sessionVars, netVars, Told, NoEnds, CurrentSession, ReportedLives,
       is_connected
<1>4. CASE stop
  <2>1. \A t \in Tasks : loop'[t] = "waiting" => loop[t] = "waiting" /\ t # connect_task
    BY <1>4 DEF stop
  <2>2. CurrentSession' /\ ReportedLives'
    BY <1>4, <2>1 DEF stop, IInv, Looped, OneLoop, CurrentSession, ReportedLives
  <2>3. NoEnds'
    <3>1. <<>> \in Seq(Acks)
      OBVIOUS
    <3>2. CASE protocol = None
      BY <1>4, <3>2 DEF stop, CloseCleanly, netVars, Told, NoEnds
    <3>3. CASE protocol # None
      BY <1>4, <3>1, <3>3 DEF stop, CloseCleanly, Disconnect, Told, NoEnds
    <3> QED
      BY <3>2, <3>3
  <2> QED
    BY <2>2, <2>3 DEF Told
<1> QED
  BY <1>1, <1>2, <1>3, <1>4

LEMMA EnvironmentTold ==
  ASSUME IInv, Told, Faults \cap {"MSTNAK", "MSTCL"} = {},
         MasterReceives \/ MasterEnds \/ Lose
  PROVE  Told'
<1>1. UNCHANGED <<running, peer, clientVars, sessionVars>>
  BY DEF MasterReceives, MasterEnds, Lose
<1>2. CurrentSession' /\ ReportedLives'
  BY <1>1 DEF clientVars, sessionVars, Told, CurrentSession, ReportedLives, is_connected
<1>3. ~MasterEnds
  BY DEF MasterEnds
<1>4. CASE MasterReceives
  <2>1. CASE UNCHANGED to_client
    BY <1>2, <2>1 DEF Told, NoEnds
  <2>2. ASSUME NEW t, NEW kind \in Acks, Reply(t, kind) PROVE NoEnds'
    <3>1. ASSUME t \in Tasks PROVE Append(to_client[t], kind) \in Seq(Acks)
      <4>1. to_client[t] \in Seq(Acks)
        BY <3>1 DEF Told, NoEnds
      <4> QED
        BY <4>1
    <3> QED
      BY <2>2, <3>1 DEF Reply, Told, NoEnds
  <2> QED
    BY <1>2, <1>4, <2>1, <2>2 DEF MasterReceives, MasterAnswers, MasterIgnores, Acks, Told, NoEnds
<1>5. CASE Lose
  <2>1. NoEnds'
    BY <1>5, TakenAck DEF Lose, Told, NoEnds
  <2> QED
    BY <1>2, <2>1 DEF Told
<1> QED
  BY <1>3, <1>4, <1>5

LEMMA NextTold ==
  ASSUME Faults \cap {"MSTNAK", "MSTCL"} = {}
  PROVE  IInv /\ Told /\ [Next]_vars => Told'
<1> SUFFICES ASSUME IInv, Told, [Next]_vars PROVE Told'
  OBVIOUS
<1>1. ASSUME NEW t \in Tasks, running = "running",
             EventLoop(t) \/ EndpointFails(t) \/ error_received(t)
      PROVE  Told'
  BY <1>1, LoopTold, SessionTold DEF EventLoop
<1>2. CASE Tick
  BY <1>2 DEF Tick, netVars, Told, NoEnds, CurrentSession, ReportedLives, is_connected
<1>3. CASE UNCHANGED vars
  BY <1>3 DEF vars, clientVars, sessionVars, netVars, Told, NoEnds, CurrentSession,
              ReportedLives, is_connected
<1> QED
  BY <1>1, <1>2, <1>3, ClientTold, EnvironmentTold DEF Next

\* Unless the master itself ends it with MSTNAK or MSTCL, no session is over without
\* the translator knowing: whichever send, socket or keepalive fails, and whenever the
\* peer is lost.
THEOREM EndIsTold ==
  ASSUME Faults \cap {"MSTNAK", "MSTCL"} = {}
  PROVE  Spec => []EndIsReported
<1>1. Told => EndIsReported
  BY DEF Told, ReportedLives, EndIsReported
<1>2. IInv /\ Told /\ [Next]_vars => Told'
  BY NextTold
<1> QED
  BY InitTold, <1>1, <1>2, AlwaysIInv, PTL DEF Spec

-----------------------------------------------------------------------------
(***************************************************************************)
(* The login.  RPTACKs are not numbered; that each of them answers the     *)
(* last request follows from the order of the datagrams: a session has one *)
(* request or answer under way, and nothing of its own before it.          *)
(***************************************************************************)
RequestOf == [LOGIN |-> "RPTL", AUTH_SENT |-> "RPTK", CONFIG_SENT |-> "RPTC",
              OPTIONS_SENT |-> "RPTO"]
LoginStates == {"LOGIN", "AUTH_SENT", "CONFIG_SENT", "OPTIONS_SENT"}

\* No datagram of task t is on its way to the master.
Unheard(t) == \A i \in 1..Len(to_master) : to_master[i].from # t

RequestWaits(t) ==
  /\ to_client[t] = <<>>
  /\ Len(to_master) > 0
  /\ to_master[Len(to_master)] = [from |-> t, kind |-> RequestOf[state[t]]]
  /\ \A i \in 1..Len(to_master) : i < Len(to_master) => to_master[i].from # t
  /\ state[t] # "LOGIN" => Len(to_master) = 1 /\ master \in Awaiting[RequestOf[state[t]]]

AnswerWaits(t) ==
  /\ to_client[t] = <<"RPTACK">>
  /\ to_master = <<>>
  /\ master = Reached[RequestOf[state[t]]]
  /\ master_addr = t

NothingWaits(t) == to_client[t] = <<>> /\ to_master = <<>>

InLogin(t) ==
  /\ state[t] \in LoginStates
  /\ state[t] = "OPTIONS_SENT" => Options
  /\ RequestWaits(t) \/ AnswerWaits(t) \/ NothingWaits(t)

LoginInOrder == \A t \in Tasks : transport[t] = "open" /\ state[t] # "CONNECTED" => InLogin(t)

\* A session without a socket yet is new in every respect.
NewIsUnheard ==
  \A t \in Tasks : transport[t] = "none" =>
    /\ Unheard(t)
    /\ protocol # t
    /\ loop[t] = "connecting" => state[t] = "LOGIN"

Ordered == LoginInOrder /\ NewIsUnheard

LEMMA InitOrdered == Init => Ordered
BY ConstantsType DEF Init, Ordered, LoginInOrder, NewIsUnheard, Unheard

\* Two tasks never have a socket at once, and a connected session has the only one.
LEMMA OneSocket ==
  ASSUME IInv, NEW t \in Tasks, NEW u \in Tasks, transport[t] \in {"open", "closing"}, u # t
  PROVE  transport[u] \notin {"open", "closing"} /\ loop[u] = "idle"
<1>1. t = connect_task
  BY DEF IInv, Looped, SocketOfLoop
<1> QED
  BY <1>1 DEF IInv, Looped, OneLoop, SocketOfLoop

\* One datagram more, or one less at the head of the queue.
LEMMA Appended ==
  ASSUME TypeOK, NEW t \in Tasks, NEW kind, Sent(t, kind)
  PROVE  /\ Len(to_master) \in Nat
         /\ Len(to_master') = Len(to_master) + 1
         /\ to_master'[Len(to_master')] = [from |-> t, kind |-> kind]
         /\ \A i \in 1..Len(to_master) : to_master'[i] = to_master[i]
         /\ \A u \in Tasks : u # t /\ Unheard(u) => Unheard(u)'
<1> DEFINE d == [from |-> t, kind |-> kind]
<1>1. to_master \in Seq(Datagram) /\ to_master' = Append(to_master, d) /\ d.from = t
  BY DEF TypeOK, Sent
<1> HIDE DEF d
<1>2. /\ Len(to_master) \in Nat
      /\ Len(to_master') = Len(to_master) + 1
      /\ to_master'[Len(to_master')] = d
      /\ \A i \in 1..Len(to_master) : to_master'[i] = to_master[i]
  BY <1>1
<1>3. ASSUME NEW u \in Tasks, u # t, Unheard(u)
      PROVE  Unheard(u)'
  <2> SUFFICES ASSUME NEW i \in 1..Len(to_master') PROVE to_master'[i].from # u
    BY DEF Unheard
  <2>1. i \in 1..Len(to_master) \/ i = Len(to_master')
    BY <1>2
  <2> QED
    BY <1>1, <1>2, <1>3, <2>1 DEF Unheard
<1> QED
  BY <1>2, <1>3 DEF d

LEMMA Shifted ==
  ASSUME TypeOK, to_master # <<>>, to_master' = Tail(to_master)
  PROVE  /\ Len(to_master) \in Nat /\ Len(to_master) > 0
         /\ Len(to_master') = Len(to_master) - 1
         /\ \A i \in 1..Len(to_master') : to_master'[i] = to_master[i + 1]
         /\ Len(to_master) = 1 => to_master' = <<>>
         /\ Head(to_master) = to_master[1] /\ Head(to_master) \in Datagram
         /\ \A u \in Tasks : Unheard(u) => Unheard(u)'
<1>1. to_master \in Seq(Datagram)
  BY DEF TypeOK
<1>2. /\ Len(to_master) \in Nat /\ Len(to_master) > 0
      /\ Len(to_master') = Len(to_master) - 1
      /\ \A i \in 1..Len(to_master') : to_master'[i] = to_master[i + 1]
      /\ Head(to_master) = to_master[1] /\ Head(to_master) \in Datagram
  BY <1>1
<1>3. ASSUME Len(to_master) = 1 PROVE to_master' = <<>>
  <2>1. to_master' \in Seq(Datagram) /\ Len(to_master') = 0
    BY <1>1, <1>2, <1>3
  <2> QED
    BY <2>1
<1>4. ASSUME NEW u \in Tasks, Unheard(u)
      PROVE  Unheard(u)'
  <2> SUFFICES ASSUME NEW i \in 1..Len(to_master') PROVE to_master'[i].from # u
    BY DEF Unheard
  <2>1. i + 1 \in 1..Len(to_master)
    BY <1>2
  <2> QED
    BY <1>2, <1>4, <2>1 DEF Unheard
<1> QED
  BY <1>2, <1>3, <1>4

\* A login that a step leaves alone stays as it is.
LEMMA InLoginStays ==
  ASSUME NEW t \in Tasks, InLogin(t), UNCHANGED <<to_master, masterVars>>,
         to_client'[t] = to_client[t], state'[t] = state[t]
  PROVE  InLogin(t)'
BY DEF InLogin, RequestWaits, AnswerWaits, NothingWaits, masterVars

LEMMA LoginLeftAlone ==
  ASSUME IInv, Ordered, UNCHANGED <<state, transport, netVars, masterVars>>,
         \A t \in Tasks : transport[t] = "none" => protocol' # t,
         \A t \in Tasks : loop'[t] = "connecting" => loop[t] = "connecting"
  PROVE  Ordered'
<1>1. LoginInOrder'
  BY InLoginStays DEF netVars, Ordered, LoginInOrder
<1>2. NewIsUnheard'
  BY DEF netVars, Ordered, NewIsUnheard, Unheard
<1> QED
  BY <1>1, <1>2 DEF Ordered

\* A session that ends takes its own datagrams from the client's side; those under way
\* to the master, perhaps with an RPTPING or RPTCL behind them, are nobody's.
LEMMA ClosedOrdered ==
  ASSUME IInv, Ordered, NEW t \in Tasks, transport[t] # "none", Disconnect(t),
         UNCHANGED masterVars, protocol' \in {protocol, None},
         \A u \in Tasks : loop'[u] \in {loop[u], "idle"},
         UNCHANGED to_master \/ (transport[t] = "open" /\ \E kind : Sent(t, kind))
  PROVE  Ordered'
<1>t. /\ transport \in [Tasks -> {"none", "open", "closing", "lost"}]
      /\ state \in [Tasks -> SessionStates] /\ to_client \in [Tasks -> Seq(Replies)]
  BY DEF IInv, TypeOK
<1>1. LoginInOrder'
  <2> SUFFICES ASSUME NEW u \in Tasks, transport'[u] = "open", state'[u] # "CONNECTED"
               PROVE  InLogin(u)'
    BY DEF LoginInOrder
  <2>1. u # t /\ transport[u] = "open" /\ state'[u] = state[u] /\ to_client'[u] = to_client[u]
    BY <1>t DEF Disconnect
  <2>2. UNCHANGED to_master
    BY <2>1, OneSocket
  <2> QED
    BY <2>1, <2>2, InLoginStays DEF Ordered, LoginInOrder
<1>2. NewIsUnheard'
  <2> SUFFICES ASSUME NEW u \in Tasks, transport'[u] = "none"
               PROVE  /\ Unheard(u)'
                      /\ protocol' # u
                      /\ loop'[u] = "connecting" => state'[u] = "LOGIN"
    BY DEF NewIsUnheard
  <2>1. u # t /\ transport[u] = "none" /\ state'[u] = state[u]
    BY <1>t DEF Disconnect
  <2>2. Unheard(u) /\ protocol # u /\ (loop[u] = "connecting" => state[u] = "LOGIN")
    BY <2>1 DEF Ordered, NewIsUnheard
  <2>3. Unheard(u)'
    BY <2>1, <2>2, Appended DEF IInv, Unheard
  <2> QED
    BY <2>1, <2>2, <2>3, ConstantsType
<1> QED
  BY <1>1, <1>2 DEF Ordered

\* The answer to the last request is what a session in its login finds.
LEMMA AnswerTaken ==
  ASSUME IInv, Ordered, NEW t \in Tasks, ReceiveRptack(t)
  PROVE  /\ transport[t] = "open" /\ state[t] \in LoginStates
         /\ state[t] = "OPTIONS_SENT" => Options
         /\ to_master = <<>> /\ to_client[t] = <<"RPTACK">>
         /\ master = Reached[RequestOf[state[t]]] /\ master_addr = t
         /\ UNCHANGED <<loop, protocol, masterVars>>
<1>1. /\ transport[t] = "open" /\ to_client[t] # <<>> /\ state[t] # "CONNECTED"
      /\ UNCHANGED <<loop, protocol, masterVars>>
  BY DEF ReceiveRptack, Received, _on_rptack, clientVars
<1>2. InLogin(t) /\ AnswerWaits(t)
  BY <1>1 DEF Ordered, LoginInOrder, InLogin, RequestWaits, NothingWaits
<1> QED
  BY <1>1, <1>2 DEF InLogin, AnswerWaits

LEMMA AnswerOrdered ==
  ASSUME IInv, Ordered, NEW t \in Tasks, ReceiveRptack(t)
  PROVE  Ordered'
<1>a. /\ transport[t] = "open" /\ state[t] \in LoginStates
      /\ state[t] = "OPTIONS_SENT" => Options
      /\ to_master = <<>> /\ to_client[t] = <<"RPTACK">>
      /\ master = Reached[RequestOf[state[t]]] /\ master_addr = t
      /\ UNCHANGED <<loop, protocol, masterVars>>
  BY AnswerTaken
<1>t. /\ transport \in [Tasks -> {"none", "open", "closing", "lost"}]
      /\ state \in [Tasks -> SessionStates] /\ to_client \in [Tasks -> Seq(Replies)]
  BY DEF IInv, TypeOK
<1>1. ASSUME NEW u \in Tasks, u # t
      PROVE  /\ transport'[u] # "open"
             /\ transport'[u] = "none" =>
                  Unheard(u)' /\ protocol' # u /\ (loop'[u] = "connecting" => state'[u] = "LOGIN")
  <2>1. /\ transport[u] \notin {"open", "closing"} /\ loop[u] = "idle"
        /\ transport'[u] = transport[u]
    BY <1>1, <1>a, <1>t, OneSocket DEF ReceiveRptack, _on_rptack, Request, BecomeConnected
  <2>2. UNCHANGED to_master \/ \E kind : Sent(t, kind)
    BY DEF ReceiveRptack, _on_rptack, Request, BecomeConnected
  <2>3. Unheard(u) => Unheard(u)'
    BY <1>1, <2>2, Appended DEF IInv, Unheard
  <2> QED
    BY <1>a, <2>1, <2>3 DEF Ordered, NewIsUnheard
<1>2. transport'[t] # "none"
  BY <1>a, <1>t DEF ReceiveRptack, _on_rptack, Request, BecomeConnected
<1>3. ASSUME NEW kind, NEW next, Request(t, kind, next), next \in LoginStates \ {"LOGIN"},
             next = "OPTIONS_SENT" => Options,
             kind = RequestOf[next], master \in Awaiting[kind]
      PROVE  transport'[t] = "open" => InLogin(t)'
  <2> SUFFICES ASSUME transport'[t] = "open" PROVE InLogin(t)'
    OBVIOUS
  <2>1. /\ Sent(t, kind) /\ to_client' = [to_client EXCEPT ![t] = Tail(@)]
        /\ state'[t] = next
    BY <1>3, <1>t DEF Request
  <2>2. to_client'[t] = <<>> /\ Len(to_master) = 0
    BY <1>a, <1>t, <2>1
  <2>3. /\ Len(to_master') = 1
        /\ to_master'[Len(to_master')] = [from |-> t, kind |-> kind]
    BY <2>1, <2>2, Appended DEF IInv
  <2>4. RequestWaits(t)'
    BY <1>3, <1>a, <2>1, <2>2, <2>3 DEF RequestWaits, masterVars
  <2> QED
    BY <1>3, <2>1, <2>4 DEF InLogin
<1>4. transport'[t] = "open" => state'[t] = "CONNECTED" \/ InLogin(t)'
  <2>1. CASE state[t] = "LOGIN" /\ Request(t, "RPTK", "AUTH_SENT")
    BY <1>a, <1>3, <2>1 DEF RequestOf, LoginStates, Awaiting, Reached
  <2>2. CASE state[t] = "AUTH_SENT" /\ Request(t, "RPTC", "CONFIG_SENT")
    BY <1>a, <1>3, <2>2 DEF RequestOf, LoginStates, Awaiting, Reached
  <2>3. CASE state[t] = "CONFIG_SENT" /\ Options /\ Request(t, "RPTO", "OPTIONS_SENT")
    BY <1>a, <1>3, <2>3 DEF RequestOf, LoginStates, Awaiting, Reached
  <2>4. CASE BecomeConnected(t)
    BY <1>t, <2>4 DEF BecomeConnected
  <2> QED
    BY <2>1, <2>2, <2>3, <2>4 DEF ReceiveRptack, _on_rptack
<1> QED
  BY <1>1, <1>2, <1>4 DEF Ordered, LoginInOrder, NewIsUnheard

LEMMA SessionOrdered ==
  ASSUME IInv, Ordered, NEW t \in Tasks,
         ReceiveEnd(t) \/ _on_mstpong(t) \/ error_received(t) \/ Keepalive(t)
  PROVE  Ordered'
<1>1. UNCHANGED <<loop, protocol, masterVars>>
  BY DEF ReceiveEnd, Received, _on_mstpong, error_received, Keepalive, clientVars
<1>2. CASE ReceiveEnd(t) \/ error_received(t)
  BY <1>1, <1>2, ClosedOrdered DEF ReceiveEnd, Received, error_received, DisconnectAndReport
<1>3. CASE Keepalive(t)
  <2>0. ping[t] # NoTimer
    <3>1. ping[t] = 0
      BY <1>3 DEF Keepalive
    <3> QED
      BY <3>1 DEF NoTimer
  <2>1. state[t] = "CONNECTED" /\ transport[t] = "open"
    BY <2>0 DEF IInv, TypeOK, Looped, Served
  <2>2. CASE Disconnect(t)
    BY <1>1, <1>3, <2>1, <2>2, ClosedOrdered DEF Keepalive
  <2>3. CASE Sent(t, "RPTPING") /\ UNCHANGED <<state, transport, to_client>>
    <3>1. LoginInOrder'
      BY <2>1, <2>3, OneSocket DEF LoginInOrder
    <3>2. NewIsUnheard'
      BY <1>1, <2>1, <2>3, Appended DEF IInv, Ordered, NewIsUnheard
    <3> QED
      BY <3>1, <3>2 DEF Ordered
  <2> QED
    BY <1>3, <2>2, <2>3 DEF Keepalive, DisconnectAndReport
<1>4. CASE _on_mstpong(t)
  <2>1. /\ transport[t] = "open" /\ to_client[t] # <<>> /\ Head(to_client[t]) = "MSTPONG"
        /\ UNCHANGED <<to_master, state, transport>>
        /\ \A u \in Tasks : u # t => to_client'[u] = to_client[u]
    BY <1>4 DEF _on_mstpong, Received, IInv, TypeOK
  <2>2. state[t] = "CONNECTED"
    <3>1. ~AnswerWaits(t)
      BY <2>1 DEF AnswerWaits
    <3> QED
      BY <2>1, <3>1 DEF Ordered, LoginInOrder, InLogin, RequestWaits, NothingWaits
  <2>3. LoginInOrder'
    BY <2>1, <2>2, OneSocket DEF LoginInOrder
  <2>4. NewIsUnheard'
    BY <1>1, <2>1 DEF Ordered, NewIsUnheard, Unheard
  <2> QED
    BY <2>3, <2>4 DEF Ordered
<1> QED
  BY <1>2, <1>3, <1>4

LEMMA LoopOrdered ==
  ASSUME IInv, Ordered, NEW t \in Tasks, running = "running",
         \/ ConnectLoop(t) \/ connection_made(t) \/ Resume(t) \/ connection_lost(t)
         \/ SessionOver(t) \/ EndpointFails(t)
  PROVE  Ordered'
<1>t. /\ transport \in [Tasks -> {"none", "open", "closing", "lost"}]
      /\ state \in [Tasks -> SessionStates] /\ to_client \in [Tasks -> Seq(Replies)]
      /\ loop \in [Tasks -> {"idle", "testing", "connecting", "waiting", "sleeping"}]
      /\ to_master \in Seq(Datagram)
  BY DEF IInv, TypeOK
<1>1. CASE Resume(t)
  BY <1>t, <1>1, LoginLeftAlone DEF Resume, sessionVars, netVars, masterVars, Ordered, NewIsUnheard
<1>2. CASE SessionOver(t) \/ EndpointFails(t)
  BY <1>t, <1>2, LoginLeftAlone DEF SessionOver, EndpointFails, Pause, sessionVars, netVars,
       masterVars, Ordered, NewIsUnheard
<1>3. CASE ConnectLoop(t) /\ ~active
  BY <1>t, <1>3, LoginLeftAlone DEF ConnectLoop, netVars, masterVars, Ordered, NewIsUnheard
<1>4. CASE ConnectLoop(t) /\ active
  <2>1. \A u \in Tasks : transport[u] # "open"
    BY <1>4 DEF ConnectLoop, IInv, Looped, OneLoop, SocketOfLoop
  <2>2. /\ state' = [state EXCEPT ![t] = "LOGIN"]
        /\ transport' = [transport EXCEPT ![t] = "none"]
        /\ protocol' = IF protocol = t THEN None ELSE protocol
        /\ loop' = [loop EXCEPT ![t] = "connecting"]
        /\ to_master' = [i \in DOMAIN to_master |->
                           [to_master[i] EXCEPT !.from = IF @ = t THEN None ELSE @]]
    BY <1>4 DEF ConnectLoop
  <2>3. /\ DOMAIN to_master = 1..Len(to_master) /\ Len(to_master) \in Nat
        /\ to_master' \in Seq(Datagram) /\ DOMAIN to_master' = 1..Len(to_master')
    BY <1>t, <1>4, ConnectLoopStep DEF IInv, TypeOK
  <2>4. Len(to_master') = Len(to_master)
    BY <2>2, <2>3
  <2>5. \A i \in 1..Len(to_master) : to_master'[i].from = IF to_master[i].from = t THEN None
                                                       ELSE to_master[i].from
    BY <1>t, <2>2, <2>3 DEF Datagram
  <2>6. LoginInOrder'
    BY <1>t, <2>1, <2>2 DEF LoginInOrder
  <2>7. ASSUME NEW u \in Tasks, transport'[u] = "none"
        PROVE  /\ Unheard(u)'
               /\ protocol' # u
               /\ loop'[u] = "connecting" => state'[u] = "LOGIN"
    <3>1. CASE u = t
      BY <1>t, <2>2, <2>4, <2>5, <3>1, ConstantsType DEF Unheard
    <3>2. CASE u # t
      <4>1. Unheard(u) /\ protocol # u /\ (loop[u] = "connecting" => state[u] = "LOGIN")
        BY <1>t, <2>2, <2>7, <3>2 DEF Ordered, NewIsUnheard
      <4> QED
        BY <1>t, <2>2, <2>4, <2>5, <3>2, <4>1, ConstantsType DEF Unheard
    <3> QED
      BY <3>1, <3>2
  <2> QED
    BY <2>6, <2>7 DEF Ordered, NewIsUnheard
<1>5. CASE connection_made(t)
  <2>1. /\ loop[t] = "connecting" /\ transport[t] = "none"
        /\ UNCHANGED <<loop, protocol, to_client, masterVars>>
    BY <1>5 DEF connection_made, clientVars
  <2>2. Unheard(t) /\ protocol # t /\ state[t] = "LOGIN" /\ to_client[t] = <<>>
    BY <2>1 DEF Ordered, NewIsUnheard, IInv, TypeOK
  <2>3. \A u \in Tasks : transport[u] # "open"
    BY <2>1 DEF IInv, Looped, OneLoop, SocketOfLoop
  <2>4. CASE /\ Sent(t, "RPTL") /\ transport' = [transport EXCEPT ![t] = "open"]
             /\ UNCHANGED state
    <3>1. RequestWaits(t)'
      <4>1. /\ Len(to_master) \in Nat /\ Len(to_master') = Len(to_master) + 1
            /\ to_master'[Len(to_master')] = [from |-> t, kind |-> "RPTL"]
            /\ \A i \in 1..Len(to_master) : to_master'[i] = to_master[i]
        BY <2>4, Appended DEF IInv
      <4>2. \A i \in 1..Len(to_master') : i < Len(to_master') => to_master'[i].from # t
        BY <2>2, <4>1 DEF Unheard
      <4> QED
        BY <2>1, <2>2, <2>4, <4>1, <4>2 DEF RequestWaits, RequestOf
    <3>2. LoginInOrder'
      BY <1>t, <2>2, <2>3, <2>4, <3>1 DEF LoginInOrder, InLogin, LoginStates
    <3>3. NewIsUnheard'
      BY <1>t, <2>1, <2>4, Appended DEF IInv, Ordered, NewIsUnheard
    <3> QED
      BY <3>2, <3>3 DEF Ordered
  <2>5. CASE /\ transport' = [transport EXCEPT ![t] = "closing"]
             /\ state' = [state EXCEPT ![t] = "DISCONNECTED"]
             /\ UNCHANGED to_master
    <3>1. LoginInOrder'
      BY <1>t, <2>3, <2>5 DEF LoginInOrder
    <3>2. NewIsUnheard'
      BY <1>t, <2>1, <2>5 DEF Ordered, NewIsUnheard, Unheard
    <3> QED
      BY <3>1, <3>2 DEF Ordered
  <2> QED
    BY <1>5, <2>4, <2>5 DEF connection_made
<1>6. CASE connection_lost(t)
  <2>1. /\ transport[t] = "closing" /\ transport' = [transport EXCEPT ![t] = "lost"]
        /\ protocol' = None /\ UNCHANGED <<loop, state, netVars, masterVars>>
    BY <1>6 DEF connection_lost
  <2>2. LoginInOrder'
    BY <1>t, <2>1, OneSocket DEF LoginInOrder
  <2>3. NewIsUnheard'
    BY <1>t, <2>1, ConstantsType DEF Ordered, NewIsUnheard, Unheard, netVars
  <2> QED
    BY <2>2, <2>3 DEF Ordered
<1> QED
  BY <1>1, <1>2, <1>3, <1>4, <1>5, <1>6

LEMMA ClientOrdered ==
  ASSUME IInv, Ordered, start \/ PeerRegistered \/ PeerLost \/ stop
  PROVE  Ordered'
<1>1. CASE start \/ PeerRegistered
  <2>1. UNCHANGED <<protocol, sessionVars, netVars, masterVars>>
    BY <1>1 DEF start, PeerRegistered
  <2>2. \A t \in Tasks : loop'[t] = "connecting" => loop[t] = "connecting"
    BY <1>1 DEF start, PeerRegistered, Activate, NewTask, IInv, TypeOK
  <2> QED
    BY <2>1, <2>2, LoginLeftAlone DEF sessionVars, Ordered, NewIsUnheard
<1>2. CASE PeerLost /\ ~Tracking
  BY <1>2, LoginLeftAlone DEF PeerLost, sessionVars, netVars, Ordered, NewIsUnheard
<1>3. CASE (PeerLost /\ Tracking) \/ stop
  <2>1. /\ CloseCleanly
        /\ UNCHANGED <<protocol, masterVars>>
        /\ \A u \in Tasks : loop'[u] \in {loop[u], "idle"}
    BY <1>3 DEF PeerLost, stop
  <2>2. CASE protocol = None
    BY <2>1, <2>2, LoginLeftAlone, ConstantsType DEF CloseCleanly
  <2>3. CASE protocol # None
    <3>1. protocol \in Tasks /\ Disconnect(protocol) /\ transport[protocol] # "none"
      BY <2>1, <2>3 DEF CloseCleanly, IInv, TypeOK, Ordered, NewIsUnheard
    <3>2. \/ UNCHANGED to_master
          \/ transport[protocol] = "open" /\ \E kind : Sent(protocol, kind)
      BY <2>1, <2>3, <3>1 DEF CloseCleanly, IInv, Looped, Served
    <3> QED
      BY <2>1, <3>1, <3>2, ClosedOrdered
  <2> QED
    BY <2>2, <2>3
<1> QED
  BY <1>1, <1>2, <1>3

\* The master reads one datagram: an older one, which leaves the login's request waiting,
\* or that request, which it accepts.
LEMMA MasterOrdered ==
  ASSUME IInv, Ordered, MasterReceives
  PROVE  Ordered'
<1> DEFINE d == Head(to_master)
<1>1. /\ to_master # <<>> /\ to_master' = Tail(to_master)
      /\ MasterAnswers(d) \/ MasterIgnores(d)
      /\ UNCHANGED <<loop, protocol, state, transport>>
  BY DEF MasterReceives, clientVars, sessionVars
<1>2. /\ Len(to_master) \in Nat /\ Len(to_master) > 0
      /\ Len(to_master') = Len(to_master) - 1
      /\ \A i \in 1..Len(to_master') : to_master'[i] = to_master[i + 1]
      /\ Len(to_master) = 1 => to_master' = <<>>
      /\ d = to_master[1] /\ d \in Datagram
      /\ \A u \in Tasks : Unheard(u) => Unheard(u)'
  BY <1>1, Shifted DEF IInv
<1> HIDE DEF d
<1>t. to_client \in [Tasks -> Seq(Replies)] /\ master \in MasterStates
  BY DEF IInv, TypeOK
<1>3. ASSUME NEW u \in Tasks, d.from # u
      PROVE  to_client'[u] = to_client[u]
  BY <1>1, <1>3, <1>t DEF MasterAnswers, MasterIgnores, Reply
<1>4. ASSUME NEW t \in Tasks, transport'[t] = "open", state'[t] # "CONNECTED"
      PROVE  InLogin(t)'
  <2>1. transport[t] = "open" /\ state[t] # "CONNECTED" /\ state'[t] = state[t]
    BY <1>1, <1>4
  <2>2. InLogin(t) /\ RequestWaits(t)
    BY <1>1, <2>1 DEF Ordered, LoginInOrder, InLogin, AnswerWaits, NothingWaits
  <2>3. CASE Len(to_master) = 1
    <3>1. d = [from |-> t, kind |-> RequestOf[state[t]]] /\ to_master' = <<>>
      BY <1>2, <2>2, <2>3 DEF RequestWaits
    <3>2. /\ d.from = t /\ d.kind = RequestOf[state[t]] /\ d.kind \in Handshake
          /\ master \in Awaiting[d.kind]
      <4>1. state[t] \in LoginStates
        BY <2>2 DEF InLogin
      <4>2. d.from = t /\ d.kind = RequestOf[state[t]] /\ d.kind \in Handshake
        BY <3>1, <4>1 DEF RequestOf, LoginStates, Handshake
      <4>3. state[t] = "LOGIN" => Awaiting[d.kind] = MasterStates
        BY <4>2 DEF RequestOf, Awaiting
      <4> QED
        BY <1>t, <2>2, <4>2, <4>3 DEF RequestWaits
    <3>3. MasterAnswers(d) /\ master_addr' = t /\ Reply(t, "RPTACK") /\ master' = Reached[d.kind]
      BY <1>1, <3>2 DEF MasterAnswers, MasterIgnores, Handshake
    <3>4. to_client'[t] = <<"RPTACK">>
      <4>1. to_client' = [to_client EXCEPT ![t] = Append(@, "RPTACK")] /\ to_client[t] = <<>>
        BY <2>1, <2>2, <3>3 DEF Reply, RequestWaits
      <4> QED
        BY <1>t, <4>1
    <3> QED
      BY <2>1, <2>2, <3>1, <3>2, <3>3, <3>4 DEF InLogin, AnswerWaits
  <2>4. CASE Len(to_master) # 1
    <3>1. state[t] = "LOGIN" /\ d.from # t
      BY <1>2, <2>2, <2>4 DEF RequestWaits
    <3>2. to_client'[t] = <<>>
      BY <1>3, <2>2, <3>1 DEF RequestWaits
    <3>3. /\ Len(to_master') > 0
          /\ to_master'[Len(to_master')] = [from |-> t, kind |-> RequestOf[state[t]]]
          /\ \A i \in 1..Len(to_master') : i < Len(to_master') => to_master'[i].from # t
      BY <1>2, <2>2, <2>4 DEF RequestWaits
    <3> QED
      BY <2>1, <2>2, <3>1, <3>2, <3>3 DEF InLogin, RequestWaits
  <2> QED
    BY <2>3, <2>4
<1>5. NewIsUnheard'
  BY <1>1, <1>2 DEF Ordered, NewIsUnheard
<1> QED
  BY <1>4, <1>5 DEF Ordered, LoginInOrder

LEMMA LoseOrdered ==
  ASSUME IInv, Ordered, Lose
  PROVE  Ordered'
<1>1. UNCHANGED <<loop, protocol, state, transport, masterVars>>
  BY DEF Lose, clientVars, sessionVars
<1>2. CASE to_master # <<>> /\ to_master' = Tail(to_master) /\ UNCHANGED to_client
  <2>1. /\ Len(to_master) \in Nat /\ Len(to_master) > 0
        /\ Len(to_master') = Len(to_master) - 1
        /\ \A i \in 1..Len(to_master') : to_master'[i] = to_master[i + 1]
        /\ Len(to_master) = 1 => to_master' = <<>>
        /\ \A u \in Tasks : Unheard(u) => Unheard(u)'
    BY <1>2, Shifted DEF IInv
  <2>2. ASSUME NEW t \in Tasks, transport'[t] = "open", state'[t] # "CONNECTED"
        PROVE  InLogin(t)'
    <3>1. InLogin(t) /\ RequestWaits(t) /\ state'[t] = state[t]
      BY <1>1, <1>2, <2>2 DEF Ordered, LoginInOrder, InLogin, AnswerWaits, NothingWaits
    <3>2. CASE Len(to_master) = 1
      BY <1>2, <2>1, <3>1, <3>2 DEF InLogin, RequestWaits, NothingWaits
    <3>3. CASE Len(to_master) # 1
      <4>1. /\ Len(to_master') > 0
            /\ to_master'[Len(to_master')] = [from |-> t, kind |-> RequestOf[state[t]]]
            /\ \A i \in 1..Len(to_master') : i < Len(to_master') => to_master'[i].from # t
        BY <2>1, <3>1, <3>3 DEF RequestWaits
      <4>2. state[t] = "LOGIN"
        BY <3>1, <3>3 DEF RequestWaits
      <4> QED
        BY <1>2, <3>1, <4>1, <4>2 DEF InLogin, RequestWaits
    <3> QED
      BY <3>2, <3>3
  <2>3. NewIsUnheard'
    BY <1>1, <2>1 DEF Ordered, NewIsUnheard
  <2> QED
    BY <2>2, <2>3 DEF Ordered, LoginInOrder
<1>3. CASE /\ UNCHANGED to_master
           /\ \E t \in Tasks : /\ to_client[t] # <<>>
                               /\ to_client' = [to_client EXCEPT ![t] = Tail(@)]
  <2>1. PICK t \in Tasks : /\ to_client[t] # <<>>
                           /\ to_client' = [to_client EXCEPT ![t] = Tail(@)]
    BY <1>3
  <2>t. to_client \in [Tasks -> Seq(Replies)]
    BY DEF IInv, TypeOK
  <2>2. ASSUME NEW u \in Tasks, transport'[u] = "open", state'[u] # "CONNECTED"
        PROVE  InLogin(u)'
    <3>1. InLogin(u) /\ state'[u] = state[u]
      BY <1>1, <2>2 DEF Ordered, LoginInOrder
    <3>2. CASE u # t
      BY <1>1, <1>3, <2>1, <2>t, <3>1, <3>2, InLoginStays
    <3>3. CASE u = t
      <4>1. AnswerWaits(t)
        BY <2>1, <3>1, <3>3 DEF InLogin, RequestWaits, NothingWaits
      <4>2. to_client'[t] = <<>>
        BY <2>1, <2>t, <4>1 DEF AnswerWaits
      <4> QED
        BY <1>3, <3>1, <3>3, <4>1, <4>2 DEF InLogin, AnswerWaits, NothingWaits
    <3> QED
      BY <3>2, <3>3
  <2>3. NewIsUnheard'
    BY <1>1, <1>3 DEF Ordered, NewIsUnheard, Unheard
  <2> QED
    BY <2>2, <2>3 DEF Ordered, LoginInOrder
<1> QED
  BY <1>2, <1>3 DEF Lose

LEMMA NextOrdered ==
  ASSUME Faults \cap {"MSTNAK", "MSTCL"} = {}
  PROVE  IInv /\ Ordered /\ [Next]_vars => Ordered'
<1> SUFFICES ASSUME IInv, Ordered, [Next]_vars PROVE Ordered'
  OBVIOUS
<1>1. ASSUME NEW t \in Tasks, running = "running",
             EventLoop(t) \/ EndpointFails(t) \/ error_received(t)
      PROVE  Ordered'
  BY <1>1, LoopOrdered, SessionOrdered, AnswerOrdered DEF EventLoop
<1>2. CASE Tick \/ UNCHANGED vars
  BY <1>2, LoginLeftAlone DEF Tick, vars, clientVars, sessionVars, netVars, masterVars, Ordered,
       NewIsUnheard
<1>3. ~MasterEnds
  BY DEF MasterEnds
<1> QED
  BY <1>1, <1>2, <1>3, ClientOrdered, MasterOrdered, LoseOrdered DEF Next

\* Only one step makes a session connected.
LEMMA BecomesConnected ==
  ASSUME IInv, [Next]_vars, NEW t \in Tasks, state[t] # "CONNECTED", state'[t] = "CONNECTED"
  PROVE  ReceiveRptack(t) /\ BecomeConnected(t)
<1>t. state \in [Tasks -> SessionStates]
  BY DEF IInv, TypeOK
<1>1. ASSUME NEW u \in Tasks, Disconnect(u) PROVE FALSE
  BY <1>t, <1>1 DEF Disconnect
<1>2. state' # state
  OBVIOUS
<1>3. ~(start \/ PeerRegistered \/ Tick \/ MasterReceives \/ MasterEnds \/ Lose \/ UNCHANGED vars)
  BY <1>2 DEF start, PeerRegistered, Tick, MasterReceives, MasterEnds, Lose, vars, sessionVars
<1>4. ~(PeerLost \/ stop)
  BY <1>1, <1>2 DEF PeerLost, stop, CloseCleanly, sessionVars, IInv, TypeOK
<1>5. PICK u \in Tasks : EventLoop(u) \/ EndpointFails(u) \/ error_received(u)
  BY <1>3, <1>4 DEF Next
<1>6. ~(Resume(u) \/ connection_lost(u) \/ SessionOver(u) \/ EndpointFails(u) \/ _on_mstpong(u))
  BY <1>2 DEF Resume, connection_lost, SessionOver, EndpointFails, _on_mstpong, sessionVars
<1>7. ~(ConnectLoop(u) \/ connection_made(u))
  BY <1>t, <1>2 DEF ConnectLoop, connection_made
<1>8. ~(ReceiveEnd(u) \/ error_received(u) \/ Keepalive(u))
  BY <1>1, <1>2 DEF ReceiveEnd, error_received, Keepalive, DisconnectAndReport
<1>9. ReceiveRptack(u)
  BY <1>5, <1>6, <1>7, <1>8 DEF EventLoop
<1>10. u = t /\ BecomeConnected(u)
  BY <1>t, <1>9 DEF ReceiveRptack, _on_rptack, Request, BecomeConnected
<1> QED
  BY <1>9, <1>10

\* Unless the master itself ends it with MSTNAK or MSTCL, a session counts as connected
\* only when the master has accepted its configuration and its options, if it has any:
\* no RPTACK is taken for the answer to another request, whatever is lost, whichever send
\* fails and however late the datagrams of earlier sessions are.
THEOREM ConnectedWasAccepted ==
  ASSUME Faults \cap {"MSTNAK", "MSTCL"} = {}
  PROVE  Spec => ConnectedIsAccepted
<1>1. IInv /\ Ordered /\ [Next]_vars => Ordered'
  BY NextOrdered
<1>2. IInv /\ Ordered /\ [Next]_vars
        => [\A t \in Tasks : state[t] # "CONNECTED" /\ state'[t] = "CONNECTED" =>
              master = (IF Options THEN "CONNECTED" ELSE "WAIT_RPTO") /\ master_addr = t]_vars
  <2> SUFFICES ASSUME IInv, Ordered, [Next]_vars,
                      NEW t \in Tasks, state[t] # "CONNECTED", state'[t] = "CONNECTED"
               PROVE  master = (IF Options THEN "CONNECTED" ELSE "WAIT_RPTO") /\ master_addr = t
    OBVIOUS
  <2>1. ReceiveRptack(t) /\ BecomeConnected(t)
    BY BecomesConnected
  <2>2. /\ state[t] = "OPTIONS_SENT" => Options
        /\ master = Reached[RequestOf[state[t]]] /\ master_addr = t
    BY <2>1, AnswerTaken
  <2>3. \/ state[t] = "CONFIG_SENT" /\ ~Options
        \/ state[t] = "OPTIONS_SENT"
    <3>1. ASSUME NEW kind, NEW next \in {"AUTH_SENT", "CONFIG_SENT", "OPTIONS_SENT"},
                 Request(t, kind, next)
          PROVE  FALSE
      BY <3>1 DEF Request, IInv, TypeOK
    <3> QED
      BY <2>1, <3>1 DEF ReceiveRptack, _on_rptack
  <2> QED
    BY <2>2, <2>3 DEF RequestOf, Reached
<1> QED
  BY <1>1, <1>2, InitOrdered, AlwaysIInv, PTL DEF Spec, ConnectedIsAccepted
=============================================================================
