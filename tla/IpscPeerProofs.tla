--------------------------- MODULE IpscPeerProofs ---------------------------
(***************************************************************************)
(* Proofs about IpscPeer: type correctness, that the endpoint implements   *)
(* the contract IpscLink, and by how much the watchdog, which measures     *)
(* time, may get ahead of the maintenance loop, which asks.                *)
(***************************************************************************)
EXTENDS IpscPeer, TLAPS

LEMMA ConstantsType ==
  /\ AliveInterval \in Nat /\ AliveInterval > 0
  /\ MaxMissed \in Nat /\ MaxMissed > 0
  /\ MaxLag \in Nat
  /\ Timeout \in Nat
BY PeerAssumption DEF Timeout

LEMMA EndpointType ==
  /\ \A e \in Endpoints : e.id \in Src /\ e.addr \in Addr
  /\ Masters \subseteq Endpoints
  /\ MasterHost \in Hosts /\ MasterPort \in Ports
BY PeerAssumption

LEMMA ListType ==
  ASSUME NEW list \in Lists, NEW id \in DOMAIN list
  PROVE  list[id] \in Addr
<1>1. PICK D \in SUBSET Ids : list \in [D -> Addr]
  BY PeerAssumption
<1> QED
  BY <1>1

LEMMA MasterAddrType == \A p \in Ports : MasterAddr(p) \in Addr
BY EndpointType DEF MasterAddr, Addr

LEMMA DatagramType ==
  ASSUME NEW op \in SentOps, NEW a \in Addr
  PROVE  Datagram(op, a) \in [op : SentOps, to : Addr]
BY DEF Datagram

LEMMA EntryType ==
  ASSUME TypeOK, NEW id \in Ids
  PROVE  /\ peers[id] = None \/ peers[id] \in Entry
         /\ id \in Known => peers[id] \in Entry
         /\ id \in Connected => peers[id].addr \in Addr
BY DEF TypeOK, Known, Connected, Entry

LEMMA NewEntryType ==
  ASSUME NEW a \in Addr, NEW listed \in BOOLEAN
  PROVE  NewEntry(a, listed) \in Entry
BY ConstantsType DEF NewEntry, Entry

LEMMA ResetType ==
  ASSUME NEW p \in Entry, NEW connected \in BOOLEAN
  PROVE  [p EXCEPT !.connected = connected, !.outstanding = 0] \in Entry
<1>1. 0 \in 0..MaxMissed+1
  BY ConstantsType
<1> QED
  BY <1>1 DEF Entry

LEMMA CapType == \A n \in Nat : Cap(n) \in 0..MaxMissed+1
BY ConstantsType DEF Cap

LEMMA InitTypeOK == Init => TypeOK
<1> SUFFICES ASSUME Init PROVE TypeOK
  OBVIOUS
<1>1. peers \in [Ids -> Entry \cup {None}]
  BY DEF Init
<1>2. /\ MasterId \in Src /\ MasterPort \in Ports
      /\ 0 \in 0..Timeout+1 /\ 0 \in 0..MaxMissed+1 /\ AliveInterval \in -MaxLag..AliveInterval
  BY PeerAssumption, ConstantsType
<1> QED
  BY <1>1, <1>2 DEF Init, TypeOK

-----------------------------------------------------------------------------
(***************************************************************************)
(* Datagrams from the master.                                              *)
(***************************************************************************)
LEMMA TouchType ==
  ASSUME TypeOK, NEW src \in Src, NEW a \in Addr, _touch_master(src, a)
  PROVE  /\ master_id' \in Src
         /\ master_port' \in Ports
         /\ rx_age' \in 0..Timeout+1
         /\ outstanding' \in 0..MaxMissed+1
BY ConstantsType DEF _touch_master, TypeOK, Addr

LEMMA ClearedType ==
  ASSUME TypeOK, _clear_master_registration
  PROVE  /\ registered' = FALSE /\ reg_reported' = FALSE /\ peer_list_seen' = FALSE
         /\ outstanding' \in 0..MaxMissed+1
         /\ peers' \in [Ids -> Entry \cup {None}]
         /\ callback' = "peer_lost"
<1>1. ASSUME NEW id \in Ids, peers[id] # None
      PROVE  [peers[id] EXCEPT !.connected = FALSE, !.outstanding = 0] \in Entry
  <2>1. peers[id] \in Entry
    BY <1>1, EntryType
  <2> QED
    BY <2>1, ResetType
<1>2. 0 \in 0..MaxMissed+1
  BY ConstantsType
<1> QED
  BY <1>1, <1>2 DEF _clear_master_registration

LEMMA ListedType ==
  ASSUME TypeOK, NEW src \in Src, NEW a \in Addr, NEW list \in Lists,
         _on_peer_list_reply(src, a, list)
  PROVE  peers' \in [Ids -> Entry \cup {None}]
<1>1. ASSUME NEW id \in Ids, id \in DOMAIN list, peers[id] # None
      PROVE  [peers[id] EXCEPT !.addr = list[id], !.listed = TRUE] \in Entry
  BY <1>1, EntryType, ListType DEF Entry
<1>2. ASSUME NEW id \in Ids, id \in DOMAIN list
      PROVE  NewEntry(list[id], TRUE) \in Entry
  BY <1>2, NewEntryType, ListType
<1>3. \A id \in Ids : peers[id] \in Entry \cup {None}
  BY EntryType
<1> QED
  BY <1>1, <1>2, <1>3 DEF _on_peer_list_reply

LEMMA AnswerType ==
  ASSUME TypeOK, NEW src \in Src, NEW a \in Addr, Answer(src, a)
  PROVE  TypeOK'
<1>1. /\ _touch_master(src, a)
      /\ UNCHANGED <<running, maint>>
  BY DEF Answer, _on_master_reg_reply, _on_master_alive_reply, _on_peer_list_reply, MasterSpeaks
<1>2. /\ master_id' \in Src /\ master_port' \in Ports
      /\ rx_age' \in 0..Timeout+1 /\ outstanding' \in 0..MaxMissed+1
  BY <1>1, TouchType
<1>3. /\ Datagram("PEER_LIST_REQ", a) \in [op : SentOps, to : Addr]
      /\ Datagram("MASTER_REG_REQ", a) \in [op : SentOps, to : Addr]
  BY DatagramType DEF SentOps
<1>4. CASE _on_master_reg_reply(src, a)
  BY <1>1, <1>2, <1>3, <1>4 DEF _on_master_reg_reply, TypeOK
<1>5. CASE _on_master_alive_reply(src, a)
  BY <1>1, <1>2, <1>3, <1>5 DEF _on_master_alive_reply, TypeOK
<1>6. CASE \E list \in Lists : _on_peer_list_reply(src, a, list)
  <2>1. PICK list \in Lists : _on_peer_list_reply(src, a, list)
    BY <1>6
  <2>2. peers' \in [Ids -> Entry \cup {None}]
    BY <2>1, ListedType
  <2> QED
    BY <1>1, <1>2, <2>1, <2>2 DEF _on_peer_list_reply, Quiet, TypeOK
<1> QED
  BY <1>4, <1>5, <1>6 DEF Answer

LEMMA FromMasterType ==
  ASSUME TypeOK, NEW src \in Src, NEW a \in Addr, FromMaster(src, a)
  PROVE  TypeOK'
<1>1. /\ _touch_master(src, a)
      /\ UNCHANGED <<running, maint>>
  BY DEF FromMaster, MasterVoice, MasterHeard, MasterDeregisters, MasterSpeaks
<1>2. /\ master_id' \in Src /\ master_port' \in Ports
      /\ rx_age' \in 0..Timeout+1 /\ outstanding' \in 0..MaxMissed+1
  BY <1>1, TouchType
<1>3. CASE MasterVoice(src, a) \/ MasterHeard(src, a)
  BY <1>1, <1>2, <1>3 DEF MasterVoice, MasterHeard, Quiet, TypeOK
<1>4. CASE MasterDeregisters(src, a)
  BY <1>1, <1>2, <1>4, ClearedType DEF MasterDeregisters, TypeOK
<1> QED
  BY <1>3, <1>4 DEF FromMaster

-----------------------------------------------------------------------------
(***************************************************************************)
(* Datagrams from the peers, and the loops.                                *)
(***************************************************************************)
LEMMA TouchPeerType ==
  ASSUME TypeOK, NEW src \in Ids, NEW a \in Addr
  PROVE  _touch_peer(src, a) \in Entry
<1>1. ASSUME peers[src] # None PROVE [peers[src] EXCEPT !.addr = a] \in Entry
  <2>1. peers[src] \in Entry
    BY <1>1, EntryType
  <2> QED
    BY <2>1 DEF Entry
<1>2. NewEntry(a, FALSE) \in Entry
  BY NewEntryType
<1> QED
  BY <1>1, <1>2 DEF _touch_peer

LEMMA FromPeerType ==
  ASSUME TypeOK, NEW src \in Src, NEW a \in Addr, FromPeer(src, a)
  PROVE  TypeOK'
<1>1. /\ src \in Ids
      /\ UNCHANGED <<running, maint, masterVars>>
  BY DEF FromPeer, PeerAsks, PeerAnswers, PeerDeregisters, PeerVoice, PeerHeard,
         PeerSpeaks, _accept_or_get_peer, Known
<1>2. peers' \in [Ids -> Entry \cup {None}]
  <2>1. PICK p \in Entry : peers' = [peers EXCEPT ![src] = p]
    <3>1. _touch_peer(src, a) \in Entry
      BY <1>1, TouchPeerType
    <3>2. \A c \in BOOLEAN :
            [_touch_peer(src, a) EXCEPT !.connected = c, !.outstanding = 0] \in Entry
      BY <3>1, ResetType
    <3> QED
      BY <3>1, <3>2 DEF FromPeer, PeerAsks, PeerAnswers, PeerDeregisters, PeerVoice,
                        PeerHeard, Serve
  <2> QED
    BY <1>1, <2>1 DEF TypeOK
<1>3. \A op \in {"DE_REG_REPLY"} \cup PeerReplies :
         Datagram(op, a) \in [op : SentOps, to : Addr]
  BY DatagramType DEF SentOps
<1>4. sent' \subseteq [op : SentOps, to : Addr]
  <2>1. CASE PeerAsks(src, a)
    BY <1>3, <2>1 DEF PeerAsks
  <2>2. CASE PeerDeregisters(src, a)
    BY <1>3, <2>2 DEF PeerDeregisters
  <2>3. CASE PeerAnswers(src, a) \/ PeerVoice(src, a) \/ PeerHeard(src, a)
    BY <2>3 DEF PeerAnswers, PeerVoice, PeerHeard, Quiet
  <2> QED
    BY <2>1, <2>2, <2>3 DEF FromPeer
<1>5. callback' \in {"none", "ipsc_voice_received"}
  BY DEF FromPeer, PeerAsks, PeerAnswers, PeerDeregisters, PeerVoice, PeerHeard, Quiet
<1> QED
  BY <1>1, <1>2, <1>4, <1>5 DEF TypeOK, masterVars

\* The addresses a broadcast goes to.
LEMMA BroadcastType ==
  ASSUME TypeOK, NEW op \in SentOps
  PROVE  {Datagram(op, a) :
            a \in {MasterAddr(master_port)} \cup {peers[id].addr : id \in Connected}}
         \subseteq [op : SentOps, to : Addr]
<1>1. MasterAddr(master_port) \in Addr
  BY MasterAddrType DEF TypeOK
<1>2. \A id \in Connected : peers[id].addr \in Addr
  BY EntryType DEF Connected, Known
<1> QED
  BY <1>1, <1>2, DatagramType

LEMMA MissedType ==
  ASSUME NEW p \in Entry
  PROVE  Missed(p) \in Entry
<1>1. Cap(p.outstanding + 1) \in 0..MaxMissed+1
  BY CapType, ConstantsType DEF Entry
<1>2. (p.connected /\ p.outstanding < MaxMissed) \in BOOLEAN
  OBVIOUS
<1> QED
  BY <1>1, <1>2 DEF Missed, Entry

LEMMA MaintenanceType == TypeOK /\ Maintenance => TypeOK'
<1> SUFFICES ASSUME TypeOK, Maintenance PROVE TypeOK'
  OBVIOUS
<1>1. outstanding' \in 0..MaxMissed+1 /\ maint' \in -MaxLag..AliveInterval
  BY CapType, ConstantsType DEF Maintenance, TypeOK
<1>2. peers' \in [Ids -> Entry \cup {None}]
  <2>1. \A id \in Known : Missed(peers[id]) \in Entry
    BY MissedType, EntryType DEF Known
  <2> QED
    BY <2>1 DEF Maintenance, TypeOK
<1>3. sent' \subseteq [op : SentOps, to : Addr]
  <2>1. \A op \in SentOps, p \in Ports : Datagram(op, MasterAddr(p)) \in [op : SentOps, to : Addr]
    BY DatagramType, MasterAddrType
  <2>2. \A id \in Known : AskOf(id) \in [op : SentOps, to : Addr]
    <3> SUFFICES ASSUME NEW id \in Known PROVE AskOf(id) \in [op : SentOps, to : Addr]
      OBVIOUS
    <3>1. peers[id].addr \in Addr
      BY EntryType DEF Known, Entry
    <3>2. {"PEER_ALIVE_REQ", "PEER_REG_REQ"} \subseteq SentOps
      BY DEF SentOps, PeerRequests
    <3> QED
      BY <3>1, <3>2, DatagramType DEF AskOf
  <2>3. master_port \in Ports /\ MasterPort \in Ports
    BY EndpointType DEF TypeOK
  <2>4. {"MASTER_ALIVE_REQ", "PEER_LIST_REQ", "MASTER_REG_REQ"} \subseteq SentOps
    BY DEF SentOps
  <2>5. CASE registered
    <3>1. PICK ops \in SUBSET {"MASTER_ALIVE_REQ", "PEER_LIST_REQ"} :
            sent' = {Datagram(op, MasterAddr(master_port)) : op \in ops}
                    \cup {AskOf(id) : id \in Known}
      BY <2>5 DEF Maintenance
    <3> QED
      BY <2>1, <2>2, <2>3, <2>4, <3>1
  <2>6. CASE ~registered
    BY <2>1, <2>3, <2>4, <2>6 DEF Maintenance
  <2> QED
    BY <2>5, <2>6
<1> QED
  BY <1>1, <1>2, <1>3 DEF Maintenance, TypeOK

LEMMA NextTypeOK == TypeOK /\ [Next]_vars => TypeOK'
<1> SUFFICES ASSUME TypeOK, [Next]_vars PROVE TypeOK'
  OBVIOUS
<1>1. ASSUME NEW e \in Masters, Answer(e.id, e.addr) PROVE TypeOK'
  BY <1>1, EndpointType, AnswerType
<1>2. ASSUME NEW e \in Endpoints, FromMaster(e.id, e.addr) PROVE TypeOK'
  BY <1>2, EndpointType, FromMasterType
<1>3. ASSUME NEW e \in Endpoints, FromPeer(e.id, e.addr) PROVE TypeOK'
  BY <1>3, EndpointType, FromPeerType
<1>4. CASE connection_made
  <2>1. sent' \subseteq [op : SentOps, to : Addr]
    BY <1>4, DatagramType, MasterAddrType, EndpointType DEF connection_made, SentOps
  <2> QED
    BY <1>4, <2>1 DEF connection_made, TypeOK, masterVars
<1>5. CASE stop
  <2>1. sent' \subseteq [op : SentOps, to : Addr]
    BY <1>5, BroadcastType DEF stop, SentOps
  <2> QED
    BY <1>5, <2>1 DEF stop, TypeOK, masterVars
<1>6. CASE send_to_peer
  <2>1. sent' \subseteq [op : SentOps, to : Addr]
    BY <1>6, BroadcastType DEF send_to_peer, SentOps
  <2> QED
    BY <1>6, <2>1 DEF send_to_peer, TypeOK, masterVars
<1>7. CASE Maintenance
  BY <1>7, MaintenanceType
<1>8. CASE Watchdog
  BY <1>8, ClearedType DEF Watchdog, TypeOK
<1>9. CASE Tick
  BY <1>9, ConstantsType DEF Tick, Quiet, TypeOK
<1>10. CASE UNCHANGED vars
  BY <1>10 DEF vars, masterVars, TypeOK
<1> QED
  BY <1>1, <1>2, <1>3, <1>4, <1>5, <1>6, <1>7, <1>8, <1>9, <1>10 DEF Next

\* The types hold for every set of endpoints and lists, every configuration of the
\* upstream master and all intervals.
THEOREM TypeCorrect == Spec => []TypeOK
<1>1. TypeOK /\ [Next]_vars => TypeOK'
  BY NextTypeOK
<1> QED
  BY InitTypeOK, <1>1, PTL DEF Spec

-----------------------------------------------------------------------------
\* Each step of the endpoint is one of the contract.
LEMMA StepKeepsLink == TypeOK /\ [Next]_vars => [Link!Next]_(Link!linkVars)
<1> SUFFICES ASSUME TypeOK, [Next]_vars PROVE [Link!Next]_(Link!linkVars)
  OBVIOUS
<1> USE DEF Link!Next, Link!linkVars
<1>1. registered \in BOOLEAN /\ reg_reported = registered
  BY DEF TypeOK
<1>2. ASSUME NEW e \in Masters, Answer(e.id, e.addr) PROVE Link!Next
  BY <1>1, <1>2 DEF Answer, _on_master_reg_reply, _on_master_alive_reply,
       _on_peer_list_reply, Quiet, Link!Registered, Link!Quiet
<1>3. ASSUME NEW e \in Endpoints, FromMaster(e.id, e.addr) PROVE Link!Next
  BY <1>1, <1>3 DEF FromMaster, MasterVoice, MasterHeard, MasterDeregisters,
       _clear_master_registration, Quiet, Link!Voice, Link!Lost, Link!Quiet
<1>4. ASSUME NEW e \in Endpoints, FromPeer(e.id, e.addr) PROVE Link!Next
  BY <1>1, <1>4 DEF FromPeer, PeerAsks, PeerAnswers, PeerDeregisters, PeerVoice,
       PeerHeard, PeerSpeaks, masterVars, Quiet, Link!Voice, Link!Quiet
<1>5. CASE connection_made \/ stop \/ send_to_peer \/ Maintenance \/ Tick
  BY <1>5 DEF connection_made, stop, send_to_peer, Maintenance, Tick, masterVars,
       Quiet, Link!Quiet
<1>6. CASE Watchdog
  BY <1>1, <1>6 DEF Watchdog, _clear_master_registration, Link!Lost
<1>7. CASE UNCHANGED vars
  BY <1>7 DEF vars, masterVars
<1> QED
  BY <1>2, <1>3, <1>4, <1>5, <1>6, <1>7 DEF Next

\* The peer endpoint keeps its promise to the translator, whatever the master and the
\* peers send: peer_registered and peer_lost alternate with the answer of
\* is_peer_registered, and voice comes only in between.
THEOREM PeerImplementsLink == Spec => LinkIsKept
<1>1. Init => Link!Init
  BY DEF Init, Link!Init
<1>2. TypeOK /\ [Next]_vars => [Link!Next]_(Link!linkVars)
  BY StepKeepsLink
<1> QED
  BY <1>1, <1>2, TypeCorrect, PTL DEF Spec, LinkIsKept, Link!Spec

-----------------------------------------------------------------------------
(***************************************************************************)
(* The watchdog and the maintenance loop.  While keepalives are counted,   *)
(* the silence is never longer than the turns the loop has made, the       *)
(* current one included, account for, each with its lag.                   *)
(***************************************************************************)
Spell(n) == (n + 1) * AliveInterval + n * MaxLag

SilenceIsCounted ==
  registered /\ outstanding <= MaxMissed => rx_age + maint <= Spell(outstanding)

LEMMA Times == \A i, j \in Nat : i * j \in Nat /\ (i + 1) * j = i * j + j
BY Z3

LEMMA Spells ==
  ASSUME NEW n \in Nat
  PROVE  /\ Spell(n) \in Nat
         /\ Spell(0) = AliveInterval
         /\ Spell(n + 1) = Spell(n) + AliveInterval + MaxLag
<1>1. Spell(n) \in Nat
  BY Times, ConstantsType DEF Spell
<1>2. Spell(0) = AliveInterval
  BY Times, ConstantsType DEF Spell
<1>3. Spell(n + 1) = Spell(n) + AliveInterval + MaxLag
  <2>1. (n + 1 + 1) * AliveInterval = (n + 1) * AliveInterval + AliveInterval
    BY Times, ConstantsType
  <2>2. (n + 1) * MaxLag = n * MaxLag + MaxLag
    BY Times, ConstantsType
  <2>3. (n + 1) * AliveInterval \in Nat /\ n * MaxLag \in Nat
    BY Times, ConstantsType
  <2> QED
    BY <2>1, <2>2, <2>3, ConstantsType DEF Spell
<1> QED
  BY <1>1, <1>2, <1>3

\* Fewer than MaxMissed - 1 keepalives do not last until the timeout.
LEMMA SpellIsShort ==
  ASSUME NEW n \in Nat, n + 1 < MaxMissed, (MaxMissed - 1) * MaxLag < AliveInterval
  PROVE  Spell(n) + MaxLag < Timeout
<1>1. PICK k \in Nat : MaxMissed = n + 1 + 1 + k
  <2>1. MaxMissed - (n + 1 + 1) \in Nat
    BY ConstantsType
  <2> QED
    BY <2>1, ConstantsType
<1> DEFINE A == AliveInterval
           L == MaxLag
<1>2. /\ (n + 1) * A \in Nat /\ k * A \in Nat
      /\ (n + 1) * L \in Nat /\ k * L \in Nat /\ n * L \in Nat
  BY Times, ConstantsType
<1>3. Timeout = (n + 1) * A + A + k * A
  BY <1>1, ConstantsType DEF Timeout
<1>4. (n + 1) * L < A
  <2>1. MaxMissed - 1 = n + 1 + k
    BY <1>1
  <2>2. (MaxMissed - 1) * L = (n + 1) * L + k * L
    BY <2>1, ConstantsType
  <2> QED
    BY <1>2, <2>2, ConstantsType
<1>5. Spell(n) + L = (n + 1) * A + (n + 1) * L
  <2>1. (n + 1) * L = n * L + L
    BY Times, ConstantsType
  <2> QED
    BY <1>2, <2>1, ConstantsType DEF Spell
<1> HIDE DEF A, L
<1>6. A \in Nat /\ L \in Nat
  BY ConstantsType DEF A, L
<1>7. Spell(n) + L < Timeout
  BY <1>2, <1>3, <1>4, <1>5, <1>6
<1> QED
  BY <1>7 DEF L

LEMMA NextSilenceIsCounted ==
  TypeOK /\ TypeOK' /\ SilenceIsCounted /\ [Next]_vars => SilenceIsCounted'
<1> SUFFICES ASSUME TypeOK, TypeOK', SilenceIsCounted, [Next]_vars,
                    registered', outstanding' <= MaxMissed
             PROVE  rx_age' + maint' <= Spell(outstanding')
  BY DEF SilenceIsCounted, Spell
<1>1. /\ outstanding \in Nat /\ rx_age \in Nat /\ maint \in -MaxLag..AliveInterval
      /\ AliveInterval \in Nat /\ MaxMissed \in Nat /\ MaxLag \in Nat
  BY ConstantsType DEF TypeOK
<1>2. ASSUME NEW src \in Src, NEW a \in Addr, _touch_master(src, a), maint' = maint
      PROVE  rx_age' + maint' <= Spell(outstanding')
  <2>1. rx_age' = 0 /\ outstanding' = 0
    BY <1>2 DEF _touch_master
  <2> QED
    BY <1>1, <1>2, <2>1, Spells
<1>3. ASSUME NEW e \in Masters, Answer(e.id, e.addr)
      PROVE  rx_age' + maint' <= Spell(outstanding')
  BY <1>2, <1>3, EndpointType DEF Answer, _on_master_reg_reply, _on_master_alive_reply,
       _on_peer_list_reply, MasterSpeaks
<1>4. ASSUME NEW e \in Endpoints, FromMaster(e.id, e.addr)
      PROVE  rx_age' + maint' <= Spell(outstanding')
  BY <1>2, <1>4, EndpointType DEF FromMaster, MasterVoice, MasterHeard,
       MasterDeregisters, _clear_master_registration, MasterSpeaks
<1>5. ASSUME UNCHANGED <<registered, rx_age, maint, outstanding>>
      PROVE  rx_age' + maint' <= Spell(outstanding')
  BY <1>5 DEF SilenceIsCounted
<1>6. ASSUME NEW e \in Endpoints, FromPeer(e.id, e.addr)
      PROVE  rx_age' + maint' <= Spell(outstanding')
  BY <1>5, <1>6 DEF FromPeer, PeerAsks, PeerAnswers, PeerDeregisters, PeerVoice,
       PeerHeard, PeerSpeaks, masterVars
<1>7. CASE connection_made \/ stop \/ send_to_peer \/ UNCHANGED vars
  BY <1>5, <1>7 DEF connection_made, stop, send_to_peer, vars, masterVars
<1>8. CASE Maintenance
  <2>1. /\ outstanding <= MaxMissed /\ outstanding' = outstanding + 1
        /\ registered /\ rx_age' = rx_age /\ maint' = AliveInterval
    BY <1>1, <1>8 DEF Maintenance, Cap
  <2>2. rx_age + maint <= Spell(outstanding) /\ Spell(outstanding) \in Nat
    BY <1>1, <2>1, Spells DEF SilenceIsCounted
  <2>3. Spell(outstanding') = Spell(outstanding) + AliveInterval + MaxLag
    BY <1>1, <2>1, Spells
  <2> QED
    BY <1>1, <2>1, <2>2, <2>3
<1>9. CASE Watchdog
  BY <1>9 DEF Watchdog, _clear_master_registration
<1>10. CASE Tick
  <2>1. /\ rx_age' = rx_age \/ rx_age' = rx_age + 1
        /\ maint' = maint - 1 /\ outstanding' = outstanding
    BY <1>10 DEF Tick
  <2>2. rx_age + maint <= Spell(outstanding) /\ Spell(outstanding) \in Nat
    BY <1>1, <1>10, Spells DEF Tick, SilenceIsCounted
  <2>3. rx_age' + maint' <= Spell(outstanding)
    BY <1>1, <2>1, <2>2
  <2> QED
    BY <2>1, <2>3
<1> QED
  BY <1>3, <1>4, <1>6, <1>7, <1>8, <1>9, <1>10 DEF Next

\* For every interval, every max_missed and every bound on the lag of the maintenance
\* loop that does not add up to an interval in max_missed - 1 turns, the watchdog gives
\* the master up only when at least max_missed - 1 keepalives in a row are unanswered.
THEOREM WatchdogWaits == Spec => KeptWhileAsked
<1>1. Init => SilenceIsCounted
  BY DEF Init, SilenceIsCounted
<1>2. Spec => []SilenceIsCounted
  BY <1>1, NextSilenceIsCounted, TypeCorrect, PTL DEF Spec
<1>3. TypeOK /\ SilenceIsCounted /\ [Next]_vars
        => [registered /\ ~registered' /\ rx_age' # 0
              /\ (MaxMissed - 1) * MaxLag < AliveInterval
            => outstanding >= MaxMissed - 1]_vars
  <2> SUFFICES ASSUME TypeOK, SilenceIsCounted, [Next]_vars,
                      registered, ~registered', rx_age' # 0,
                      (MaxMissed - 1) * MaxLag < AliveInterval
               PROVE  outstanding >= MaxMissed - 1
    OBVIOUS
  <2>1. ~(\E src \in Src, a \in Addr : _touch_master(src, a))
    BY DEF _touch_master
  <2>2. Watchdog
    <3>1. ASSUME NEW e \in Masters, Answer(e.id, e.addr) PROVE FALSE
      BY <2>1, <3>1, EndpointType DEF Answer, _on_master_reg_reply,
           _on_master_alive_reply, _on_peer_list_reply
    <3>2. ASSUME NEW e \in Endpoints, FromMaster(e.id, e.addr) PROVE FALSE
      BY <2>1, <3>2, EndpointType DEF FromMaster, MasterVoice, MasterHeard, MasterDeregisters
    <3>3. ASSUME NEW e \in Endpoints, FromPeer(e.id, e.addr) PROVE FALSE
      BY <3>3 DEF FromPeer, PeerAsks, PeerAnswers, PeerDeregisters, PeerVoice,
           PeerHeard, PeerSpeaks, masterVars
    <3>4. CASE connection_made \/ stop \/ send_to_peer \/ Maintenance \/ Tick \/ UNCHANGED vars
      BY <3>4 DEF connection_made, stop, send_to_peer, Maintenance, Tick, vars, masterVars
    <3> QED
      BY <3>1, <3>2, <3>3, <3>4 DEF Next
  <2>3. /\ outstanding \in Nat /\ rx_age \in Nat /\ maint \in -MaxLag..AliveInterval
        /\ MaxMissed \in Nat /\ MaxLag \in Nat /\ AliveInterval \in Nat /\ Timeout \in Nat
    BY ConstantsType DEF TypeOK
  <2>4. ASSUME outstanding < MaxMissed - 1 PROVE FALSE
    <3>1. rx_age + maint <= Spell(outstanding) /\ Spell(outstanding) \in Nat
      BY <2>3, <2>4, Spells DEF SilenceIsCounted
    <3>2. Spell(outstanding) + MaxLag < Timeout
      BY <2>3, <2>4, SpellIsShort
    <3> QED
      BY <2>2, <2>3, <3>1, <3>2 DEF Watchdog
  <2> QED
    BY <2>3, <2>4
<1> QED
  BY <1>2, <1>3, TypeCorrect, PTL DEF Spec, KeptWhileAsked

-----------------------------------------------------------------------------
(***************************************************************************)
(* The master and the table of peers.  A peer is entered, when unknown     *)
(* ones are not accepted, by a list only, and who sent a list is known.    *)
(***************************************************************************)
LearntBeforeListed ==
  ~AllowUnknown => master_id \notin Known /\ (master_id = 0 => Known = {})

LEMMA NoneEnters ==
  ASSUME \A id \in Ids : peers[id] = None => peers'[id] = None
  PROVE  Known' \subseteq Known
BY DEF Known

LEMMA NextLearntBeforeListed ==
  ASSUME \A e \in Masters : e.id # 0
  PROVE  TypeOK /\ LearntBeforeListed /\ [Next]_vars => LearntBeforeListed'
<1> SUFFICES ASSUME TypeOK, LearntBeforeListed, [Next]_vars, ~AllowUnknown
             PROVE  master_id' \notin Known' /\ (master_id' = 0 => Known' = {})
  BY DEF LearntBeforeListed
<1>1. master_id \notin Known /\ (master_id = 0 => Known = {})
  BY DEF LearntBeforeListed
<1>2. ASSUME NEW src \in Src, NEW a \in Addr, _touch_master(src, a), Known' \subseteq Known
      PROVE  master_id' \notin Known' /\ (master_id' = 0 => Known' = {})
  BY <1>1, <1>2 DEF _touch_master
<1>3. ASSUME master_id' = master_id, Known' \subseteq Known
      PROVE  master_id' \notin Known' /\ (master_id' = 0 => Known' = {})
  BY <1>1, <1>3
<1>4. ASSUME _clear_master_registration PROVE Known' \subseteq Known
  BY <1>4, NoneEnters DEF _clear_master_registration
<1>5. ASSUME UNCHANGED peers PROVE Known' \subseteq Known
  BY <1>5 DEF Known
<1>6. ASSUME NEW e \in Masters, Answer(e.id, e.addr)
      PROVE  master_id' \notin Known' /\ (master_id' = 0 => Known' = {})
  <2>1. CASE _on_master_reg_reply(e.id, e.addr) \/ _on_master_alive_reply(e.id, e.addr)
    BY <1>2, <1>5, <2>1, EndpointType DEF _on_master_reg_reply, _on_master_alive_reply
  <2>2. ASSUME NEW list \in Lists, _on_peer_list_reply(e.id, e.addr, list)
        PROVE  master_id' \notin Known' /\ (master_id' = 0 => Known' = {})
    <3>1. master_id' # 0 /\ master_id' \notin Known
      BY <1>1, <2>2 DEF _on_peer_list_reply, _touch_master
    <3>2. \A id \in Ids : id \notin DOMAIN list \ {master_id'} /\ peers[id] = None
                            => peers'[id] = None
      BY <2>2 DEF _on_peer_list_reply
    <3> QED
      BY <3>1, <3>2 DEF Known
  <2> QED
    BY <1>6, <2>1, <2>2 DEF Answer
<1>7. ASSUME NEW e \in Endpoints, FromMaster(e.id, e.addr)
      PROVE  master_id' \notin Known' /\ (master_id' = 0 => Known' = {})
  BY <1>2, <1>4, <1>5, <1>7, EndpointType DEF FromMaster, MasterVoice, MasterHeard,
       MasterDeregisters
<1>8. ASSUME NEW e \in Endpoints, FromPeer(e.id, e.addr)
      PROVE  master_id' \notin Known' /\ (master_id' = 0 => Known' = {})
  <2>1. e.id \in Known /\ master_id' = master_id
    BY <1>8 DEF FromPeer, PeerAsks, PeerAnswers, PeerDeregisters, PeerVoice, PeerHeard,
                PeerSpeaks, _accept_or_get_peer, masterVars
  <2>2. \A id \in Ids \ {e.id} : peers'[id] = peers[id]
    BY <1>8 DEF FromPeer, PeerAsks, PeerAnswers, PeerDeregisters, PeerVoice, PeerHeard,
                Serve, TypeOK
  <2>3. Known' \subseteq Known
    BY <2>1, <2>2 DEF Known
  <2> QED
    BY <1>3, <2>1, <2>3
<1>9. CASE connection_made \/ stop \/ send_to_peer \/ Tick \/ UNCHANGED vars
  BY <1>3, <1>5, <1>9 DEF connection_made, stop, send_to_peer, Tick, vars, masterVars
<1>10. CASE Maintenance
  <2>1. \A id \in Ids : peers[id] = None => peers'[id] = None
    BY <1>10 DEF Maintenance, Known
  <2> QED
    BY <1>3, <1>10, <2>1, NoneEnters DEF Maintenance
<1>11. CASE Watchdog
  BY <1>3, <1>4, <1>11 DEF Watchdog
<1> QED
  BY <1>6, <1>7, <1>8, <1>9, <1>10, <1>11 DEF Next

\* With only listed peers accepted and a master that gives its ID, the master is
\* never entered among the peers, whatever lists it sends and whenever its ID is
\* learnt: it does not get a voice packet twice.
THEOREM MasterNeverListed ==
  ASSUME \A e \in Masters : e.id # 0
  PROVE  Spec => []MasterIsNoPeer
<1>1. Init => LearntBeforeListed
  BY DEF Init, LearntBeforeListed, Known
<1>2. TypeOK /\ LearntBeforeListed /\ [Next]_vars => LearntBeforeListed'
  BY NextLearntBeforeListed
<1>3. LearntBeforeListed => MasterIsNoPeer
  BY DEF LearntBeforeListed, MasterIsNoPeer
<1> QED
  BY <1>1, <1>2, <1>3, TypeCorrect, PTL DEF Spec
=============================================================================
