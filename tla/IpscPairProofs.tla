--------------------------- MODULE IpscPairProofs ---------------------------
(***************************************************************************)
(* Proofs about IpscPair: whatever the network, the NAT and the peer do,   *)
(* the master's part of every step is one of IpscMaster's, so that the     *)
(* master stays well typed and keeps its promise in the pair.              *)
(***************************************************************************)
EXTENDS IpscPair, IpscMasterProofs

\* A datagram for the master: whatever it asks, it comes from somewhere.
ToMasterOK == \A d \in to_master : d \in [op : {d.op}, at : Addr, late : BOOLEAN]

DownIsSilent == ~master_up => ~registered /\ callback = "none"

PairInv == TypeOK /\ port \in Ports /\ ToMasterOK /\ DownIsSilent

\* What the master does while another acts: nothing.
Idles == callback' = "none" /\ sent' = {} /\ UNCHANGED <<peer, ka_age>>

Crashes == /\ master_up /\ ~master_up'
           /\ peer' = None /\ ka_age' = 0 /\ callback' = "none" /\ sent' = {}

LEMMA PeerStepsIdle ==
  ASSUME PairInv, NEW got, PeerSteps(got)
  PROVE  Idles /\ ToMasterOK' /\ UNCHANGED <<master_up, port>>
<1>1. At \in Addr
  BY PairAssumption DEF PairInv, At, Addr
<1>2. ToMasterOK'
  <2> SUFFICES ASSUME NEW d \in to_master'
               PROVE  d \in [op : {d.op}, at : Addr, late : BOOLEAN]
    BY DEF ToMasterOK
  <2>1. CASE d \in to_master
    BY <2>1 DEF PairInv, ToMasterOK
  <2>2. CASE d \notin to_master
    <3>1. PICK e \in p_sent' : d = [op |-> e.op, at |-> At, late |-> FALSE]
      BY <2>2 DEF PeerSteps
    <3> QED
      BY <1>1, <3>1
  <2> QED
    BY <2>1, <2>2
<1> QED
  BY <1>2 DEF PeerSteps, Idles

\* A step of the master takes from the network what it reads.
LEMMA MasterStepsTake ==
  ASSUME PairInv, NEW got, MasterSteps(got)
  PROVE  ToMasterOK' /\ UNCHANGED <<master_up, port>>
BY DEF MasterSteps, PairInv, ToMasterOK

LEMMA TakenStep ==
  ASSUME PairInv, MasterReceives
  PROVE  (Next \/ Idles) /\ ToMasterOK' /\ UNCHANGED <<master_up, port>>
<1>1. PICK d \in to_master : (MasterTakes(d) \/ Dropped(d)) /\ MasterSteps({d})
  BY DEF MasterReceives
<1>2. d.at \in Addr /\ RepeaterId \in Ids
  BY PairAssumption DEF PairInv, ToMasterOK
<1>3. MasterTakes(d) => Next
  BY <1>2 DEF MasterTakes, Next
<1>4. Dropped(d) => Idles
  BY DEF Dropped, Idles
<1> QED
  BY <1>1, <1>3, <1>4, MasterStepsTake

\* Each step of the pair is a step of the master, the crash of its process, or
\* leaves it alone.
LEMMA StepOfMaster ==
  ASSUME PairInv, [PairNext]_pairVars
  PROVE  /\ \/ (Next \/ Idles \/ UNCHANGED vars) /\ (master_up => master_up')
            \/ Crashes
         /\ ~master_up => UNCHANGED vars \/ Idles
         /\ port' \in Ports
         /\ ToMasterOK'
<1>p. port \in Ports /\ ToMasterOK
  BY DEF PairInv
<1>1. CASE MasterReceives
  BY <1>1, <1>p, TakenStep DEF MasterReceives, MasterSteps
<1>2. CASE \E got : PeerSteps(got)
  BY <1>2, <1>p, PeerStepsIdle
<1>3. CASE MasterVoice \/ MasterWatchdog
  <2>1. MasterSteps({}) /\ Next /\ master_up
    BY <1>3 DEF MasterVoice, MasterWatchdog, MasterSteps, Next
  <2> QED
    BY <1>p, <2>1, MasterStepsTake
<1>4. CASE Passes
  BY <1>4, <1>p DEF Passes, netVars, Next, ToMasterOK
<1>5. CASE MasterCrash
  BY <1>5, <1>p DEF MasterCrash, Crashes, netVars, ToMasterOK
<1>6. CASE Vanish \/ Lose
  BY <1>6, <1>p DEF Vanish, Lose, KeepProcesses, ToMasterOK
<1>7. CASE Delay
  <2>1. UNCHANGED <<vars, master_up, port>>
    BY <1>7 DEF Delay, KeepProcesses
  <2>2. \A d \in to_master : LET late == [d EXCEPT !.late = TRUE]
                             IN  late \in [op : {late.op}, at : Addr, late : BOOLEAN]
    BY <1>p DEF ToMasterOK
  <2>3. \/ UNCHANGED to_master
        \/ \E d \in to_master : to_master' \subseteq to_master \cup {[d EXCEPT !.late = TRUE]}
    BY <1>7 DEF Delay, Straggle
  <2>4. ToMasterOK'
    BY <1>p, <2>2, <2>3 DEF ToMasterOK
  <2> QED
    BY <1>p, <2>1, <2>4
<1>8. CASE Rebind \/ PeerRestarts
  BY <1>8, <1>p DEF Rebind, PeerRestarts, KeepProcesses, netVars, ToMasterOK
<1>9. CASE MasterStarts \/ PeerCrash \/ UNCHANGED pairVars
  BY <1>9, <1>p DEF MasterStarts, PeerCrash, pairVars, netVars, ToMasterOK
<1>10. CASE \/ PeerReceives \/ PeerVoice \/ PeerStarts \/ PeerMaintains \/ PeerWatchdog
            \/ PeerStops
  BY <1>2, <1>10 DEF PeerReceives, PeerVoice, PeerStarts, PeerMaintains, PeerWatchdog, PeerStops
<1> QED
  BY <1>1, <1>3, <1>4, <1>5, <1>6, <1>7, <1>8, <1>9, <1>10 DEF PairNext

LEMMA NextPairInv == PairInv /\ [PairNext]_pairVars => PairInv'
<1> SUFFICES ASSUME PairInv, [PairNext]_pairVars PROVE PairInv'
  OBVIOUS
<1>1. TypeOK'
  <2>1. CASE Next \/ UNCHANGED vars
    BY <2>1, NextTypeOK DEF PairInv
  <2>2. CASE Idles
    BY <2>2 DEF Idles, PairInv, TypeOK, registered
  <2>3. CASE Crashes
    BY <2>3, ConstantsType DEF Crashes, TypeOK, registered
  <2> QED
    BY <2>1, <2>2, <2>3, StepOfMaster
<1>2. DownIsSilent'
  <2> SUFFICES ASSUME ~master_up' PROVE ~registered' /\ callback' = "none"
    BY DEF DownIsSilent
  <2>1. CASE Crashes
    BY <2>1 DEF Crashes, registered
  <2>2. CASE ~master_up
    BY <2>2, StepOfMaster DEF PairInv, DownIsSilent, Idles, vars, registered
  <2> QED
    BY <2>1, <2>2, StepOfMaster
<1> QED
  BY <1>1, <1>2, StepOfMaster DEF PairInv

LEMMA AlwaysPairInv == PairSpec => []PairInv
<1>1. PairInit => PairInv
  BY InitTypeOK, PairAssumption DEF PairInit, PairInv, ToMasterOK, DownIsSilent, Addr
<1> QED
  BY <1>1, NextPairInv, PTL DEF PairSpec

\* The master's state is well typed in the pair, for any number of faults of any kind.
THEOREM TypeCorrectInPair == PairSpec => []TypeOK
<1>1. PairInv => TypeOK
  BY DEF PairInv
<1> QED
  BY <1>1, AlwaysPairInv, PTL

\* As long as the process of the master runs, peer_registered and peer_lost alternate
\* with the answer of is_peer_registered and voice comes only in between: for any number of lost,
\* repeated and delayed datagrams, moved ports, crashes and restarts.
THEOREM PairKeepsLink == PairSpec => MasterKeepsLink
<1>1. PairInv /\ [PairNext]_pairVars
        => [master_up /\ master_up' => Link!Next]_<<registered, callback>>
  <2> SUFFICES ASSUME PairInv, [PairNext]_pairVars, master_up, master_up',
                      ~UNCHANGED <<registered, callback>>
               PROVE  Link!Next
    OBVIOUS
  <2>1. Next \/ Idles \/ UNCHANGED vars
    BY StepOfMaster DEF Crashes
  <2>2. CASE Next \/ UNCHANGED vars
    BY <2>2, StepKeepsLink DEF PairInv, Link!linkVars
  <2>3. CASE Idles
    BY <2>3 DEF Idles, Link!Next, Link!Quiet, registered
  <2> QED
    BY <2>1, <2>2, <2>3
<1> QED
  BY <1>1, AlwaysPairInv, PTL DEF PairSpec, MasterKeepsLink
=============================================================================
