--------------------------- MODULE WireMonitorProofs ---------------------------
(***************************************************************************)
(* Theorems about what WireMonitor sees on the wires, for every set of     *)
(* calls and timeslots, every configuration and every length of the        *)
(* timers.  Each property of the packets rests on an invariant that ties   *)
(* the monitor's history to the translator's bookkeeping.                  *)
(***************************************************************************)
EXTENDS WireMonitor, CallTranslatorProofs, WellFoundedInduction

(***************************************************************************)
(* The invariants.                                                         *)
(***************************************************************************)
MonTypeOK ==
  /\ since_tx \in [TS -> 0..Far]
  /\ since_fwd \in [TS -> 0..Far]
  /\ last_tx \in [TS -> HbpCalls \cup {None}]
  /\ last_fwd \in [TS -> Dmrd \cup {None}]
  /\ keyed \in [TS -> Int]
  /\ turned_away \in [TS -> [Streams -> 0..StayOut]]

\* The cooldown covers what is left of the interval since the last packet.
CooldownCovers ==
  Pacing => \A ts \in TS : since_tx[ts] + cooldown[ts] >= Interval

\* The busy mark covers what is left of the holdoff since the last frame.
BusyCovers == \A ts \in TS : since_fwd[ts] + busy[ts] >= Holdoff

\* For Hang ticks after a packet, its direction owns the lock and keeps it: it
\* holds the slot, or the hang started no earlier than the packet.
Keeps(ts, dir, holds, since) ==
  since <= Hang => /\ lock_owner[ts] = dir
                   /\ holds \/ lock_until[ts] + since >= Hang

LockCovers ==
  CallLock /\ ~SameTgOnly => \A ts \in TS :
    /\ Keeps(ts, "HBP", HbpHolds(ts), since_tx[ts])
    /\ Keeps(ts, "IPSC", IpscHolds(ts), since_fwd[ts])
    /\ in_started[ts] => in_call[ts] # None

\* What was transmitted last is remembered for the rest of the window.
EchoRemembered ==
  ReflectSuppression => \A ts \in TS : since_tx[ts] < ReflectWindow =>
    /\ last_tx[ts] # None
    /\ since_tx[ts] + reflect_recent[ts][<<last_tx[ts].src, last_tx[ts].tg>>] >= ReflectWindow

\* A stream turned away is refused by the lock or ignored by the filter for
\* at least as long; the filter sees no echo where the lock covers every talkgroup.
Remembers(ts, s) ==
  \/ CallLock /\ blocked[ts][s] >= turned_away[ts][s]
  \/ /\ ~ByLockAlone
     /\ ReflectSuppression
     /\ s \in IpscStreams
     /\ reflect_ignore[ts][s] >= turned_away[ts][s]

RefusalRemembered ==
  ~Legacy => \A ts \in TS :
    /\ \A s \in Streams : turned_away[ts][s] > 0 => Remembers(ts, s)
    /\ ByLockAlone => \A s \in IpscStreams : reflect_ignore[ts][s] = 0

\* The frame sent last tells the position of the next voice frame of an open
\* stream, unless a late entry opened it and nothing of it was sent yet.
Follows(ts) ==
  \/ ~Legacy /\ out_frame_pos[ts] = LateEntryPosition
  \/ /\ last_fwd[ts] # None
     /\ last_fwd[ts].stream = out_stream_id[ts]
     /\ \/ last_fwd[ts].frame = "HEAD" /\ out_frame_pos[ts] = 0
        \/ /\ last_fwd[ts].frame = "VOICE"
           /\ out_frame_pos[ts] = (last_fwd[ts].pos + 1) % SuperframeLen

PositionFollows == \A ts \in TS : out_stream_id[ts] # None => Follows(ts)

\* Each packet but a head is of the stream a repeater is keyed with that was
\* keyed with key and has received the packets before it.
InKey(key, pkts) ==
  \A i \in 1..Len(pkts) :
    pkts[i].burst # "HEAD" => pkts[i].sid = KeyedAfter(key, SubSeq(pkts, 1, i - 1))

\* What waits for a slot will find the repeater keyed for it, and leaves it
\* keyed for the call in progress.
QueueInKey ==
  \A ts \in TS : /\ InKey(keyed[ts], queue[ts])
                 /\ in_started[ts] => KeyedAfter(keyed[ts], queue[ts]) = in_stream_id[ts]
                 /\ ~Pacing => queue[ts] = <<>>

(***************************************************************************)
(* What a step of the monitor is, and what it leaves alone.                *)
(***************************************************************************)
LEMMA FarType == /\ Far \in Nat
                 /\ Far >= Hang + 1 /\ Far >= Interval
                 /\ Far >= Holdoff /\ Far >= ReflectWindow
<1> DEFINE delays == {Hang + 1, Interval, Holdoff, ReflectWindow}
           Beyond(n) == n >= Hang + 1 /\ n >= Interval /\ n >= Holdoff /\ n >= ReflectWindow
<1>1. delays \subseteq Nat
  BY ConstantsType
<1>2. \E n \in delays : Beyond(n)
  BY ConstantsType
<1>3. Far = CHOOSE n \in delays : Beyond(n)
  BY DEF Far
<1> HIDE DEF delays, Beyond
<1>4. Far \in delays /\ Beyond(Far)
  BY <1>2, <1>3
<1> QED
  BY <1>1, <1>4 DEF Beyond

LEMMA StayOutType == /\ StayOut \in Nat \ {0}
                     /\ CallLock => StayOut <= BlockFor
                     /\ ~ByLockAlone => StayOut <= ReflectWindow
BY ConstantsType DEF StayOut, ByLockAlone

\* The monitor only watches: its steps are the translator's.
LEMMA MonitorWatches == [MonNext]_allVars => [Next]_vars
  BY Zenon DEF MonNext, WatchIpsc, WatchHbp, WatchDisconnect, Next, allVars

\* The steps of the monitor, as the proofs below take them one by one.
LEMMA MonSteps ==
  ASSUME [MonNext]_allVars
  PROVE  \/ \E ts \in TS, c \in IpscCalls, b \in IpscBursts : WatchIpsc(ts, c, b)
         \/ \E ts \in TS, c \in HbpCalls, frame \in HbpFrames : WatchHbp(ts, c, frame)
         \/ \E ts \in TS : Drain(ts) /\ WatchWires(ts) /\ UNCHANGED turned_away
         \/ Tick /\ ElapseClocks
         \/ PeerLost /\ NewSession /\ turned_away' = Forgiven
         \/ WatchDisconnect
         \/ Watchdog /\ UNCHANGED monVars
         \/ (PeerRegistered \/ HbpConnected \/ HbpDropped) /\ UNCHANGED monVars
         \/ UNCHANGED allVars
  BY Zenon DEF MonNext

\* What the monitor notes of the packets of a slot; it leaves the other slots alone.
LEMMA WiresSeen ==
  ASSUME MonTypeOK, NEW ts \in TS, WatchWires(ts)
  PROVE  /\ since_tx'[ts] = IF toIpsc'[ts] = <<>> THEN since_tx[ts] ELSE 0
         /\ since_fwd'[ts] = IF toHbp'[ts] = <<>> THEN since_fwd[ts] ELSE 0
         /\ last_tx'[ts] = IF toIpsc'[ts] = <<>> THEN last_tx[ts] ELSE Last(toIpsc'[ts]).call
         /\ last_fwd'[ts] = IF toHbp'[ts] = <<>> THEN last_fwd[ts] ELSE Last(toHbp'[ts])
         /\ keyed'[ts] = KeyedAfter(keyed[ts], toIpsc'[ts])
         /\ \A t \in TS \ {ts} : /\ since_tx'[t] = since_tx[t] /\ since_fwd'[t] = since_fwd[t]
                                 /\ last_tx'[t] = last_tx[t] /\ last_fwd'[t] = last_fwd[t]
                                 /\ keyed'[t] = keyed[t]
BY DEF WatchWires, MonTypeOK

\* Time moves the ages up and leaves the rest.
LEMMA ClocksSeen ==
  ASSUME MonTypeOK, ElapseClocks, NEW t \in TS
  PROVE  /\ since_tx'[t] = Up(since_tx[t], Far) /\ since_tx'[t] \in 0..Far
         /\ since_fwd'[t] = Up(since_fwd[t], Far) /\ since_fwd'[t] \in 0..Far
         /\ since_tx[t] \in 0..Far /\ since_fwd[t] \in 0..Far
         /\ last_tx'[t] = last_tx[t] /\ last_fwd'[t] = last_fwd[t] /\ keyed'[t] = keyed[t]
BY FarType DEF ElapseClocks, MonTypeOK, Up

\* A new session, on either side, starts with the calls forgotten.
LEMMA SessionSeen ==
  ASSUME NewSession
  PROVE  /\ \A t \in TS : since_tx'[t] = Far /\ since_fwd'[t] = Far
         /\ UNCHANGED <<last_tx, last_fwd, keyed>>
BY DEF NewSession

LEMMA DisconnectForgets ==
  ASSUME WatchDisconnect
  PROVE  ForgetCalls /\ NewSession
BY DEF WatchDisconnect, HbpDisconnected, SendDmrdFails

LEMMA PeerLossForgets ==
  ASSUME PeerLost
  PROVE  ForgetCalls
BY DEF PeerLost

(***************************************************************************)
(* What the handlers send.                                                 *)
(***************************************************************************)
\* An IPSC packet is forwarded, if at all, as frames of its call on its slot.
\* Only a head gives a head, and whatever is forwarded was accepted.
LEMMA IpscForwards ==
  ASSUME NEW ts \in TS, NEW c \in IpscCalls, NEW b \in IpscBursts,
         ipsc_voice_received(ts, c, b)
  PROVE  /\ toIpsc' = Silent
         /\ \/ toHbp' = Silent
            \/ /\ IpscAccepted(ts, c, b)
               /\ \E n \in {1, 2}, frame \in HbpFrames : \E stream, lc, pos :
                    /\ toHbp' = [Silent EXCEPT ![ts] = Frames(n, frame, c, stream, lc, pos)]
                    /\ frame = "HEAD" => b = "HEAD"
<1>1. toIpsc' = Silent
  BY IpscFrame DEF IpscHeard
<1>2. CASE b = "HEAD" /\ IpscHead(ts, c)
  <2>1. \E stream : SendDmrd(ts, IF Legacy THEN 2 ELSE 1, "HEAD", c, stream, c, 0)
    BY <1>2 DEF IpscHead
  <2> QED
    BY <1>1, <1>2, <2>1 DEF IpscHead, SendDmrd, HbpFrames
<1>3. CASE b = "TERM" /\ IpscTerm(ts, c)
  BY <1>1, <1>3 DEF IpscTerm, SendDmrd, HbpFrames
<1>4. CASE IpscVoice(ts, c, b)
  <2>1. toHbp' = Silent \/ \E stream, lc, pos : SendDmrd(ts, 1, "VOICE", c, stream, lc, pos)
    BY <1>4 DEF IpscVoice
  <2> QED
    BY <1>1, <1>4, <2>1 DEF IpscVoice, SendDmrd, HbpFrames
<1>5. CASE \/ b = "HEAD" /\ IpscRepeatedHead(ts, c)
           \/ IpscIgnored(ts, c, b) \/ IpscReflected(ts, c, b)
           \/ IpscRefused(ts, c, b) \/ IpscWithoutMetadata(ts, c, b)
  BY <1>1, <1>5 DEF IpscRepeatedHead, IpscIgnored, IpscReflected, IpscRefused,
                    IpscWithoutMetadata, KeepOutCall
<1> QED
  BY <1>2, <1>3, <1>4, <1>5 DEF ipsc_voice_received

\* The fields of the frames.
LEMMA FrameFields ==
  ASSUME NEW n \in Nat, NEW frame, NEW c, NEW stream, NEW lc, NEW pos
  PROVE  /\ Len(Frames(n, frame, c, stream, lc, pos)) = n
         /\ \A i \in 1..n : LET d == Frames(n, frame, c, stream, lc, pos)[i]
                           IN d.frame = frame /\ d.call = c /\ d.stream = stream /\ d.pos = pos
BY DEF Frames

\* What is sent on one slot is not sent on another.
LEMMA SentOnSlot ==
  ASSUME NEW ts \in TS, NEW frames, toHbp' = [Silent EXCEPT ![ts] = frames]
  PROVE  toHbp'[ts] = frames /\ \A t \in TS \ {ts} : toHbp'[t] = <<>>
BY DEF Silent

LEMMA LastAppended ==
  ASSUME NEW S, NEW hs \in Seq(S), NEW v \in S
  PROVE  hs \o <<v>> \in Seq(S) /\ hs \o <<v>> # <<>> /\ Last(hs \o <<v>>) = v
<1>1. /\ hs \o <<v>> \in Seq(S)
      /\ Len(hs \o <<v>>) = Len(hs) + 1
      /\ (hs \o <<v>>)[Len(hs) + 1] = v
  OBVIOUS
<1> QED
  BY <1>1 DEF Last

\* The last packet of what a call issues names the call.
LEMMA LastPacketsName ==
  ASSUME NEW sid \in 0..StreamMod-1, NEW c \in HbpCalls
  PROVE  /\ Last(Heads(sid, c)).call = c
         /\ \A hs \in {<<>>, Heads(sid, c)} :
              /\ hs \o VoiceOf(sid, c) \in Seq(Packet) /\ hs \o VoiceOf(sid, c) # <<>>
              /\ Last(hs \o VoiceOf(sid, c)).call = c
<1> DEFINE p(b) == [burst |-> b, sid |-> sid, call |-> c]
<1>1. p("VOICE") \in Packet /\ p("VOICE").call = c /\ p("HEAD").call = c
  BY DEF Packet, HbpFrames
<1>2. VoiceOf(sid, c) = <<p("VOICE")>> /\ Heads(sid, c) = [i \in 1..HeaderRepeats |-> p("HEAD")]
  BY DEF VoiceOf, Heads
<1>3. /\ <<>> \in Seq(Packet)
      /\ Heads(sid, c) \in Seq(Packet)
  <2>1. <<>> \in Seq(Packet)
    OBVIOUS
  <2> QED
    BY <2>1, PacketsType
<1> HIDE DEF p
<1>4. Last(Heads(sid, c)) = p("HEAD")
  BY <1>2, ConstantsType DEF Last
<1>5. \A hs \in Seq(Packet) : /\ hs \o VoiceOf(sid, c) \in Seq(Packet)
                              /\ hs \o VoiceOf(sid, c) # <<>>
                              /\ Last(hs \o VoiceOf(sid, c)) = p("VOICE")
  BY <1>1, <1>2, LastAppended
<1> QED
  BY <1>1, <1>3, <1>4, <1>5

\* A frame from HBP transmits nothing, or was not blocked and issues packets
\* whose last one names its call.
LEMMA HbpIssues ==
  ASSUME TypeOK, NEW ts \in TS, NEW c \in HbpCalls, NEW frame \in HbpFrames,
         hbp_voice_received(ts, c, frame)
  PROVE  /\ toHbp' = Silent
         /\ \/ TransmitNothing
            \/ /\ HbpUnblocked(ts, c)
               /\ \E pkts \in Seq(Packet) : /\ pkts # <<>>
                                            /\ Last(pkts).call = c
                                            /\ Transmit(ts, pkts, c)
<1>0. toHbp' = Silent
  BY HbpFrame DEF HbpHeard
<1>s. in_stream_id[ts] \in 0..StreamMod-1 /\ (in_stream_ctr + 1) % StreamMod \in 0..StreamMod-1
  BY NextStreamByte DEF TypeOK, InTypeOK
<1>1. CASE \/ HbpRefused(ts, c, frame) \/ HbpDuplicateHead(ts, c)
           \/ HbpForeignTerm(ts, c) \/ HbpVoiceWithoutHead(ts, c)
  BY <1>0, <1>1 DEF HbpRefused, HbpDuplicateHead, HbpForeignTerm, HbpVoiceWithoutHead
<1>p. \A sid \in 0..StreamMod-1 :
        /\ Heads(sid, c) \in Seq(Packet) /\ Heads(sid, c) # <<>> /\ Last(Heads(sid, c)).call = c
        /\ \A hs \in {<<>>, Heads(sid, c)} :
             /\ hs \o VoiceOf(sid, c) \in Seq(Packet) /\ hs \o VoiceOf(sid, c) # <<>>
             /\ Last(hs \o VoiceOf(sid, c)).call = c
  BY PacketsType, LastPacketsName
<1>2. CASE HbpHead(ts, c)
  BY <1>0, <1>2, <1>s, <1>p DEF HbpHead
<1>3. CASE HbpTerm(ts, c)
  <2> DEFINE term == <<[burst |-> "TERM", sid |-> in_stream_id[ts], call |-> c]>>
  <2>1. term \in Seq(Packet) /\ term # <<>> /\ Last(term).call = c
    BY <1>s, PacketsType DEF Last
  <2>2. HbpUnblocked(ts, c) /\ IF in_started[ts] THEN Transmit(ts, term, c) ELSE TransmitNothing
    BY <1>3, Zenon DEF HbpTerm
  <2> HIDE DEF term
  <2> QED
    BY <1>0, <2>1, <2>2
<1>4. CASE HbpVoice(ts, c)
  BY <1>0, <1>4, <1>s, <1>p DEF HbpVoice
<1>5. CASE HbpLateEntry(ts, c)
  BY <1>0, <1>5, <1>s, <1>p DEF HbpLateEntry
<1> QED
  BY <1>1, <1>2, <1>3, <1>4, <1>5 DEF hbp_voice_received

\* What a transmission does to its slot, and that it leaves the others alone.
LEMMA TransmitSends ==
  ASSUME TypeOK, NEW ts \in TS, NEW pkts \in Seq(Packet), pkts # <<>>, NEW c \in HbpCalls,
         Transmit(ts, pkts, c)
  PROVE  /\ UNCHANGED cooldown
         /\ \A t \in TS \ {ts} : toIpsc'[t] = <<>> /\ reflect_recent'[t] = reflect_recent[t]
         /\ \/ toIpsc'[ts] = <<>> /\ UNCHANGED reflect_recent
            \/ /\ ~Pacing /\ NotBusy(ts)
               /\ toIpsc'[ts] = pkts
               /\ reflect_recent' = Remembered(ts, c)
<1>1. \A t \in TS : Silent[t] = <<>>
  BY DEF Silent
<1>2. \A t \in TS \ {ts} : Remembered(ts, c)[t] = reflect_recent[t]
  BY DEF Remembered, TypeOK, ReflectTypeOK
<1>3. [Silent EXCEPT ![ts] = pkts][ts] = pkts /\ \A t \in TS \ {ts} : [Silent EXCEPT ![ts] = pkts][t] = <<>>
  BY DEF Silent
<1> QED
  BY <1>1, <1>2, <1>3 DEF Transmit, txVars

\* A due drain sends the packet at the head of the queue unless the slot is busy.
LEMMA DrainSends ==
  ASSUME TypeOK, NEW ts \in TS, Drain(ts)
  PROVE  /\ toHbp' = Silent
         /\ queue[ts] # <<>> /\ handle[ts] = 0
         /\ Head(queue[ts]) \in Packet
         /\ cooldown' = [cooldown EXCEPT ![ts] = Interval]
         /\ \A t \in TS \ {ts} : toIpsc'[t] = <<>> /\ reflect_recent'[t] = reflect_recent[t]
         /\ \/ toIpsc'[ts] = <<>> /\ UNCHANGED reflect_recent
            \/ /\ NotBusy(ts)
               /\ toIpsc'[ts] = <<Head(queue[ts])>>
               /\ reflect_recent' = Remembered(ts, Head(queue[ts]).call)
<1> DEFINE packet == Head(queue[ts])
<1>1. Head(queue[ts]) \in Packet
  BY DEF Drain, TypeOK, TxTypeOK
<1>2. \A t \in TS : Silent[t] = <<>>
  BY DEF Silent
<1>3. \A t \in TS \ {ts} : Remembered(ts, packet.call)[t] = reflect_recent[t]
  BY DEF Remembered, TypeOK, ReflectTypeOK
<1>4. /\ [Silent EXCEPT ![ts] = <<packet>>][ts] = <<packet>>
      /\ \A t \in TS \ {ts} : [Silent EXCEPT ![ts] = <<packet>>][t] = <<>>
  BY DEF Silent
<1> QED
  BY <1>1, <1>2, <1>3, <1>4 DEF Drain

\* The other steps send nothing, except for the head a failing send_dmrd may
\* still have got out.
LEMMA OthersAreSilent ==
  /\ Tick \/ PeerLost \/ Watchdog \/ PeerRegistered \/ HbpConnected \/ HbpDropped
       => toIpsc' = Silent /\ toHbp' = Silent
  /\ WatchDisconnect => toIpsc' = Silent
  BY DEF Tick, PeerLost, Watchdog, PeerRegistered, HbpConnected, HbpDropped, SetLinks,
         ForgetCalls, NothingForwarded, WatchDisconnect, HbpDisconnected, SendDmrdFails

(***************************************************************************)
(* Type correctness of the monitor.                                        *)
(***************************************************************************)
LEMMA MonInitType == MonInit => TypeOK /\ MonTypeOK
<1> SUFFICES ASSUME MonInit PROVE MonTypeOK
  BY InitTypeOK DEF MonInit
<1>1. since_tx \in [TS -> 0..Far] /\ since_fwd \in [TS -> 0..Far]
  BY FarType DEF MonInit
<1>2. turned_away \in [TS -> [Streams -> 0..StayOut]]
  BY StayOutType DEF MonInit, Forgiven
<1>3. /\ last_tx \in [TS -> HbpCalls \cup {None}]
      /\ last_fwd \in [TS -> Dmrd \cup {None}]
      /\ keyed \in [TS -> Int]
  BY DEF MonInit, NoStream
<1> QED
  BY <1>1, <1>2, <1>3 DEF MonTypeOK

LEMMA LastIn == ASSUME NEW S, NEW s \in Seq(S), s # <<>> PROVE Last(s) \in S
  BY DEF Last

LEMMA HasMinimum ==
  ASSUME NEW T \in SUBSET Nat, T # {}
  PROVE  \E x \in T : \A y \in T : x <= y
<1> DEFINE R == OpToRel(<, Nat)
<1>1. IsWellFoundedOn(R, Nat)
  BY NatLessThanWellFounded, Zenon
<1>3. \A x, y \in Nat : <<y, x>> \in R <=> y < x
  BY DEF OpToRel
<1> HIDE DEF R
<1>2. PICK x \in T : \A y \in T : <<y, x>> \notin R
  BY <1>1, WFMin
<1>4. \A y \in T : x <= y
  <2> SUFFICES ASSUME NEW y \in T PROVE x <= y
    OBVIOUS
  <2>1. x \in Nat /\ y \in Nat
    OBVIOUS
  <2>2. ~(y < x)
    BY <1>2, <1>3, <2>1
  <2> QED
    BY <2>1, <2>2
<1> QED
  BY <1>4

\* The greatest index exists: KeyedAfter looks for the last head or terminator.
LEMMA HasMaximum ==
  ASSUME NEW n \in Nat, NEW T \in SUBSET (1..n), T # {}
  PROVE  \E x \in T : \A y \in T : y <= x
<1> DEFINE M == {n - x : x \in T}
<1>1. M \in SUBSET Nat /\ M # {}
  <2>1. \A x \in T : x \in 1..n
    OBVIOUS
  <2>2. \A x \in T : n - x \in Nat
    BY <2>1
  <2> QED
    BY <2>2
<1>2. PICK m \in M : \A k \in M : m <= k
  BY <1>1, HasMinimum
<1>3. PICK x \in T : m = n - x
  BY <1>2
<1>4. ASSUME NEW y \in T PROVE y <= x
  <2>1. n - y \in M /\ x \in 1..n /\ y \in 1..n
    OBVIOUS
  <2> HIDE DEF M
  <2>2. n - x <= n - y
    BY <1>2, <1>3, <2>1
  <2> QED
    BY <2>1, <2>2
<1> QED
  BY <1>4

LEMMA KeyedAfterType ==
  ASSUME NEW key \in Int, NEW pkts \in Seq(Packet)
  PROVE  KeyedAfter(key, pkts) \in Int
<1> DEFINE marks == {i \in 1..Len(pkts) : pkts[i].burst # "VOICE"}
           last == CHOOSE i \in marks : \A j \in marks : j <= i
<1>1. CASE marks # {}
  <2>l. Len(pkts) \in Nat /\ marks \in SUBSET (1..Len(pkts))
    OBVIOUS
  <2> HIDE DEF marks
  <2>m. \E i \in marks : \A j \in marks : j <= i
    BY <1>1, <2>l, HasMaximum
  <2> USE DEF marks
  <2>1. last \in marks
    BY <2>m
  <2>2. pkts[last] \in Packet
    BY <2>1
  <2>3. pkts[last].sid \in Int
    BY <2>2, ConstantsType DEF Packet
  <2> QED
    BY <2>3 DEF KeyedAfter, NoStream
<1>2. CASE marks = {}
  BY <1>2 DEF KeyedAfter
<1> QED
  BY <1>1, <1>2

LEMMA MonTypeNext == TypeOK /\ TypeOK' /\ MonTypeOK /\ [MonNext]_allVars => MonTypeOK'
<1> SUFFICES ASSUME TypeOK, TypeOK', MonTypeOK, [MonNext]_allVars PROVE MonTypeOK'
  OBVIOUS
<1>f. 0 \in 0..Far /\ Far \in 0..Far /\ StayOut \in 0..StayOut /\ 0 \in 0..StayOut
  BY FarType, StayOutType
<1>1. ASSUME NEW ts \in TS, WatchWires(ts)
      PROVE  /\ since_tx' \in [TS -> 0..Far] /\ since_fwd' \in [TS -> 0..Far]
             /\ last_tx' \in [TS -> HbpCalls \cup {None}]
             /\ last_fwd' \in [TS -> Dmrd \cup {None}]
             /\ keyed' \in [TS -> Int]
  <2>1. since_tx' \in [TS -> 0..Far] /\ since_fwd' \in [TS -> 0..Far]
    BY <1>1, <1>f DEF WatchWires, MonTypeOK
  <2>2. toIpsc'[ts] \in Seq(Packet) /\ toHbp'[ts] \in Seq(Dmrd)
    BY DEF TypeOK, WireTypeOK
  <2>3. toIpsc'[ts] # <<>> => Last(toIpsc'[ts]).call \in HbpCalls
    BY <2>2, LastIn DEF Packet
  <2>4. toHbp'[ts] # <<>> => Last(toHbp'[ts]) \in Dmrd
    BY <2>2, LastIn
  <2>5. KeyedAfter(keyed[ts], toIpsc'[ts]) \in Int
    BY <2>2, KeyedAfterType DEF MonTypeOK
  <2> QED
    BY <1>1, <2>1, <2>3, <2>4, <2>5 DEF WatchWires, MonTypeOK
<1>2. ASSUME NEW ts \in TS, NEW s \in Streams, NEW head, NEW end, NEW opened,
             WatchStream(ts, s, head, end, opened)
      PROVE  turned_away' \in [TS -> [Streams -> 0..StayOut]]
  BY <1>2, <1>f DEF WatchStream, MonTypeOK
<1>3. \A c \in IpscCalls \cup HbpCalls : c.stream \in Streams
  BY CallsType DEF Streams
<1>4. CASE \E ts \in TS, c \in IpscCalls, b \in IpscBursts : WatchIpsc(ts, c, b)
  BY <1>1, <1>2, <1>3, <1>4 DEF WatchIpsc, MonTypeOK
<1>5. CASE \E ts \in TS, c \in HbpCalls, frame \in HbpFrames : WatchHbp(ts, c, frame)
  BY <1>1, <1>2, <1>3, <1>5 DEF WatchHbp, MonTypeOK
<1>6. CASE \E ts \in TS : Drain(ts) /\ WatchWires(ts) /\ UNCHANGED turned_away
  BY <1>1, <1>6 DEF MonTypeOK
<1>7. CASE Tick /\ ElapseClocks
  <2>1. \A n \in 0..Far : Up(n, Far) \in 0..Far
    BY FarType DEF Up
  <2>2. \A n \in 0..StayOut : Down(n) \in 0..StayOut
    BY StayOutType DEF Down
  <2> QED
    BY <1>7, <2>1, <2>2 DEF ElapseClocks, MonTypeOK
<1>8. CASE NewSession /\ turned_away' \in {turned_away, Forgiven}
  BY <1>8, <1>f DEF NewSession, Forgiven, MonTypeOK
<1>9. CASE UNCHANGED monVars
  BY <1>9 DEF monVars, wireVars, MonTypeOK
<1> QED
  BY <1>4, <1>5, <1>6, <1>7, <1>8, <1>9, MonSteps DEF WatchDisconnect, allVars

(***************************************************************************)
(* The cadence towards the repeater.                                       *)
(***************************************************************************)
LEMMA CooldownCoversInit == MonInit => CooldownCovers
<1> SUFFICES ASSUME MonInit, NEW t \in TS PROVE since_tx[t] + cooldown[t] >= Interval
  BY DEF CooldownCovers
<1>1. since_tx[t] = Far /\ cooldown[t] = 0
  BY DEF MonInit, Init
<1> QED
  BY <1>1, FarType, ConstantsType

LEMMA CooldownCoversNext ==
  TypeOK /\ MonTypeOK /\ CooldownCovers /\ [MonNext]_allVars => CooldownCovers'
<1> SUFFICES ASSUME TypeOK, MonTypeOK, CooldownCovers, [MonNext]_allVars, Pacing, NEW t \in TS
             PROVE  since_tx'[t] + cooldown'[t] >= Interval
  BY DEF CooldownCovers
<1>t. /\ since_tx[t] \in 0..Far /\ cooldown[t] \in 0..Interval /\ cooldown \in [TS -> 0..Interval]
      /\ since_tx[t] + cooldown[t] >= Interval
      /\ Interval \in Nat /\ Far \in Nat /\ Far >= Interval
  BY ConstantsType, FarType DEF TypeOK, TxTypeOK, MonTypeOK, CooldownCovers
<1>1. CASE \E ts \in TS, c \in IpscCalls, b \in IpscBursts : WatchIpsc(ts, c, b)
  <2>1. PICK ts \in TS, c \in IpscCalls, b \in IpscBursts : WatchIpsc(ts, c, b)
    BY <1>1
  <2>2. UNCHANGED cooldown /\ toIpsc' = Silent
    BY <2>1, IpscFrame DEF WatchIpsc, IpscHeard, txVars
  <2> QED
    BY <1>t, <2>1, <2>2, WiresSeen DEF WatchIpsc, Silent
<1>2. CASE \E ts \in TS, c \in HbpCalls, frame \in HbpFrames : WatchHbp(ts, c, frame)
  <2>1. PICK ts \in TS, c \in HbpCalls, frame \in HbpFrames : WatchHbp(ts, c, frame)
    BY <1>2
  <2>2. UNCHANGED cooldown /\ \A s \in TS : toIpsc'[s] = <<>>
    BY <2>1, HbpIssues, TransmitSends DEF WatchHbp, TransmitNothing, txVars, Silent
  <2> QED
    BY <1>t, <2>1, <2>2, WiresSeen DEF WatchHbp
<1>3. CASE \E ts \in TS : Drain(ts) /\ WatchWires(ts) /\ UNCHANGED turned_away
  <2>1. PICK ts \in TS : Drain(ts) /\ WatchWires(ts)
    BY <1>3
  <2>2. cooldown' = [cooldown EXCEPT ![ts] = Interval]
    BY <2>1, DrainSends
  <2>3. since_tx'[t] \in {0, since_tx[t]} /\ (t # ts => since_tx'[t] = since_tx[t])
    BY <2>1, WiresSeen
  <2> QED
    BY <1>t, <2>2, <2>3
<1>4. CASE Tick /\ ElapseClocks
  <2>1. cooldown'[t] = Down(cooldown[t])
    BY <1>4 DEF Tick
  <2> QED
    BY <1>t, <1>4, <2>1, ClocksSeen DEF Up, Down
<1>5. CASE (PeerLost /\ NewSession) \/ WatchDisconnect
  <2>1. since_tx'[t] = Far /\ cooldown'[t] = 0
    BY <1>5, SessionSeen, PeerLossForgets, DisconnectForgets DEF ForgetCalls, ClearTxQueues
  <2> QED
    BY <1>t, <2>1
<1>6. CASE UNCHANGED <<since_tx, cooldown>>
  BY <1>t, <1>6
<1>7. CASE /\ Watchdog \/ PeerRegistered \/ HbpConnected \/ HbpDropped \/ UNCHANGED vars
           /\ UNCHANGED monVars
  BY <1>6, <1>7 DEF Watchdog, PeerRegistered, HbpConnected, HbpDropped, SetLinks, vars, txVars,
                    monVars, wireVars
<1> QED
  BY <1>1, <1>2, <1>3, <1>4, <1>5, <1>7, MonSteps DEF allVars

\* A packet leaves on a paced slot only by a drain, and alone.
LEMMA PacedStep ==
  ASSUME TypeOK, DrainScheduled, MonTypeOK, CooldownCovers, [MonNext]_allVars, Pacing,
         ~UNCHANGED allVars, NEW t \in TS, toIpsc'[t] # <<>>
  PROVE  Len(toIpsc'[t]) = 1 /\ since_tx[t] >= Interval
<1>1. CASE \E ts \in TS, c \in IpscCalls, b \in IpscBursts : WatchIpsc(ts, c, b)
  BY <1>1, IpscFrame DEF WatchIpsc, IpscHeard, Silent
<1>2. CASE \E ts \in TS, c \in HbpCalls, frame \in HbpFrames : WatchHbp(ts, c, frame)
  BY <1>2, HbpIssues, TransmitSends DEF WatchHbp, TransmitNothing, Silent
<1>3. CASE \E ts \in TS : Drain(ts) /\ WatchWires(ts) /\ UNCHANGED turned_away
  <2>1. PICK ts \in TS : Drain(ts)
    BY <1>3
  <2>2. ts = t /\ toIpsc'[t] = <<Head(queue[t])>> /\ queue[t] # <<>> /\ handle[t] = 0
    BY <2>1, DrainSends
  <2>3. cooldown[t] = 0
    BY <2>2 DEF DrainScheduled, NoHandle, TypeOK, TxTypeOK
  <2>4. since_tx[t] + cooldown[t] >= Interval /\ since_tx[t] \in 0..Far /\ Far \in Nat
    BY FarType DEF CooldownCovers, MonTypeOK
  <2> QED
    BY <2>2, <2>3, <2>4, ConstantsType
<1>4. CASE \/ Tick \/ PeerLost \/ WatchDisconnect \/ Watchdog
           \/ PeerRegistered \/ HbpConnected \/ HbpDropped
  BY <1>4, OthersAreSilent DEF Silent
<1> QED
  BY <1>1, <1>2, <1>3, <1>4, MonSteps

\* With pacing on, whatever issues packets and whenever: between two packets for
\* the repeater on a slot there is the frame interval at least, for every interval, queue
\* limit and number of repeated heads.
THEOREM PacketsKeepCadence == MonSpec => Cadence
<1> DEFINE Inv == TypeOK /\ DrainScheduled /\ MonTypeOK /\ CooldownCovers
<1>1. MonInit => Inv
  BY MonInitType, DrainScheduledInit, CooldownCoversInit DEF MonInit
<1>2. Inv /\ [MonNext]_allVars => Inv'
  BY MonitorWatches, NextTypeOK, DrainScheduledNext, MonTypeNext, CooldownCoversNext
<1>3. Inv /\ [MonNext]_allVars
        => [Pacing => \A ts \in TS : toIpsc'[ts] # <<>> =>
              Len(toIpsc'[ts]) = 1 /\ since_tx[ts] >= Interval]_allVars
  BY PacedStep
<1> QED
  BY <1>1, <1>2, <1>3, PTL DEF MonSpec, Cadence

(***************************************************************************)
(* The busy slot.                                                          *)
(***************************************************************************)
LEMMA BusyCoversInit == MonInit => BusyCovers
<1> SUFFICES ASSUME MonInit, NEW t \in TS PROVE since_fwd[t] + busy[t] >= Holdoff
  BY DEF BusyCovers
<1>1. since_fwd[t] = Far /\ busy[t] = 0
  BY DEF MonInit, Init
<1> QED
  BY <1>1, FarType, ConstantsType

LEMMA BusyCoversNext == TypeOK /\ MonTypeOK /\ BusyCovers /\ [MonNext]_allVars => BusyCovers'
<1> SUFFICES ASSUME TypeOK, MonTypeOK, BusyCovers, [MonNext]_allVars, NEW t \in TS
             PROVE  since_fwd'[t] + busy'[t] >= Holdoff
  BY DEF BusyCovers
<1>t. /\ since_fwd[t] \in 0..Far /\ busy[t] \in 0..Holdoff /\ busy \in [TS -> 0..Holdoff]
      /\ since_fwd[t] + busy[t] >= Holdoff
      /\ Holdoff \in Nat /\ Far \in Nat /\ Far >= Holdoff
  BY ConstantsType, FarType DEF TypeOK, TxTypeOK, MonTypeOK, BusyCovers
<1>6. CASE UNCHANGED <<since_fwd, busy>>
  BY <1>t, <1>6
<1>1. CASE \E ts \in TS, c \in IpscCalls, b \in IpscBursts : WatchIpsc(ts, c, b)
  <2>1. PICK ts \in TS, c \in IpscCalls, b \in IpscBursts : WatchIpsc(ts, c, b)
    BY <1>1
  <2>2. busy' \in {busy, [busy EXCEPT ![ts] = Holdoff]}
    BY <2>1 DEF WatchIpsc, ipsc_voice_received, IpscHead, IpscRepeatedHead, IpscTerm, IpscVoice,
                IpscIgnored, IpscAccepted, IpscReflected, IpscRefused, IpscWithoutMetadata
  <2>3. toHbp' = Silent \/ busy' = [busy EXCEPT ![ts] = Holdoff]
    BY <2>1, IpscForwards DEF WatchIpsc, IpscAccepted
  <2>4. since_fwd'[t] \in {0, since_fwd[t]} /\ (t # ts \/ toHbp' = Silent => since_fwd'[t] = since_fwd[t])
    BY <2>1, WiresSeen DEF WatchIpsc, Silent
  <2> QED
    BY <1>t, <2>2, <2>3, <2>4
<1>2. CASE \E ts \in TS, c \in HbpCalls, frame \in HbpFrames : WatchHbp(ts, c, frame)
  <2>1. PICK ts \in TS, c \in HbpCalls, frame \in HbpFrames : WatchHbp(ts, c, frame)
    BY <1>2
  <2>2. UNCHANGED busy /\ toHbp' = Silent
    BY <2>1, HbpFrame DEF WatchHbp, HbpHeard
  <2> QED
    BY <1>t, <2>1, <2>2, WiresSeen DEF WatchHbp, Silent
<1>3. CASE \E ts \in TS : Drain(ts) /\ WatchWires(ts) /\ UNCHANGED turned_away
  <2>1. PICK ts \in TS : Drain(ts) /\ WatchWires(ts)
    BY <1>3
  <2>2. UNCHANGED busy /\ toHbp' = Silent
    BY <2>1 DEF Drain
  <2> QED
    BY <1>t, <2>1, <2>2, WiresSeen DEF Silent
<1>4. CASE Tick /\ ElapseClocks
  <2>1. busy'[t] = Down(busy[t])
    BY <1>4 DEF Tick
  <2> QED
    BY <1>t, <1>4, <2>1, ClocksSeen DEF Up, Down
<1>5. CASE (PeerLost /\ NewSession) \/ WatchDisconnect
  <2>1. since_fwd'[t] = Far
    BY <1>5, SessionSeen, DisconnectForgets
  <2>2. busy'[t] \in {busy[t], Holdoff}
    BY <1>5, <1>t DEF PeerLost, WatchDisconnect, HbpDisconnected, NothingForwarded, SendDmrdFails
  <2> QED
    BY <1>t, <2>1, <2>2
<1>7. CASE /\ Watchdog \/ PeerRegistered \/ HbpConnected \/ HbpDropped \/ UNCHANGED vars
           /\ UNCHANGED monVars
  BY <1>6, <1>7 DEF Watchdog, PeerRegistered, HbpConnected, HbpDropped, SetLinks, vars,
                    monVars, wireVars
<1> QED
  BY <1>1, <1>2, <1>3, <1>4, <1>5, <1>7, MonSteps DEF allVars

\* Whatever leaves for the repeater, paced or not, finds the slot not busy.
LEMMA TransmitsFreeSlot ==
  ASSUME TypeOK, [MonNext]_allVars, ~UNCHANGED allVars, NEW t \in TS, toIpsc'[t] # <<>>
  PROVE  NotBusy(t)
<1>1. CASE \E ts \in TS, c \in IpscCalls, b \in IpscBursts : WatchIpsc(ts, c, b)
  BY <1>1, IpscFrame DEF WatchIpsc, IpscHeard, Silent
<1>2. CASE \E ts \in TS, c \in HbpCalls, frame \in HbpFrames : WatchHbp(ts, c, frame)
  BY <1>2, HbpIssues, TransmitSends DEF WatchHbp, TransmitNothing, Silent
<1>3. CASE \E ts \in TS : Drain(ts) /\ WatchWires(ts) /\ UNCHANGED turned_away
  BY <1>3, DrainSends
<1>4. CASE \/ Tick \/ PeerLost \/ WatchDisconnect \/ Watchdog
           \/ PeerRegistered \/ HbpConnected \/ HbpDropped
  BY <1>4, OthersAreSilent DEF Silent
<1> QED
  BY <1>1, <1>2, <1>3, <1>4, MonSteps

\* The busy guard keeps HBP traffic out of a slot for the whole holdoff after a frame
\* was forwarded, for every holdoff, with and without pacing and call lock.
THEOREM BusySlotIsKept == MonSpec => BusySlotIsLeftAlone
<1> DEFINE Inv == TypeOK /\ MonTypeOK /\ BusyCovers
<1>1. MonInit => Inv
  BY MonInitType, BusyCoversInit
<1>2. Inv /\ [MonNext]_allVars => Inv'
  BY MonitorWatches, NextTypeOK, MonTypeNext, BusyCoversNext
<1>3. Inv /\ [MonNext]_allVars
        => [\A ts \in TS : toIpsc'[ts] # <<>> => since_fwd[ts] >= Holdoff]_allVars
  <2> SUFFICES ASSUME Inv, [MonNext]_allVars, ~UNCHANGED allVars, NEW t \in TS, toIpsc'[t] # <<>>
               PROVE  since_fwd[t] >= Holdoff
    OBVIOUS
  <2>1. busy[t] = 0
    BY TransmitsFreeSlot DEF NotBusy
  <2>2. since_fwd[t] + busy[t] >= Holdoff /\ since_fwd[t] \in 0..Far /\ Far \in Nat
    BY FarType DEF BusyCovers, MonTypeOK
  <2> QED
    BY <2>1, <2>2, ConstantsType
<1> QED
  BY <1>1, <1>2, <1>3, PTL DEF MonSpec, BusySlotIsLeftAlone

(***************************************************************************)
(* The turnaround of a slot.                                               *)
(***************************************************************************)
LEMMA LockCoversInit == MonInit => LockCovers
<1> SUFFICES ASSUME MonInit PROVE LockCovers
  OBVIOUS
<1>1. \A t \in TS : since_tx[t] = Far /\ since_fwd[t] = Far /\ in_started[t] = FALSE
  BY DEF MonInit, Init
<1>2. ~(Far <= Hang)
  BY FarType, ConstantsType
<1> QED
  BY <1>1, <1>2 DEF LockCovers, Keeps

\* While a direction keeps the slot, the lock is active; so what the lock lets
\* pass in the other direction comes after the pause.
LEMMA KeptIsActive ==
  ASSUME TypeOK, MonTypeOK, LockCovers, CallLock, ~SameTgOnly, NEW t \in TS
  PROVE  /\ since_tx[t] <= Hang => lock_owner[t] = "HBP" /\ LockActive(t)
         /\ since_fwd[t] <= Hang => lock_owner[t] = "IPSC" /\ LockActive(t)
BY ConstantsType, FarType DEF LockCovers, Keeps, LockActive, TypeOK, LockTypeOK, MonTypeOK, Expired

LEMMA PassesAfterPause ==
  ASSUME TypeOK, MonTypeOK, LockCovers, CallLock, ~SameTgOnly, NEW t \in TS, NEW tg
  PROVE  /\ ~Collides(t, "IPSC", tg) => since_tx[t] > Hang
         /\ ~Collides(t, "HBP", tg) => since_fwd[t] > Hang
<1>1. since_tx[t] \in Int /\ since_fwd[t] \in Int /\ Hang \in Int
  BY ConstantsType, FarType DEF MonTypeOK
<1> QED
  BY <1>1, KeptIsActive DEF Collides

\* What an accepted or reflected IPSC packet leaves of its slot's lock.
LEMMA IpscLeavesLock ==
  ASSUME TypeOK, HolderOwnsLock, CallLock, ~SameTgOnly, NEW ts \in TS, NEW c \in IpscCalls,
         NEW b \in IpscBursts, IpscUnblocked(ts, c, b), ipsc_voice_received(ts, c, b)
  PROVE  /\ lock_owner'[ts] = "IPSC"
         /\ \/ IpscHolds(ts)' \/ lock_until'[ts] = Hang
            \/ /\ toHbp'[ts] = <<>> /\ ~IpscHolds(ts)
               /\ lock_until'[ts] = UntilAfter(ts)
         /\ \A t \in TS \ {ts} : /\ lock_owner'[t] = lock_owner[t]
                                 /\ lock_until'[t] = lock_until[t]
                                 /\ out_stream_id'[t] = out_stream_id[t]
<1>t. /\ out_stream_id \in [TS -> IpscCalls \cup {None}]
      /\ lock_owner \in [TS -> Owners] /\ lock_until \in [TS -> Expired..Hang]
      /\ c # None /\ Silent[ts] = <<>>
  BY CallsType DEF TypeOK, OutTypeOK, LockTypeOK, Silent
<1>1. /\ lock_owner' = [lock_owner EXCEPT ![ts] = "IPSC"]
      /\ ~Collides(ts, "IPSC", c.tg)
  BY AdmittedOwner DEF IpscUnblocked, LockBlocks
<1>o. OwnerAfter(ts, "IPSC") = "IPSC"
  BY <1>1, <1>t DEF IpscUnblocked, TakeLock
<1>h. IpscHolds(ts) => lock_owner[ts] = "IPSC"
  BY DEF HolderOwnsLock
<1>k. ~IpscRefused(ts, c, b) /\ ~IpscWithoutMetadata(ts, c, b)
  BY DEF IpscUnblocked, IpscRefused, IpscWithoutMetadata
<1>2. /\ \A t \in TS \ {ts} : out_stream_id'[t] = out_stream_id[t] /\ lock_until'[t] = lock_until[t]
      /\ \/ IpscHolds(ts)' \/ lock_until'[ts] = Hang
         \/ /\ toHbp'[ts] = <<>> /\ ~IpscHolds(ts)
            /\ lock_until'[ts] = UntilAfter(ts)
  <2>1. CASE b = "HEAD" /\ IpscHead(ts, c)
    <3> DEFINE stream == IF OpenStream(ts, c, "HEAD") = None THEN c ELSE out_stream_id[ts]
    <3>1. /\ out_stream_id' = [out_stream_id EXCEPT ![ts] = stream]
          /\ lock_until' = [lock_until EXCEPT ![ts] = UntilRekeyed(ts, c, "HEAD")]
      BY <2>1 DEF IpscHead
    <3>2. stream # None
      BY <1>t DEF OpenStream
    <3> HIDE DEF stream
    <3> QED
      BY <1>t, <3>1, <3>2 DEF IpscHolds
  <2>2. CASE IpscTerm(ts, c)
    BY <1>t, <1>o, <2>2 DEF IpscTerm
  <2>3. CASE IpscVoice(ts, c, b)
    BY <1>t, <2>3 DEF IpscVoice, IpscHolds
  <2>4. CASE IpscIgnored(ts, c, b)
    BY <1>t, <2>4 DEF IpscIgnored, outVars, IpscHolds
  <2>5. CASE IpscRepeatedHead(ts, c)
    BY <1>t, <2>5 DEF IpscRepeatedHead, KeepOutCall, IpscHolds
  <2>6. CASE IpscReflected(ts, c, b)
    <3>1. CASE ChangesStream(ts, c, b)
      <4>1. IpscHolds(ts)
        BY <3>1 DEF ChangesStream, IpscHolds
      <4> QED
        BY <1>t, <1>h, <2>6, <3>1, <4>1 DEF IpscReflected, KeepOutCall, OpenStream, UntilRekeyed
    <3>2. CASE ~ChangesStream(ts, c, b)
      BY <1>t, <2>6, <3>2 DEF IpscReflected, KeepOutCall, OpenStream, UntilRekeyed, IpscHolds
    <3> QED
      BY <3>1, <3>2
  <2> QED
    BY <1>k, <2>1, <2>2, <2>3, <2>4, <2>5, <2>6 DEF ipsc_voice_received
<1> QED
  BY <1>t, <1>1, <1>2

\* What a HBP frame that was not blocked leaves of its slot's lock.
LEMMA HbpLeavesLock ==
  ASSUME TypeOK, HolderOwnsLock, CallLock, ~SameTgOnly, NEW ts \in TS, NEW c \in HbpCalls,
         NEW frame \in HbpFrames, HbpUnblocked(ts, c), hbp_voice_received(ts, c, frame)
  PROVE  /\ lock_owner'[ts] = "HBP"
         /\ \/ HbpHolds(ts)' \/ lock_until'[ts] = Hang
            \/ /\ toIpsc'[ts] = <<>> /\ ~HbpHolds(ts)
               /\ lock_until'[ts] = UntilAfter(ts)
         /\ \A t \in TS \ {ts} : /\ lock_owner'[t] = lock_owner[t]
                                 /\ lock_until'[t] = lock_until[t]
                                 /\ in_call'[t] = in_call[t] /\ in_started'[t] = in_started[t]
                                 /\ queue'[t] = queue[t]
<1>t. /\ in_call \in [TS -> HbpCalls \cup {None}] /\ in_started \in [TS -> BOOLEAN]
      /\ queue \in [TS -> Seq(Packet)]
      /\ lock_owner \in [TS -> Owners] /\ lock_until \in [TS -> Expired..Hang]
      /\ c # None /\ Silent[ts] = <<>>
  BY CallsType DEF TypeOK, InTypeOK, TxTypeOK, LockTypeOK, Silent
<1>k. ~HbpRefused(ts, c, frame)
  BY DEF HbpUnblocked, HbpRefused
<1>a. TakeLock(ts, "HBP", c.tg)
  BY <1>k DEF hbp_voice_received, HbpHead, HbpDuplicateHead, HbpTerm, HbpForeignTerm, HbpVoice,
              HbpLateEntry, HbpVoiceWithoutHead, AcquireCallLock, AcquireAndReleaseCallLock
<1>1. lock_owner' = [lock_owner EXCEPT ![ts] = "HBP"]
  BY <1>a, AdmittedOwner DEF HbpUnblocked, LockBlocks
<1>o. OwnerAfter(ts, "HBP") = "HBP"
  BY <1>1, <1>a, <1>t DEF TakeLock
<1>2. \A t \in TS \ {ts} : queue'[t] = queue[t]
  BY <1>t DEF hbp_voice_received, HbpRefused, HbpHead, HbpDuplicateHead, HbpTerm, HbpForeignTerm,
         HbpVoice, HbpLateEntry, HbpVoiceWithoutHead, Transmit, TransmitNothing, txVars
<1>3. \A t \in TS \ {ts} : in_call'[t] = in_call[t] /\ in_started'[t] = in_started[t]
  BY <1>t DEF hbp_voice_received, HbpRefused, HbpHead, HbpDuplicateHead, HbpTerm, HbpForeignTerm,
         HbpVoice, HbpLateEntry, HbpVoiceWithoutHead, BeginInCall, ResetInCall, inVars
<1>4. /\ \A t \in TS \ {ts} : lock_until'[t] = lock_until[t]
      /\ \/ HbpHolds(ts)' \/ lock_until'[ts] = Hang
         \/ /\ toIpsc'[ts] = <<>> /\ ~HbpHolds(ts)
            /\ lock_until'[ts] = UntilAfter(ts)
  <2>1. CASE HbpHead(ts, c)
    BY <1>t, <2>1 DEF HbpHead, BeginInCall, AcquireCallLock, HbpHolds
  <2>2. CASE HbpDuplicateHead(ts, c)
    BY <1>t, <2>2 DEF HbpDuplicateHead, DuplicateHead, AcquireCallLock, HbpHolds
  <2>3. CASE HbpTerm(ts, c)
    BY <1>t, <1>o, <2>3 DEF HbpTerm, AcquireAndReleaseCallLock
  <2>4. CASE HbpForeignTerm(ts, c)
    BY <1>t, <2>4 DEF HbpForeignTerm, ForeignTerm, AcquireCallLock, inVars, HbpHolds
  <2>5. CASE HbpVoice(ts, c)
    BY <1>t, <2>5 DEF HbpVoice, AcquireCallLock, HbpHolds
  <2>6. CASE HbpLateEntry(ts, c)
    BY <1>t, <2>6 DEF HbpLateEntry, BeginInCall, AcquireCallLock, HbpHolds
  <2>7. CASE HbpVoiceWithoutHead(ts, c)
    BY <1>t, <2>7 DEF HbpVoiceWithoutHead, AcquireCallLock, TransmitNothing, inVars, txVars, HbpHolds
  <2> QED
    BY <1>k, <2>1, <2>2, <2>3, <2>4, <2>5, <2>6, <2>7 DEF hbp_voice_received
<1> QED
  BY <1>t, <1>1, <1>2, <1>3, <1>4

LEMMA LockCoversNext ==
  TypeOK /\ MonTypeOK /\ HolderOwnsLock /\ LockCovers /\ [MonNext]_allVars => LockCovers'
<1> SUFFICES ASSUME TypeOK, MonTypeOK, HolderOwnsLock, LockCovers, [MonNext]_allVars,
                    CallLock, ~SameTgOnly, NEW t \in TS
             PROVE  /\ since_tx'[t] <= Hang =>
                         /\ lock_owner'[t] = "HBP"
                         /\ HbpHolds(t)' \/ lock_until'[t] + since_tx'[t] >= Hang
                    /\ since_fwd'[t] <= Hang =>
                         /\ lock_owner'[t] = "IPSC"
                         /\ IpscHolds(t)' \/ lock_until'[t] + since_fwd'[t] >= Hang
                    /\ in_started'[t] => in_call'[t] # None
  BY DEF LockCovers, Keeps
<1>t. /\ since_tx[t] \in 0..Far /\ since_fwd[t] \in 0..Far /\ Far \in Nat /\ Hang \in Nat
      /\ Far >= Hang + 1
      /\ lock_until \in [TS -> -1..Hang] /\ lock_until[t] \in -1..Hang
      /\ lock_owner \in [TS -> Owners]
  BY ConstantsType, FarType DEF TypeOK, LockTypeOK, Expired, MonTypeOK
<1>l. /\ since_tx[t] <= Hang =>
           /\ lock_owner[t] = "HBP"
           /\ HbpHolds(t) \/ lock_until[t] + since_tx[t] >= Hang
      /\ since_fwd[t] <= Hang =>
           /\ lock_owner[t] = "IPSC"
           /\ IpscHolds(t) \/ lock_until[t] + since_fwd[t] >= Hang
      /\ in_started[t] => in_call[t] # None
  BY DEF LockCovers, Keeps
<1>h. /\ IpscHolds(t) => lock_owner[t] = "IPSC"
      /\ HbpHolds(t) => lock_owner[t] = "HBP"
  BY DEF HolderOwnsLock
<1>0. CASE /\ lock_owner'[t] = lock_owner[t] /\ lock_until'[t] = lock_until[t]
           /\ since_tx'[t] = since_tx[t] /\ since_fwd'[t] = since_fwd[t]
           /\ HbpHolds(t)' = HbpHolds(t) /\ IpscHolds(t)' = IpscHolds(t)
           /\ in_started'[t] = in_started[t] /\ in_call'[t] = in_call[t]
  BY <1>0, <1>l
<1>1. CASE \E ts \in TS, c \in IpscCalls, b \in IpscBursts : WatchIpsc(ts, c, b)
  <2>1. PICK ts \in TS, c \in IpscCalls, b \in IpscBursts : WatchIpsc(ts, c, b)
    BY <1>1
  <2>2. /\ UNCHANGED <<in_call, in_started, queue>> /\ toIpsc' = Silent
        /\ ipsc_voice_received(ts, c, b)
    BY <2>1, IpscFrame DEF WatchIpsc, IpscHeard, inVars, txVars
  <2>3. HbpHolds(t)' = HbpHolds(t)
    BY <2>2 DEF HbpHolds
  <2>4. /\ since_tx'[t] = since_tx[t]
        /\ since_fwd'[t] = IF t = ts /\ toHbp'[t] # <<>> THEN 0 ELSE since_fwd[t]
    BY <2>1, <2>2, WiresSeen DEF WatchIpsc, Silent
  <2>5. CASE IpscUnblocked(ts, c, b)
    <3>1. /\ lock_owner'[ts] = "IPSC"
          /\ \/ IpscHolds(ts)' \/ lock_until'[ts] = Hang
             \/ /\ toHbp'[ts] = <<>> /\ ~IpscHolds(ts)
                /\ lock_until'[ts] = UntilAfter(ts)
          /\ \A s \in TS \ {ts} : /\ lock_owner'[s] = lock_owner[s]
                                  /\ lock_until'[s] = lock_until[s]
                                  /\ out_stream_id'[s] = out_stream_id[s]
      BY <2>2, <2>5, IpscLeavesLock
    <3>2. CASE t # ts
      BY <1>0, <2>2, <2>3, <2>4, <3>1, <3>2 DEF IpscHolds
    <3>3. CASE t = ts
      <4>1. since_tx[t] > Hang
        BY <2>5, <3>3, PassesAfterPause DEF IpscUnblocked, LockBlocks
      <4>2. since_fwd[t] <= Hang /\ ~IpscHolds(t) => UntilAfter(t) = lock_until[t]
        BY KeptIsActive DEF UntilAfter, Acquires
      <4>3. CASE IpscHolds(t)' \/ lock_until'[t] = Hang
        <5>1. Hang + since_fwd'[t] >= Hang
          BY <1>t, <2>4
        <5> QED
          BY <1>t, <1>l, <2>2, <2>4, <3>1, <3>3, <4>1, <4>3, <5>1
      <4>4. CASE toHbp'[t] = <<>> /\ ~IpscHolds(t) /\ lock_until'[t] = UntilAfter(t)
        BY <1>t, <1>l, <2>2, <2>4, <3>1, <3>3, <4>1, <4>2, <4>4
      <4> QED
        BY <3>1, <3>3, <4>3, <4>4
    <3> QED
      BY <3>2, <3>3
  <2>6. CASE IpscRefused(ts, c, b)
    <3>1. /\ UNCHANGED lock_owner /\ toHbp'[t] = <<>>
          /\ lock_until' = [lock_until EXCEPT ![ts] =
                              IF ChangesStream(ts, c, b) /\ lock_owner[ts] = "IPSC"
                              THEN Hang ELSE @]
          /\ out_stream_id' = [out_stream_id EXCEPT ![ts] = OpenStream(ts, c, b)]
      BY <2>6 DEF IpscRefused, KeepOutCall, Silent
    <3>2. CASE t = ts /\ ChangesStream(ts, c, b)
      <4>1. IpscHolds(t)
        BY <3>2 DEF ChangesStream, IpscHolds
      <4>2. lock_owner[t] = "IPSC" /\ lock_until'[t] = Hang
        BY <1>h, <1>t, <3>1, <3>2, <4>1
      <4> QED
        BY <1>l, <1>t, <2>2, <2>4, <3>1, <4>2
    <3>3. CASE ~(t = ts /\ ChangesStream(ts, c, b))
      <4>1. lock_until'[t] = lock_until[t]
        BY <1>t, <3>1, <3>3
      <4>2. IpscHolds(t)' = IpscHolds(t)
        BY <3>1, <3>3 DEF IpscHolds, OpenStream, TypeOK, OutTypeOK
      <4> QED
        BY <1>0, <2>2, <2>3, <2>4, <3>1, <4>1, <4>2
    <3> QED
      BY <3>2, <3>3
  <2>7. CASE IpscWithoutMetadata(ts, c, b)
    BY <1>0, <2>2, <2>3, <2>4, <2>7 DEF IpscWithoutMetadata, lockVars, outVars, IpscHolds, Silent
  <2> QED
    BY <2>2, <2>5, <2>6, <2>7 DEF ipsc_voice_received, IpscHead, IpscRepeatedHead, IpscTerm,
            IpscVoice, IpscIgnored, IpscReflected, IpscAccepted
<1>2. CASE \E ts \in TS, c \in HbpCalls, frame \in HbpFrames : WatchHbp(ts, c, frame)
  <2>1. PICK ts \in TS, c \in HbpCalls, frame \in HbpFrames : WatchHbp(ts, c, frame)
    BY <1>2
  <2>2. UNCHANGED out_stream_id /\ toHbp' = Silent /\ hbp_voice_received(ts, c, frame)
    BY <2>1, HbpFrame DEF WatchHbp, HbpHeard, outVars
  <2>3. IpscHolds(t)' = IpscHolds(t)
    BY <2>2 DEF IpscHolds
  <2>4. /\ since_fwd'[t] = since_fwd[t]
        /\ since_tx'[t] = IF t = ts /\ toIpsc'[t] # <<>> THEN 0 ELSE since_tx[t]
    BY <2>1, <2>2, WiresSeen DEF WatchHbp, Silent
  <2>5. CASE HbpUnblocked(ts, c)
    <3>1. /\ lock_owner'[ts] = "HBP"
          /\ \/ HbpHolds(ts)' \/ lock_until'[ts] = Hang
             \/ /\ toIpsc'[ts] = <<>> /\ ~HbpHolds(ts)
                /\ lock_until'[ts] = UntilAfter(ts)
          /\ \A s \in TS \ {ts} : /\ lock_owner'[s] = lock_owner[s]
                                  /\ lock_until'[s] = lock_until[s]
                                  /\ in_call'[s] = in_call[s] /\ in_started'[s] = in_started[s]
                                  /\ queue'[s] = queue[s]
      BY <2>2, <2>5, HbpLeavesLock
    <3>2. CASE t # ts
      BY <1>0, <2>3, <2>4, <3>1, <3>2 DEF HbpHolds
    <3>3. CASE t = ts
      <4>1. since_fwd[t] > Hang
        BY <2>5, <3>3, PassesAfterPause DEF HbpUnblocked, LockBlocks
      <4>2. since_tx[t] <= Hang /\ ~HbpHolds(t) => UntilAfter(t) = lock_until[t]
        BY KeptIsActive DEF UntilAfter, Acquires
      <4>s. in_started'[t] => in_call'[t] # None
        BY <1>l, <2>2, <3>3, CallsType
           DEF hbp_voice_received, HbpRefused, HbpHead, HbpDuplicateHead, HbpTerm, HbpForeignTerm,
               HbpVoice, HbpLateEntry, HbpVoiceWithoutHead, BeginInCall, ResetInCall, inVars,
               TypeOK, InTypeOK, DuplicateHead
      <4>3. CASE HbpHolds(t)' \/ lock_until'[t] = Hang
        <5>1. Hang + since_tx'[t] >= Hang
          BY <1>t, <2>4
        <5> QED
          BY <1>t, <1>l, <2>4, <3>1, <3>3, <4>1, <4>s, <4>3, <5>1
      <4>4. CASE toIpsc'[t] = <<>> /\ ~HbpHolds(t) /\ lock_until'[t] = UntilAfter(t)
        BY <1>t, <1>l, <2>4, <3>1, <3>3, <4>1, <4>2, <4>s, <4>4
      <4> QED
        BY <3>1, <3>3, <4>3, <4>4
    <3> QED
      BY <3>2, <3>3
  <2>6. CASE HbpRefused(ts, c, frame)
    <3>1. UNCHANGED <<lock_owner, lock_until, in_call, in_started, queue>> /\ toIpsc'[t] = <<>>
      BY <2>6 DEF HbpRefused, lockVars, inVars, txVars, TransmitNothing, Silent
    <3>2. HbpHolds(t)' = HbpHolds(t)
      BY <3>1 DEF HbpHolds
    <3> QED
      BY <1>0, <2>3, <2>4, <3>1, <3>2
  <2> QED
    BY <2>2, <2>5, <2>6 DEF hbp_voice_received, HbpHead, HbpDuplicateHead, HbpTerm, HbpForeignTerm,
            HbpVoice, HbpLateEntry, HbpVoiceWithoutHead
<1>3. CASE \E ts \in TS : Drain(ts) /\ WatchWires(ts) /\ UNCHANGED turned_away
  <2>1. PICK ts \in TS : Drain(ts) /\ WatchWires(ts)
    BY <1>3
  <2>2. /\ toHbp' = Silent /\ queue[ts] # <<>>
        /\ UNCHANGED <<out_stream_id, in_call, in_started, lock_owner>>
        /\ queue' = [queue EXCEPT ![ts] = Tail(queue[ts])]
        /\ lock_until' = [lock_until EXCEPT ![ts] =
                            IF Tail(queue[ts]) = <<>> /\ lock_owner[ts] = "HBP" /\ in_call[ts] = None
                            THEN Hang ELSE @]
    BY <2>1 DEF Drain, outVars, inVars
  <2>3. /\ IpscHolds(t)' = IpscHolds(t)
        /\ t # ts => HbpHolds(t)' = HbpHolds(t)
    BY <2>2 DEF IpscHolds, HbpHolds, TypeOK, TxTypeOK
  <2>4. /\ since_fwd'[t] = since_fwd[t]
        /\ since_tx'[t] = IF t = ts /\ toIpsc'[t] # <<>> THEN 0 ELSE since_tx[t]
    BY <2>1, <2>2, WiresSeen, DrainSends DEF Silent
  <2>5. CASE t # ts
    BY <1>0, <1>t, <2>2, <2>3, <2>4, <2>5
  <2>6. CASE t = ts
    <3>1. HbpHolds(t) /\ lock_owner[t] = "HBP"
      BY <1>h, <2>2, <2>6 DEF HbpHolds
    <3>2. since_fwd[t] > Hang
      BY <1>l, <1>t, <3>1
    <3>3. HbpHolds(t)' \/ lock_until'[t] = Hang
      BY <1>t, <2>2, <2>6, <3>1 DEF HbpHolds, TypeOK, TxTypeOK
    <3>4. Hang + since_tx'[t] >= Hang
      BY <1>t, <2>4
    <3> QED
      BY <1>l, <1>t, <2>2, <2>4, <3>1, <3>2, <3>3, <3>4
  <2> QED
    BY <2>5, <2>6
<1>4. CASE Tick /\ ElapseClocks
  <2>1. /\ UNCHANGED <<out_stream_id, in_call, in_started, queue, lock_owner>>
        /\ lock_until'[t] = IF lock_until[t] >= 0 THEN lock_until[t] - 1 ELSE -1
    BY <1>4 DEF Tick, outVars, Expired
  <2>2. HbpHolds(t)' = HbpHolds(t) /\ IpscHolds(t)' = IpscHolds(t)
    BY <2>1 DEF HbpHolds, IpscHolds
  <2> QED
    BY <1>t, <1>l, <1>4, <2>1, <2>2, ClocksSeen DEF Up
<1>5. CASE (PeerLost /\ NewSession) \/ WatchDisconnect
  <2>1. since_tx'[t] = Far /\ since_fwd'[t] = Far /\ in_started'[t] = FALSE
    BY <1>5, SessionSeen, PeerLossForgets, DisconnectForgets DEF ForgetCalls
  <2> QED
    BY <1>t, <2>1
<1>6. CASE Watchdog /\ UNCHANGED monVars
  <2>1. /\ UNCHANGED <<since_tx, since_fwd, lock_owner, queue>>
        /\ out_stream_id'[t] = IF OutTimedOut(t) THEN None ELSE out_stream_id[t]
        /\ in_call'[t] = IF InTimedOut(t) THEN None ELSE in_call[t]
        /\ in_started'[t] = (in_started[t] /\ ~InTimedOut(t))
        /\ lock_until'[t] = IF \/ OutTimedOut(t) /\ lock_owner[t] = "IPSC"
                               \/ InTimedOut(t) /\ lock_owner[t] = "HBP"
                            THEN Hang ELSE lock_until[t]
    BY <1>6 DEF Watchdog, txVars, monVars, wireVars
  <2>2. lock_until'[t] \in {Hang, lock_until[t]} /\ lock_until'[t] >= lock_until[t]
    BY <1>t, <2>1
  <2>3. since_tx[t] <= Hang => HbpHolds(t)' \/ lock_until'[t] + since_tx[t] >= Hang
    <3>1. CASE HbpHolds(t)
      <4>1. InTimedOut(t) => lock_until'[t] = Hang
        BY <1>h, <2>1, <3>1
      <4>2. ~InTimedOut(t) => HbpHolds(t)'
        BY <2>1, <3>1 DEF HbpHolds
      <4> QED
        BY <1>t, <4>1, <4>2
    <3> QED
      BY <1>l, <1>t, <2>2, <3>1
  <2>4. since_fwd[t] <= Hang => IpscHolds(t)' \/ lock_until'[t] + since_fwd[t] >= Hang
    <3>1. CASE IpscHolds(t)
      <4>1. OutTimedOut(t) => lock_until'[t] = Hang
        BY <1>h, <2>1, <3>1
      <4>2. ~OutTimedOut(t) => IpscHolds(t)'
        BY <2>1, <3>1 DEF IpscHolds
      <4> QED
        BY <1>t, <4>1, <4>2
    <3> QED
      BY <1>l, <1>t, <2>2, <3>1
  <2> QED
    BY <1>l, <2>1, <2>3, <2>4
<1>7. CASE /\ PeerRegistered \/ HbpConnected \/ HbpDropped \/ UNCHANGED vars
           /\ UNCHANGED monVars
  <2>1. UNCHANGED <<since_tx, since_fwd, lock_owner, lock_until, queue, in_call, in_started,
                    out_stream_id>>
    BY <1>7 DEF PeerRegistered, HbpConnected, HbpDropped, SetLinks, vars, outVars, inVars, txVars,
                lockVars, monVars, wireVars
  <2> QED
    BY <1>0, <2>1 DEF HbpHolds, IpscHolds
<1> QED
  BY <1>1, <1>2, <1>3, <1>4, <1>5, <1>6, <1>7, MonSteps DEF allVars

\* What is forwarded was accepted after the pause, what is transmitted too.
LEMMA TurnsAfterPause ==
  ASSUME TypeOK, MonTypeOK, HolderOwnsLock, LockCovers, [MonNext]_allVars, ~UNCHANGED allVars,
         CallLock, ~SameTgOnly, NEW t \in TS
  PROVE  /\ toHbp'[t] # <<>> => since_tx[t] > Hang
         /\ toIpsc'[t] # <<>> => since_fwd[t] > Hang
<1>1. CASE \E ts \in TS, c \in IpscCalls, b \in IpscBursts : WatchIpsc(ts, c, b)
  <2>1. PICK ts \in TS, c \in IpscCalls, b \in IpscBursts : WatchIpsc(ts, c, b)
    BY <1>1
  <2>2. /\ toIpsc'[t] = <<>>
        /\ toHbp'[t] # <<>> => t = ts /\ IpscAccepted(ts, c, b)
    BY <2>1, IpscForwards DEF WatchIpsc, Silent
  <2> QED
    BY <2>2, PassesAfterPause DEF IpscAccepted, IpscUnblocked, LockBlocks
<1>2. CASE \E ts \in TS, c \in HbpCalls, frame \in HbpFrames : WatchHbp(ts, c, frame)
  <2>1. PICK ts \in TS, c \in HbpCalls, frame \in HbpFrames : WatchHbp(ts, c, frame)
    BY <1>2
  <2>2. /\ toHbp'[t] = <<>>
        /\ toIpsc'[t] # <<>> => t = ts /\ HbpUnblocked(ts, c)
    BY <2>1, HbpIssues, TransmitSends DEF WatchHbp, TransmitNothing, Silent
  <2> QED
    BY <2>2, PassesAfterPause DEF HbpUnblocked, LockBlocks
<1>3. CASE \E ts \in TS : Drain(ts) /\ WatchWires(ts) /\ UNCHANGED turned_away
  <2>1. PICK ts \in TS : Drain(ts)
    BY <1>3
  <2>2. /\ toHbp'[t] = <<>> /\ queue[ts] # <<>>
        /\ toIpsc'[t] # <<>> => t = ts
    BY <2>1, DrainSends DEF Silent
  <2>3. toIpsc'[t] # <<>> => lock_owner[t] = "HBP"
    BY <2>2 DEF HolderOwnsLock, HbpHolds
  <2>4. since_fwd[t] <= Hang => lock_owner[t] = "IPSC"
    BY DEF LockCovers, Keeps
  <2> QED
    BY <2>2, <2>3, <2>4, ConstantsType, FarType DEF MonTypeOK
<1>4. CASE \/ Tick \/ PeerLost \/ Watchdog
           \/ PeerRegistered \/ HbpConnected \/ HbpDropped
  BY <1>4, OthersAreSilent DEF Silent
<1>5. CASE WatchDisconnect
  <2>1. CASE HbpDisconnected
    BY <2>1 DEF HbpDisconnected, ForgetCalls, NothingForwarded, Silent
  <2>2. CASE \E ts \in TS, c \in IpscCalls, b \in IpscBursts : SendDmrdFails(ts, c, b)
    <3>1. PICK ts \in TS, c \in IpscCalls, b \in IpscBursts : SendDmrdFails(ts, c, b)
      BY <2>2
    <3>2. /\ toIpsc'[t] = <<>> /\ ~LockBlocks(ts, "IPSC", c)
          /\ t # ts => toHbp'[t] = <<>>
      BY <3>1 DEF SendDmrdFails, ForgetCalls, Silent
    <3> QED
      BY <3>2, PassesAfterPause DEF LockBlocks
  <2> QED
    BY <1>5, <2>1, <2>2 DEF WatchDisconnect
<1> QED
  BY <1>1, <1>2, <1>3, <1>4, <1>5, MonSteps

\* With the call lock over all talkgroups the direction of a slot turns around only
\* after a pause longer than the hang, however the calls of both sides end: by terminator,
\* timeout, disconnection, or with packets still waiting for the paced transmitter.
THEOREM SlotsTurnAfterPause == MonSpec => Turnaround
<1> DEFINE Inv == TypeOK /\ HolderOwnsLock /\ MonTypeOK /\ LockCovers
<1>1. MonInit => Inv
  BY MonInitType, HolderOwnsLockInit, LockCoversInit DEF MonInit
<1>2. Inv /\ [MonNext]_allVars => Inv'
  BY MonitorWatches, NextTypeOK, HolderOwnsLockNext, MonTypeNext, LockCoversNext
<1>3. Inv /\ [MonNext]_allVars
        => [CallLock /\ ~SameTgOnly => \A ts \in TS :
              /\ toHbp'[ts] # <<>> => since_tx[ts] > Hang
              /\ toIpsc'[ts] # <<>> => since_fwd[ts] > Hang]_allVars
  BY TurnsAfterPause
<1> QED
  BY <1>1, <1>2, <1>3, PTL DEF MonSpec, Turnaround

(***************************************************************************)
(* The echo.                                                               *)
(***************************************************************************)
LEMMA EchoRememberedInit == MonInit => EchoRemembered
<1> SUFFICES ASSUME MonInit PROVE EchoRemembered
  OBVIOUS
<1>1. \A t \in TS : since_tx[t] = Far
  BY DEF MonInit
<1> QED
  BY <1>1, FarType, ConstantsType DEF EchoRemembered

\* What a transmission is remembered by.
LEMMA RememberedFor ==
  ASSUME TypeOK, ReflectSuppression, NEW ts \in TS, NEW c \in HbpCalls
  PROVE  Remembered(ts, c)[ts][<<c.src, c.tg>>] = ReflectWindow
<1>1. <<c.src, c.tg>> \in Srcs \X Tgs
  BY CallsType
<1> QED
  BY <1>1 DEF Remembered, TypeOK, ReflectTypeOK

LEMMA EchoRememberedNext ==
  TypeOK /\ MonTypeOK /\ EchoRemembered /\ [MonNext]_allVars => EchoRemembered'
<1> SUFFICES ASSUME TypeOK, MonTypeOK, EchoRemembered, [MonNext]_allVars,
                    ReflectSuppression, NEW t \in TS, since_tx'[t] < ReflectWindow
             PROVE  /\ last_tx'[t] # None
                    /\ since_tx'[t] + reflect_recent'[t][<<last_tx'[t].src, last_tx'[t].tg>>]
                         >= ReflectWindow
  BY DEF EchoRemembered
<1>t. /\ since_tx[t] \in 0..Far /\ Far \in Nat /\ Far >= ReflectWindow
      /\ ReflectWindow \in Nat \ {0}
      /\ last_tx[t] \in HbpCalls \cup {None}
      /\ \A c \in HbpCalls : /\ c # None
                             /\ reflect_recent[t][<<c.src, c.tg>>] \in 0..ReflectWindow
  BY ConstantsType, FarType, CallsType DEF TypeOK, ReflectTypeOK, MonTypeOK
<1>l. since_tx[t] < ReflectWindow =>
        /\ last_tx[t] # None
        /\ since_tx[t] + reflect_recent[t][<<last_tx[t].src, last_tx[t].tg>>] >= ReflectWindow
  BY DEF EchoRemembered
<1>0. CASE /\ since_tx'[t] = since_tx[t] /\ last_tx'[t] = last_tx[t]
           /\ reflect_recent'[t] = reflect_recent[t]
  BY <1>0, <1>l
<1>s. ASSUME NEW c \in HbpCalls, since_tx'[t] = 0, last_tx'[t] = c,
             reflect_recent' = Remembered(t, c)
      PROVE  /\ last_tx'[t] # None
             /\ since_tx'[t] + reflect_recent'[t][<<last_tx'[t].src, last_tx'[t].tg>>]
                  >= ReflectWindow
  BY <1>t, <1>s, RememberedFor
<1>1. CASE \E ts \in TS, c \in IpscCalls, b \in IpscBursts : WatchIpsc(ts, c, b)
  BY <1>0, <1>1, IpscFrame, WiresSeen DEF WatchIpsc, IpscHeard, Silent
<1>2. CASE \E ts \in TS, c \in HbpCalls, frame \in HbpFrames : WatchHbp(ts, c, frame)
  <2>1. PICK ts \in TS, c \in HbpCalls, frame \in HbpFrames : WatchHbp(ts, c, frame)
    BY <1>2
  <2>2. CASE TransmitNothing
    BY <1>0, <2>1, <2>2, WiresSeen DEF WatchHbp, TransmitNothing, Silent
  <2>3. CASE \E pkts \in Seq(Packet) : /\ pkts # <<>>
                                       /\ Last(pkts).call = c
                                       /\ Transmit(ts, pkts, c)
    <3>1. PICK pkts \in Seq(Packet) : pkts # <<>> /\ Last(pkts).call = c /\ Transmit(ts, pkts, c)
      BY <2>3
    <3>2. CASE t = ts /\ toIpsc'[ts] # <<>>
      <4>1. toIpsc'[t] = pkts /\ reflect_recent' = Remembered(t, c)
        BY <3>1, <3>2, TransmitSends
      <4>2. since_tx'[t] = 0 /\ last_tx'[t] = c
        BY <2>1, <3>1, <3>2, <4>1, WiresSeen DEF WatchHbp
      <4> QED
        BY <1>s, <4>1, <4>2
    <3>3. CASE ~(t = ts /\ toIpsc'[ts] # <<>>)
      <4>1. reflect_recent'[t] = reflect_recent[t]
        BY <3>1, <3>3, TransmitSends
      <4> QED
        BY <1>0, <2>1, <3>3, <4>1, WiresSeen DEF WatchHbp
    <3> QED
      BY <3>2, <3>3
  <2> QED
    BY <2>1, <2>2, <2>3, HbpIssues DEF WatchHbp
<1>3. CASE \E ts \in TS : Drain(ts) /\ WatchWires(ts) /\ UNCHANGED turned_away
  <2>1. PICK ts \in TS : Drain(ts) /\ WatchWires(ts)
    BY <1>3
  <2> DEFINE packet == Head(queue[ts])
  <2>2. CASE t = ts /\ toIpsc'[ts] # <<>>
    <3>1. /\ packet \in Packet /\ toIpsc'[t] = <<packet>>
          /\ reflect_recent' = Remembered(t, packet.call)
      BY <2>1, <2>2, DrainSends
    <3> HIDE DEF packet
    <3>2. packet.call \in HbpCalls
      BY <3>1 DEF Packet
    <3>3. since_tx'[t] = 0 /\ last_tx'[t] = packet.call
      BY <2>1, <2>2, <3>1, WiresSeen DEF Last
    <3> QED
      BY <1>s, <3>1, <3>2, <3>3
  <2>3. CASE ~(t = ts /\ toIpsc'[ts] # <<>>)
    BY <1>0, <2>1, <2>3, DrainSends, WiresSeen, SMTT(30)
  <2> QED
    BY <2>2, <2>3
<1>4. CASE Tick /\ ElapseClocks
  <2>1. last_tx'[t] = last_tx[t] /\ since_tx'[t] = Up(since_tx[t], Far)
    BY <1>4, ClocksSeen
  <2>2. \A c \in HbpCalls : reflect_recent'[t][<<c.src, c.tg>>] = Down(reflect_recent[t][<<c.src, c.tg>>])
    BY <1>4, CallsType DEF Tick
  <2>3. since_tx[t] < ReflectWindow /\ since_tx'[t] = since_tx[t] + 1
    BY <1>t, <2>1 DEF Up
  <2> QED
    BY <1>t, <1>l, <2>1, <2>2, <2>3 DEF Down
<1>5. CASE (PeerLost /\ NewSession) \/ WatchDisconnect
  <2>1. since_tx'[t] = Far
    BY <1>5, SessionSeen, DisconnectForgets
  <2> QED
    BY <1>t, <2>1
<1>6. CASE /\ Watchdog \/ PeerRegistered \/ HbpConnected \/ HbpDropped \/ UNCHANGED vars
           /\ UNCHANGED monVars
  BY <1>0, <1>6 DEF Watchdog, PeerRegistered, HbpConnected, HbpDropped, SetLinks, vars, reflectVars,
                    monVars, wireVars
<1> QED
  BY <1>1, <1>2, <1>3, <1>4, <1>5, <1>6, MonSteps DEF allVars

\* Whatever is forwarded, also by a send_dmrd that fails at the second of two heads,
\* is of a call the lock and the filter let pass; and a head is a head's.
LEMMA ForwardedPassed ==
  ASSUME [MonNext]_allVars, ~UNCHANGED allVars, NEW t \in TS, NEW i \in 1..Len(toHbp'[t]), TypeOK'
  PROVE  \E c \in IpscCalls, b \in IpscBursts :
           /\ toHbp'[t][i].call = c
           /\ ~LockBlocks(t, "IPSC", c)
           /\ ~IsReflection(t, c, b)
           /\ toHbp'[t][i].frame = "HEAD" => b = "HEAD"
<1>0. toHbp'[t] # <<>>
  BY DEF TypeOK, WireTypeOK
<1>1. CASE \E ts \in TS, c \in IpscCalls, b \in IpscBursts : WatchIpsc(ts, c, b)
  <2>1. PICK ts \in TS, c \in IpscCalls, b \in IpscBursts : ipsc_voice_received(ts, c, b)
    BY <1>1 DEF WatchIpsc
  <2>2. IpscAccepted(ts, c, b)
    BY <1>0, <2>1, IpscForwards DEF Silent
  <2>3. PICK n \in {1, 2}, frame \in HbpFrames : \E stream, lc, pos :
               /\ toHbp' = [Silent EXCEPT ![ts] = Frames(n, frame, c, stream, lc, pos)]
               /\ frame = "HEAD" => b = "HEAD"
    BY <1>0, <2>1, IpscForwards DEF Silent
  <2>4. PICK stream, lc, pos :
               /\ toHbp' = [Silent EXCEPT ![ts] = Frames(n, frame, c, stream, lc, pos)]
               /\ frame = "HEAD" => b = "HEAD"
    BY <2>3
  <2>5. t = ts /\ toHbp'[t][i].frame = frame /\ toHbp'[t][i].call = c
    <3> DEFINE frames == Frames(n, frame, c, stream, lc, pos)
    <3>1. Len(frames) = n /\ \A j \in 1..n : frames[j].frame = frame /\ frames[j].call = c
      BY FrameFields
    <3>2. toHbp'[ts] = frames /\ \A s \in TS \ {ts} : toHbp'[s] = <<>>
      BY <2>4, SentOnSlot
    <3> HIDE DEF frames
    <3> QED
      BY <1>0, <3>1, <3>2
  <2> QED
    BY <2>2, <2>4, <2>5 DEF IpscAccepted, IpscUnblocked
<1>2. CASE \E ts \in TS, c \in HbpCalls, frame \in HbpFrames : WatchHbp(ts, c, frame)
  BY <1>0, <1>2, HbpFrame DEF WatchHbp, HbpHeard, Silent
<1>3. CASE \E ts \in TS : Drain(ts) /\ WatchWires(ts) /\ UNCHANGED turned_away
  BY <1>0, <1>3 DEF Drain, Silent
<1>4. CASE Tick \/ PeerLost \/ Watchdog \/ PeerRegistered \/ HbpConnected \/ HbpDropped
  BY <1>0, <1>4, OthersAreSilent DEF Silent
<1>5. CASE HbpDisconnected
  BY <1>0, <1>5 DEF HbpDisconnected, NothingForwarded, Silent
<1>6. CASE \E ts \in TS, c \in IpscCalls, b \in IpscBursts : SendDmrdFails(ts, c, b)
  <2>1. PICK ts \in TS, c \in IpscCalls, b \in IpscBursts : SendDmrdFails(ts, c, b)
    BY <1>6
  <2>2. PICK k \in 1..(IF Legacy /\ b = "HEAD" THEN 2 ELSE 1) :
               toHbp' = [Silent EXCEPT ![ts] = Frames(k - 1, "HEAD", c, c, c, 0)]
    BY <2>1 DEF SendDmrdFails
  <2>3. t = ts /\ i \in 1..(k - 1) /\ toHbp'[t][i].call = c
    <3> DEFINE frames == Frames(k - 1, "HEAD", c, c, c, 0)
    <3>1. Len(frames) = k - 1 /\ \A j \in 1..(k - 1) : frames[j].call = c
      BY FrameFields
    <3>2. toHbp'[ts] = frames /\ \A s \in TS \ {ts} : toHbp'[s] = <<>>
      BY <2>2, SentOnSlot
    <3> HIDE DEF frames
    <3> QED
      BY <1>0, <3>1, <3>2
  <2>4. b = "HEAD"
    BY <2>3
  <2> QED
    BY <2>1, <2>3, <2>4 DEF SendDmrdFails
<1> QED
  BY <1>1, <1>2, <1>3, <1>4, <1>5, <1>6, MonSteps DEF WatchDisconnect

\* In PEER mode the repeater's echo of a call being transmitted to it opens no call
\* back to HBP, for every window, with and without pacing.
THEOREM EchoStaysOut == MonSpec => EchoIsSuppressed
<1> DEFINE Inv == TypeOK /\ MonTypeOK /\ EchoRemembered
<1>1. MonInit => Inv
  BY MonInitType, EchoRememberedInit
<1>2. Inv /\ [MonNext]_allVars => Inv'
  BY MonitorWatches, NextTypeOK, MonTypeNext, EchoRememberedNext
<1>3. Inv /\ Inv' /\ [MonNext]_allVars
        => [ReflectSuppression => \A ts \in TS : \A i \in 1..Len(toHbp'[ts]) :
              LET d == toHbp'[ts][i]
              IN d.frame = "HEAD" /\ in_started[ts] /\ since_tx[ts] < ReflectWindow
                   => <<last_tx[ts].src, last_tx[ts].tg>> # <<d.call.src, d.call.tg>>]_allVars
  <2> SUFFICES ASSUME Inv, Inv', [MonNext]_allVars, ~UNCHANGED allVars, ReflectSuppression,
                      NEW t \in TS, NEW i \in 1..Len(toHbp'[t]), toHbp'[t][i].frame = "HEAD",
                      in_started[t], since_tx[t] < ReflectWindow
               PROVE  <<last_tx[t].src, last_tx[t].tg>> # <<toHbp'[t][i].call.src, toHbp'[t][i].call.tg>>
    OBVIOUS
  <2>1. PICK c \in IpscCalls : toHbp'[t][i].call = c /\ ~IsReflection(t, c, "HEAD")
    BY ForwardedPassed
  <2>2. ~(reflect_recent[t][<<c.src, c.tg>>] > 0)
    BY <2>1 DEF IsReflection
  <2>3. since_tx[t] + reflect_recent[t][<<last_tx[t].src, last_tx[t].tg>>] >= ReflectWindow
    BY DEF EchoRemembered
  <2>4. since_tx[t] \in Nat /\ reflect_recent[t][<<c.src, c.tg>>] \in Nat
    BY CallsType, FarType, ConstantsType DEF MonTypeOK, TypeOK, ReflectTypeOK
  <2>5. <<last_tx[t].src, last_tx[t].tg>> # <<c.src, c.tg>>
    BY <2>2, <2>3, <2>4, ConstantsType
  <2> QED
    BY <2>1, <2>5
<1> QED
  BY <1>1, <1>2, <1>3, PTL DEF MonSpec, EchoIsSuppressed

(***************************************************************************)
(* The calls turned away.                                                  *)
(***************************************************************************)
LEMMA RefusalRememberedInit == MonInit => RefusalRemembered
<1> SUFFICES ASSUME MonInit PROVE RefusalRemembered
  OBVIOUS
<1>1. \A t \in TS : /\ \A s \in Streams : turned_away[t][s] = 0
                    /\ \A s \in IpscStreams : reflect_ignore[t][s] = 0
  BY DEF MonInit, Init, Forgiven
<1> QED
  BY <1>1 DEF RefusalRemembered

\* A call that passes the lock and the filter was not turned away.
LEMMA PassingIsWelcome ==
  ASSUME TypeOK, MonTypeOK, RefusalRemembered, ~Legacy, NEW t \in TS
  PROVE  /\ \A c \in IpscCalls, b \in IpscBursts :
              ~LockBlocks(t, "IPSC", c) /\ ~IsReflection(t, c, b) => turned_away[t][c.stream] = 0
         /\ \A c \in HbpCalls : ~LockBlocks(t, "HBP", c) => turned_away[t][c.stream] = 0
<1>t. /\ \A s \in Streams : turned_away[t][s] \in Nat /\ blocked[t][s] \in Nat
      /\ \A s \in IpscStreams : reflect_ignore[t][s] \in Nat
  BY ConstantsType, StayOutType DEF TypeOK, LockTypeOK, ReflectTypeOK, MonTypeOK
<1>c. /\ \A c \in IpscCalls : c.stream \in Streams /\ c.stream \in IpscStreams
      /\ \A c \in HbpCalls : c.stream \in Streams /\ c.stream \notin IpscStreams
  BY CallsType, CallsAssumption DEF Streams
<1>1. ASSUME NEW c \in IpscCalls, NEW b \in IpscBursts,
             ~LockBlocks(t, "IPSC", c), ~IsReflection(t, c, b)
      PROVE  turned_away[t][c.stream] = 0
  <2>1. CallLock => ~(blocked[t][c.stream] > 0)
    BY <1>1 DEF LockBlocks, AlreadyRefused
  <2>2. ReflectSuppression => ~(reflect_ignore[t][c.stream] > 0)
    BY <1>1 DEF IsReflection
  <2> QED
    BY <1>t, <1>c, <2>1, <2>2 DEF RefusalRemembered, Remembers
<1>2. ASSUME NEW c \in HbpCalls, ~LockBlocks(t, "HBP", c)
      PROVE  turned_away[t][c.stream] = 0
  <2>1. CallLock => ~(blocked[t][c.stream] > 0)
    BY <1>2 DEF LockBlocks, AlreadyRefused
  <2> QED
    BY <1>t, <1>c, <2>1 DEF RefusalRemembered, Remembers
<1> QED
  BY <1>1, <1>2

\* Where the lock covers every talkgroup the filter has nothing left to find: the
\* call whose echo it would be holds the slot.
LEMMA LockBeforeFilter ==
  ASSUME TypeOK, HolderOwnsLock, RefusalRemembered, ~Legacy, ByLockAlone, NEW ts \in TS,
         NEW c \in IpscCalls, NEW b \in IpscBursts, ~LockBlocks(ts, "IPSC", c)
  PROVE  ~IsReflection(ts, c, b)
<1> SUFFICES ASSUME IsReflection(ts, c, b) PROVE FALSE
  OBVIOUS
<1>1. CallLock /\ ~SameTgOnly
  BY ConstantsType DEF ByLockAlone, IsReflection
<1>2. reflect_ignore[ts][c.stream] = 0
  BY CallsType DEF RefusalRemembered
<1>3. in_started[ts]
  BY <1>2 DEF IsReflection
<1>4. HbpHolds(ts) /\ lock_owner[ts] = "HBP"
  BY <1>1, <1>3 DEF HolderOwnsLock, HbpHolds
<1> QED
  BY <1>1, <1>4 DEF LockBlocks, Collides, LockActive

\* What the monitor notes of a stream heard; a packet does not touch the others.
LEMMA StreamSeen ==
  ASSUME MonTypeOK, NEW ts \in TS, NEW s \in Streams, NEW is_head \in BOOLEAN,
         NEW is_end \in BOOLEAN, NEW opened \in BOOLEAN,
         ~(is_head /\ is_end), WatchStream(ts, s, is_head, is_end, opened)
  PROVE  /\ turned_away'[ts][s] \in {0, StayOut}
         /\ is_end \/ (turned_away[ts][s] = 0 /\ (is_head => opened)) => turned_away'[ts][s] = 0
         /\ \A u \in Streams \ {s} : turned_away'[ts][u] = turned_away[ts][u]
         /\ \A t \in TS \ {ts} : turned_away'[t] = turned_away[t]
<1>1. turned_away \in [TS -> [Streams -> 0..StayOut]]
  BY DEF MonTypeOK
<1>2. turned_away'[ts][s] = CASE is_end -> 0
                              [] is_head /\ ~opened -> StayOut
                              [] OTHER -> IF turned_away[ts][s] > 0 THEN StayOut ELSE 0
  BY <1>1 DEF WatchStream
<1>3. /\ \A u \in Streams \ {s} : turned_away'[ts][u] = turned_away[ts][u]
      /\ \A t \in TS \ {ts} : turned_away'[t] = turned_away[t]
  BY <1>1 DEF WatchStream
<1>4. CASE is_end
  BY <1>2, <1>3, <1>4
<1>5. CASE ~is_end /\ is_head /\ ~opened
  BY <1>2, <1>3, <1>5
<1>6. CASE ~is_end /\ ~(is_head /\ ~opened)
  <2>1. turned_away'[ts][s] = IF turned_away[ts][s] > 0 THEN StayOut ELSE 0
    BY <1>2, <1>6
  <2> QED
    BY <1>3, <1>6, <2>1
<1> QED
  BY <1>4, <1>5, <1>6

\* Seen by the slot of the packet.
LEMMA IpscStreamSeen ==
  ASSUME MonTypeOK, NEW ts \in TS, NEW c \in IpscCalls, NEW b \in IpscBursts, WatchIpsc(ts, c, b)
  PROVE  /\ turned_away'[ts][c.stream] \in {0, StayOut}
         /\ b = "TERM" => turned_away'[ts][c.stream] = 0
         /\ turned_away[ts][c.stream] = 0 /\ (b = "HEAD" => out_stream_id'[ts] # None)
              => turned_away'[ts][c.stream] = 0
         /\ \A u \in Streams \ {c.stream} : turned_away'[ts][u] = turned_away[ts][u]
         /\ \A t \in TS \ {ts} : turned_away'[t] = turned_away[t]
<1> DEFINE head == b = "HEAD"
           end == b = "TERM"
           opened == out_stream_id'[ts] # None
<1>1. /\ head \in BOOLEAN /\ end \in BOOLEAN /\ opened \in BOOLEAN /\ ~(head /\ end)
      /\ c.stream \in Streams
  BY CallsType DEF Streams
<1>2. WatchStream(ts, c.stream, head, end, opened)
  BY DEF WatchIpsc
<1> HIDE DEF head, end, opened
<1>3. /\ turned_away'[ts][c.stream] \in {0, StayOut}
      /\ end => turned_away'[ts][c.stream] = 0
      /\ turned_away[ts][c.stream] = 0 /\ (head => opened) => turned_away'[ts][c.stream] = 0
      /\ \A u \in Streams \ {c.stream} : turned_away'[ts][u] = turned_away[ts][u]
      /\ \A t \in TS \ {ts} : turned_away'[t] = turned_away[t]
  BY <1>1, <1>2, StreamSeen
<1> QED
  BY <1>3 DEF head, end, opened

LEMMA HbpStreamSeen ==
  ASSUME MonTypeOK, NEW ts \in TS, NEW c \in HbpCalls, NEW frame \in HbpFrames,
         WatchHbp(ts, c, frame)
  PROVE  /\ turned_away'[ts][c.stream] \in {0, StayOut}
         /\ frame = "TERM" => turned_away'[ts][c.stream] = 0
         /\ turned_away[ts][c.stream] = 0 /\ (frame = "HEAD" => in_call'[ts] # None)
              => turned_away'[ts][c.stream] = 0
         /\ \A u \in Streams \ {c.stream} : turned_away'[ts][u] = turned_away[ts][u]
         /\ \A t \in TS \ {ts} : turned_away'[t] = turned_away[t]
<1> DEFINE head == frame = "HEAD"
           end == frame = "TERM"
           opened == in_call'[ts] # None
<1>1. /\ head \in BOOLEAN /\ end \in BOOLEAN /\ opened \in BOOLEAN /\ ~(head /\ end)
      /\ c.stream \in Streams
  BY CallsType DEF Streams
<1>2. WatchStream(ts, c.stream, head, end, opened)
  BY DEF WatchHbp
<1> HIDE DEF head, end, opened
<1>3. /\ turned_away'[ts][c.stream] \in {0, StayOut}
      /\ end => turned_away'[ts][c.stream] = 0
      /\ turned_away[ts][c.stream] = 0 /\ (head => opened) => turned_away'[ts][c.stream] = 0
      /\ \A u \in Streams \ {c.stream} : turned_away'[ts][u] = turned_away[ts][u]
      /\ \A t \in TS \ {ts} : turned_away'[t] = turned_away[t]
  BY <1>1, <1>2, StreamSeen
<1> QED
  BY <1>3 DEF head, end, opened

\* What the steps below use: the invariant slot by slot, with the types.
LEMMA RefusalFacts ==
  ASSUME TypeOK, MonTypeOK, RefusalRemembered, ~Legacy, NEW t \in TS
  PROVE  /\ \A s \in Streams : /\ turned_away[t][s] > 0 => Remembers(t, s)
                               /\ turned_away[t][s] \in 0..StayOut
                               /\ blocked[t][s] \in 0..BlockFor
         /\ \A s \in IpscStreams : /\ reflect_ignore[t][s] \in 0..ReflectWindow
                                   /\ ByLockAlone => reflect_ignore[t][s] = 0
BY DEF RefusalRemembered, TypeOK, LockTypeOK, ReflectTypeOK, MonTypeOK

\* A stream stays remembered if nothing of it changes.
LEMMA StillRemembered ==
  ASSUME NEW t \in TS, NEW s \in Streams, turned_away[t][s] > 0 => Remembers(t, s),
         turned_away'[t][s] = turned_away[t][s], blocked'[t][s] = blocked[t][s],
         s \in IpscStreams => reflect_ignore'[t][s] = reflect_ignore[t][s]
  PROVE  turned_away'[t][s] > 0 => Remembers(t, s)'
BY DEF Remembers

\* A stream the lock refuses is blocked for at least as long as the monitor
\* remembers it.
LEMMA BlockedLongEnough ==
  ASSUME TypeOK, MonTypeOK, NEW ts \in TS, NEW c \in IpscCalls \cup HbpCalls, NEW end \in BOOLEAN,
         NEW dir, LockBlocks(ts, dir, c),
         blocked' = [blocked EXCEPT ![ts][c.stream] = RefusedUntil(ts, c.stream, end)],
         turned_away'[ts][c.stream] \in {0, StayOut},
         end => turned_away'[ts][c.stream] = 0
  PROVE  /\ turned_away'[ts][c.stream] > 0 => Remembers(ts, c.stream)'
         /\ \A u \in Streams \ {c.stream} : blocked'[ts][u] = blocked[ts][u]
         /\ \A t \in TS \ {ts} : blocked'[t] = blocked[t]
<1>1. c.stream \in Streams /\ CallLock
  BY CallsType DEF Streams, LockBlocks, AlreadyRefused, Collides
<1>2. blocked \in [TS -> [Streams -> 0..BlockFor]]
  BY DEF TypeOK, LockTypeOK
<1>3. /\ blocked'[ts][c.stream] = RefusedUntil(ts, c.stream, end)
      /\ \A u \in Streams \ {c.stream} : blocked'[ts][u] = blocked[ts][u]
      /\ \A t \in TS \ {ts} : blocked'[t] = blocked[t]
  BY <1>1, <1>2
<1>4. ~end => blocked'[ts][c.stream] = BlockFor
  BY <1>3 DEF RefusedUntil
<1>5. turned_away'[ts][c.stream] > 0 => blocked'[ts][c.stream] >= turned_away'[ts][c.stream]
  BY <1>1, <1>4, StayOutType, ConstantsType
<1> QED
  BY <1>1, <1>3, <1>5 DEF Remembers

LEMMA RefusalRememberedIpsc ==
  ASSUME TypeOK, MonTypeOK, HolderOwnsLock, RefusalRemembered, ~Legacy,
         NEW ts \in TS, NEW c \in IpscCalls, NEW b \in IpscBursts, WatchIpsc(ts, c, b)
  PROVE  \A t \in TS :
           /\ \A s \in Streams : turned_away'[t][s] > 0 => Remembers(t, s)'
           /\ ByLockAlone => \A s \in IpscStreams : reflect_ignore'[t][s] = 0
<1>c. c.stream \in Streams /\ c.stream \in IpscStreams
  BY CallsType DEF Streams
<1>s. /\ turned_away'[ts][c.stream] \in {0, StayOut}
      /\ b = "TERM" => turned_away'[ts][c.stream] = 0
      /\ turned_away[ts][c.stream] = 0 /\ (b = "HEAD" => out_stream_id'[ts] # None)
           => turned_away'[ts][c.stream] = 0
      /\ \A u \in Streams \ {c.stream} : turned_away'[ts][u] = turned_away[ts][u]
      /\ \A t \in TS \ {ts} : turned_away'[t] = turned_away[t]
  BY IpscStreamSeen
<1>h. ipsc_voice_received(ts, c, b)
  BY DEF WatchIpsc
<1>1. CASE IpscAccepted(ts, c, b)
  <2>1. turned_away[ts][c.stream] = 0
    BY <1>1, PassingIsWelcome DEF IpscAccepted, IpscUnblocked
  <2>2. b = "HEAD" => out_stream_id'[ts] # None
    <3> SUFFICES ASSUME b = "HEAD" PROVE out_stream_id'[ts] # None
      OBVIOUS
    <3>1. IpscHead(ts, c)
      BY <1>h, <1>1 DEF ipsc_voice_received, IpscRepeatedHead, IpscVoice, IpscIgnored, IpscReflected,
         IpscRefused, IpscWithoutMetadata, IpscAccepted, IpscUnblocked, VoiceBursts, BurstsE,
         TruncatedBursts
    <3>2. out_stream_id' = [out_stream_id EXCEPT ![ts] =
                              IF OpenStream(ts, c, "HEAD") = None THEN c ELSE out_stream_id[ts]]
      BY <3>1 DEF IpscHead
    <3>3. out_stream_id'[ts] \in {c, OpenStream(ts, c, "HEAD")} \ {None}
      BY <3>2, CallsType DEF OpenStream, TypeOK, OutTypeOK
    <3> QED
      BY <3>3
  <2>3. \A u \in Streams : turned_away'[ts][u] = turned_away[ts][u]
    BY <1>s, <2>1, <2>2
  <2>4. UNCHANGED <<blocked, reflect_ignore>>
    BY <1>1 DEF IpscAccepted, IpscUnblocked
  <2>5. \A t \in TS, s \in Streams : turned_away'[t][s] = turned_away[t][s]
    BY <1>s, <2>3
  <2> QED
    BY <2>4, <2>5, StillRemembered, RefusalFacts
<1>2. CASE IpscReflected(ts, c, b)
  <2>1. ~ByLockAlone /\ ReflectSuppression
    BY <1>2, LockBeforeFilter DEF IpscReflected, IpscUnblocked, IsReflection
  <2>2. reflect_ignore \in [TS -> [IpscStreams -> 0..ReflectWindow]]
    BY DEF TypeOK, ReflectTypeOK
  <2>3. /\ b # "TERM" => reflect_ignore'[ts][c.stream] = ReflectWindow
        /\ \A u \in IpscStreams \ {c.stream} : reflect_ignore'[ts][u] = reflect_ignore[ts][u]
        /\ \A t \in TS \ {ts} : reflect_ignore'[t] = reflect_ignore[t]
        /\ UNCHANGED blocked
    BY <1>2, <1>c, <2>2 DEF IpscReflected, IpscUnblocked
  <2>4. turned_away'[ts][c.stream] > 0 => Remembers(ts, c.stream)'
    <3>1. turned_away'[ts][c.stream] > 0 => reflect_ignore'[ts][c.stream] >= turned_away'[ts][c.stream]
      BY <1>s, <2>1, <2>3, StayOutType, ConstantsType
    <3> QED
      BY <1>c, <2>1, <3>1 DEF Remembers
  <2>5. ASSUME NEW t \in TS, NEW s \in Streams, ~(t = ts /\ s = c.stream)
        PROVE  turned_away'[t][s] > 0 => Remembers(t, s)'
    <3>1. turned_away'[t][s] = turned_away[t][s] /\ blocked'[t][s] = blocked[t][s]
      BY <1>s, <2>3, <2>5
    <3>2. s \in IpscStreams => reflect_ignore'[t][s] = reflect_ignore[t][s]
      BY <2>3, <2>5
    <3> QED
      BY <3>1, <3>2, StillRemembered, RefusalFacts
  <2> QED
    BY <2>1, <2>4, <2>5
<1>3. CASE IpscRefused(ts, c, b)
  <2> DEFINE end == b = "TERM"
  <2>1. /\ LockBlocks(ts, "IPSC", c) /\ UNCHANGED reflect_ignore
        /\ blocked' = [blocked EXCEPT ![ts][c.stream] = RefusedUntil(ts, c.stream, end)]
    BY <1>3 DEF IpscRefused
  <2>2. end \in BOOLEAN /\ (end => turned_away'[ts][c.stream] = 0) /\ c \in IpscCalls \cup HbpCalls
    BY <1>s
  <2> HIDE DEF end
  <2>3. /\ turned_away'[ts][c.stream] > 0 => Remembers(ts, c.stream)'
        /\ \A u \in Streams \ {c.stream} : blocked'[ts][u] = blocked[ts][u]
        /\ \A t \in TS \ {ts} : blocked'[t] = blocked[t]
    BY <1>s, <2>1, <2>2, BlockedLongEnough
  <2>4. ASSUME NEW t \in TS, NEW s \in Streams, ~(t = ts /\ s = c.stream)
        PROVE  turned_away'[t][s] > 0 => Remembers(t, s)'
    <3>1. turned_away'[t][s] = turned_away[t][s] /\ blocked'[t][s] = blocked[t][s]
      BY <1>s, <2>3, <2>4
    <3> QED
      BY <2>1, <3>1, StillRemembered, RefusalFacts
  <2>5. \A t \in TS : ByLockAlone => \A s \in IpscStreams : reflect_ignore'[t][s] = 0
    BY <2>1, RefusalFacts
  <2> QED
    BY <2>3, <2>4, <2>5
<1> QED
  BY <1>h, <1>1, <1>2, <1>3 DEF ipsc_voice_received, IpscHead, IpscRepeatedHead, IpscTerm, IpscVoice,
          IpscIgnored, IpscWithoutMetadata, WithoutMetadata

LEMMA RefusalRememberedHbp ==
  ASSUME TypeOK, MonTypeOK, RefusalRemembered, ~Legacy,
         NEW ts \in TS, NEW c \in HbpCalls, NEW frame \in HbpFrames, WatchHbp(ts, c, frame)
  PROVE  \A t \in TS :
           /\ \A s \in Streams : turned_away'[t][s] > 0 => Remembers(t, s)'
           /\ ByLockAlone => \A s \in IpscStreams : reflect_ignore'[t][s] = 0
<1>s. /\ turned_away'[ts][c.stream] \in {0, StayOut}
      /\ frame = "TERM" => turned_away'[ts][c.stream] = 0
      /\ turned_away[ts][c.stream] = 0 /\ (frame = "HEAD" => in_call'[ts] # None)
           => turned_away'[ts][c.stream] = 0
      /\ \A u \in Streams \ {c.stream} : turned_away'[ts][u] = turned_away[ts][u]
      /\ \A t \in TS \ {ts} : turned_away'[t] = turned_away[t]
  BY HbpStreamSeen
<1>h. hbp_voice_received(ts, c, frame) /\ UNCHANGED reflect_ignore
  BY HbpFrame DEF WatchHbp, HbpHeard
<1>i. \A t \in TS : ByLockAlone => \A s \in IpscStreams : reflect_ignore'[t][s] = 0
  BY <1>h, RefusalFacts
<1>1. CASE HbpUnblocked(ts, c)
  <2>1. turned_away[ts][c.stream] = 0
    BY <1>1, PassingIsWelcome DEF HbpUnblocked
  <2>2. frame = "HEAD" => in_call'[ts] # None
    BY <1>h, <1>1, CallsType DEF hbp_voice_received, HbpHead, HbpDuplicateHead, DuplicateHead,
       HbpRefused, HbpUnblocked, BeginInCall, TypeOK, InTypeOK
  <2>3. \A t \in TS, s \in Streams : turned_away'[t][s] = turned_away[t][s]
    BY <1>s, <2>1, <2>2
  <2>4. UNCHANGED blocked
    BY <1>1 DEF HbpUnblocked
  <2> QED
    BY <1>h, <1>i, <2>3, <2>4, StillRemembered, RefusalFacts
<1>2. CASE HbpRefused(ts, c, frame)
  <2> DEFINE end == frame = "TERM"
  <2>1. /\ LockBlocks(ts, "HBP", c)
        /\ blocked' = [blocked EXCEPT ![ts][c.stream] = RefusedUntil(ts, c.stream, end)]
    BY <1>2 DEF HbpRefused
  <2>2. end \in BOOLEAN /\ (end => turned_away'[ts][c.stream] = 0) /\ c \in IpscCalls \cup HbpCalls
    BY <1>s
  <2> HIDE DEF end
  <2>3. /\ turned_away'[ts][c.stream] > 0 => Remembers(ts, c.stream)'
        /\ \A u \in Streams \ {c.stream} : blocked'[ts][u] = blocked[ts][u]
        /\ \A t \in TS \ {ts} : blocked'[t] = blocked[t]
    BY <1>s, <2>1, <2>2, BlockedLongEnough
  <2>4. ASSUME NEW t \in TS, NEW s \in Streams, ~(t = ts /\ s = c.stream)
        PROVE  turned_away'[t][s] > 0 => Remembers(t, s)'
    <3>1. turned_away'[t][s] = turned_away[t][s] /\ blocked'[t][s] = blocked[t][s]
      BY <1>s, <2>3, <2>4
    <3> QED
      BY <1>h, <3>1, StillRemembered, RefusalFacts
  <2> QED
    BY <1>i, <2>3, <2>4
<1> QED
  BY <1>h, <1>1, <1>2 DEF hbp_voice_received, HbpHead, HbpDuplicateHead, HbpTerm,
          HbpForeignTerm, HbpVoice, HbpLateEntry, HbpVoiceWithoutHead

LEMMA RefusalRememberedNext ==
  /\ TypeOK /\ MonTypeOK /\ HolderOwnsLock /\ RefusalRemembered /\ [MonNext]_allVars
    => RefusalRemembered'
<1> SUFFICES ASSUME TypeOK, MonTypeOK, HolderOwnsLock, RefusalRemembered, [MonNext]_allVars, ~Legacy
             PROVE  \A t \in TS :
                      /\ \A s \in Streams : turned_away'[t][s] > 0 => Remembers(t, s)'
                      /\ ByLockAlone => \A s \in IpscStreams : reflect_ignore'[t][s] = 0
  BY DEF RefusalRemembered
<1>0. CASE UNCHANGED <<turned_away, blocked, reflect_ignore>>
  BY <1>0, StillRemembered, RefusalFacts
<1>1. CASE \E ts \in TS, c \in IpscCalls, b \in IpscBursts : WatchIpsc(ts, c, b)
  BY <1>1, RefusalRememberedIpsc
<1>2. CASE \E ts \in TS, c \in HbpCalls, frame \in HbpFrames : WatchHbp(ts, c, frame)
  BY <1>2, RefusalRememberedHbp
<1>3. CASE \E ts \in TS : Drain(ts) /\ WatchWires(ts) /\ UNCHANGED turned_away
  BY <1>0, <1>3 DEF Drain
<1>4. CASE Tick /\ ElapseClocks
  <2>1. \A t \in TS : /\ \A s \in Streams : /\ turned_away'[t][s] = Down(turned_away[t][s])
                                            /\ blocked'[t][s] = Down(blocked[t][s])
                      /\ \A s \in IpscStreams : reflect_ignore'[t][s] = Down(reflect_ignore[t][s])
    BY <1>4 DEF Tick, ElapseClocks
  <2>2. ASSUME NEW t \in TS, NEW s \in Streams, turned_away'[t][s] > 0
        PROVE  Remembers(t, s)'
    <3>1. /\ turned_away[t][s] \in 0..StayOut /\ blocked[t][s] \in 0..BlockFor
          /\ s \in IpscStreams => reflect_ignore[t][s] \in 0..ReflectWindow
          /\ StayOut \in Nat /\ BlockFor \in Nat /\ ReflectWindow \in Nat
      BY RefusalFacts, StayOutType, ConstantsType
    <3>2. turned_away[t][s] > 0 /\ turned_away'[t][s] = turned_away[t][s] - 1
      BY <2>1, <2>2, <3>1 DEF Down
    <3>3. Remembers(t, s)
      BY <3>2, RefusalFacts
    <3>4. /\ blocked[t][s] >= turned_away[t][s] => blocked'[t][s] >= turned_away'[t][s]
          /\ s \in IpscStreams =>
               (reflect_ignore[t][s] >= turned_away[t][s] => reflect_ignore'[t][s] >= turned_away'[t][s])
      BY <2>1, <3>1, <3>2 DEF Down
    <3> QED
      BY <3>3, <3>4 DEF Remembers
  <2>3. \A t \in TS : ByLockAlone => \A s \in IpscStreams : reflect_ignore'[t][s] = 0
    BY <2>1, RefusalFacts DEF Down
  <2> QED
    BY <2>2, <2>3
<1>5. CASE (PeerLost /\ turned_away' = Forgiven) \/ WatchDisconnect
  <2>1. \A t \in TS : \A s \in IpscStreams : reflect_ignore'[t][s] = 0
    BY <1>5, PeerLossForgets, DisconnectForgets DEF ForgetCalls
  <2>2. CASE turned_away' = Forgiven
    BY <2>1, <2>2 DEF Forgiven
  <2>3. CASE turned_away' = turned_away /\ ByLockAlone /\ UNCHANGED blocked
    <3>1. ASSUME NEW t \in TS, NEW s \in Streams, turned_away'[t][s] > 0
          PROVE  Remembers(t, s)'
      <4>1. Remembers(t, s)
        BY <2>3, <3>1, RefusalFacts
      <4> QED
        BY <2>3, <4>1 DEF Remembers
    <3> QED
      BY <2>1, <3>1
  <2> QED
    BY <1>5, <2>2, <2>3 DEF WatchDisconnect, HbpDisconnected, SendDmrdFails
<1>6. CASE /\ Watchdog \/ PeerRegistered \/ HbpConnected \/ HbpDropped \/ UNCHANGED vars
           /\ UNCHANGED monVars
  BY <1>0, <1>6 DEF Watchdog, PeerRegistered, HbpConnected, HbpDropped, SetLinks, vars, reflectVars,
                    monVars
<1> QED
  BY <1>1, <1>2, <1>3, <1>4, <1>5, <1>6, MonSteps DEF allVars

\* A HBP call begins only with a frame of its own that the lock let pass.
LEMMA BeginsWelcome ==
  ASSUME [MonNext]_allVars, NEW t \in TS, TypeOK, in_call'[t] \notin {None, in_call[t]}
  PROVE  \E c \in HbpCalls : in_call'[t] = c /\ ~LockBlocks(t, "HBP", c)
<1>1. CASE \E ts \in TS, c \in IpscCalls, b \in IpscBursts : WatchIpsc(ts, c, b)
  BY <1>1, IpscFrame DEF WatchIpsc, IpscHeard, inVars
<1>2. CASE \E ts \in TS, c \in HbpCalls, frame \in HbpFrames : WatchHbp(ts, c, frame)
  <2>1. PICK ts \in TS, c \in HbpCalls, frame \in HbpFrames : hbp_voice_received(ts, c, frame)
    BY <1>2 DEF WatchHbp
  <2>2. in_call' = [in_call EXCEPT ![ts] = c] /\ HbpUnblocked(ts, c)
    BY <2>1 DEF hbp_voice_received, HbpHead, HbpDuplicateHead, HbpTerm, HbpForeignTerm, HbpVoice,
       HbpLateEntry, HbpVoiceWithoutHead, HbpRefused, BeginInCall, ResetInCall, inVars, TypeOK, InTypeOK
  <2>3. t = ts /\ in_call'[t] = c
    BY <2>2 DEF TypeOK, InTypeOK
  <2> QED
    BY <2>2, <2>3 DEF HbpUnblocked
<1>3. CASE \E ts \in TS : Drain(ts) /\ WatchWires(ts) /\ UNCHANGED turned_away
  BY <1>3 DEF Drain, inVars
<1>4. CASE PeerLost \/ WatchDisconnect
  BY <1>4, PeerLossForgets, DisconnectForgets DEF ForgetCalls
<1>5. CASE \/ Tick \/ Watchdog \/ PeerRegistered \/ HbpConnected \/ HbpDropped \/ UNCHANGED allVars
  BY <1>5 DEF Tick, Watchdog, PeerRegistered, HbpConnected, HbpDropped, SetLinks, inVars, allVars, vars
<1> QED
  BY <1>1, <1>2, <1>3, <1>4, <1>5, MonSteps

\* A call the lock or the reflection filter turned away does not get through in the
\* middle, whatever ends the call it collided with, for every length of the two windows and
\* every combination of the lock with the filter.
THEOREM RefusedCallsStayOut == MonSpec => TurnedAwayStaysOut
<1> DEFINE Inv == TypeOK /\ MonTypeOK /\ HolderOwnsLock /\ RefusalRemembered
<1>1. MonInit => Inv
  BY MonInitType, HolderOwnsLockInit, RefusalRememberedInit DEF MonInit
<1>2. Inv /\ [MonNext]_allVars => Inv'
  BY MonitorWatches, NextTypeOK, MonTypeNext, HolderOwnsLockNext, RefusalRememberedNext
<1>3. Inv /\ Inv' /\ [MonNext]_allVars
        => [~Legacy => \A ts \in TS :
              /\ \A i \in 1..Len(toHbp'[ts]) : turned_away[ts][toHbp'[ts][i].call.stream] = 0
              /\ in_call'[ts] \notin {None, in_call[ts]} => turned_away[ts][in_call'[ts].stream] = 0
           ]_allVars
  <2> SUFFICES ASSUME Inv, Inv', [MonNext]_allVars, ~UNCHANGED allVars, ~Legacy, NEW t \in TS
               PROVE  /\ \A i \in 1..Len(toHbp'[t]) : turned_away[t][toHbp'[t][i].call.stream] = 0
                      /\ in_call'[t] \notin {None, in_call[t]} => turned_away[t][in_call'[t].stream] = 0
    OBVIOUS
  <2>1. \A i \in 1..Len(toHbp'[t]) : turned_away[t][toHbp'[t][i].call.stream] = 0
    BY ForwardedPassed, PassingIsWelcome
  <2>2. in_call'[t] \notin {None, in_call[t]} => turned_away[t][in_call'[t].stream] = 0
    BY BeginsWelcome, PassingIsWelcome
  <2> QED
    BY <2>1, <2>2
<1> QED
  BY <1>1, <1>2, <1>3, PTL DEF MonSpec, TurnedAwayStaysOut

(***************************************************************************)
(* The superframe towards HBP.                                             *)
(***************************************************************************)
\* Nothing to show for a slot whose stream, position and last frame stay.
LEMMA FollowsStill ==
  ASSUME NEW t \in TS, out_stream_id[t] # None => Follows(t),
         out_stream_id'[t] \in {out_stream_id[t], None},
         out_frame_pos'[t] = out_frame_pos[t], last_fwd'[t] = last_fwd[t]
  PROVE  out_stream_id'[t] # None => Follows(t)'
BY DEF Follows

\* The last of the frames a handler sends.
LEMMA LastFrame ==
  ASSUME NEW n \in Nat \ {0}, NEW frame, NEW c, NEW stream, NEW lc, NEW pos
  PROVE  LET frames == Frames(n, frame, c, stream, lc, pos)
         IN /\ frames # <<>>
            /\ Last(frames).frame = frame
            /\ Last(frames).stream = stream
            /\ Last(frames).pos = pos
<1> DEFINE frames == Frames(n, frame, c, stream, lc, pos)
<1>1. Len(frames) = n /\ \A i \in 1..n : LET d == frames[i]
                                         IN d.frame = frame /\ d.stream = stream /\ d.pos = pos
  BY FrameFields
<1>2. frames # <<>> /\ Last(frames) = frames[n]
  BY <1>1 DEF Last
<1> QED
  BY <1>1, <1>2

\* A frame is not None: None is no record of the frames' kind.
LEMMA SentAFrame ==
  ASSUME TypeOK', NEW t \in TS, toHbp'[t] # <<>>
  PROVE  Last(toHbp'[t]) \in Dmrd /\ Last(toHbp'[t]) # None
BY LastIn, NoFrameAssumption DEF TypeOK, WireTypeOK

LEMMA PositionFollowsIpsc ==
  ASSUME TypeOK, TypeOK', MonTypeOK, PositionFollows,
         NEW ts \in TS, NEW c \in IpscCalls, NEW b \in IpscBursts, WatchIpsc(ts, c, b)
  PROVE  PositionFollows'
<1>w. /\ last_fwd'[ts] = IF toHbp'[ts] = <<>> THEN last_fwd[ts] ELSE Last(toHbp'[ts])
      /\ \A t \in TS \ {ts} : last_fwd'[t] = last_fwd[t]
      /\ ipsc_voice_received(ts, c, b)
  BY WiresSeen DEF WatchIpsc
<1>t. /\ out_stream_id \in [TS -> IpscCalls \cup {None}]
      /\ out_frame_pos \in [TS -> 0..SuperframeLen-1]
      /\ Silent[ts] = <<>> /\ None \notin IpscCalls
  BY CallsType DEF TypeOK, OutTypeOK, Silent
<1>l. \A t \in TS : out_stream_id[t] # None => Follows(t)
  BY DEF PositionFollows
<1>o. \A t \in TS \ {ts} : out_stream_id'[t] = out_stream_id[t] /\ out_frame_pos'[t] = out_frame_pos[t]
  BY <1>w, <1>t DEF ipsc_voice_received, IpscHead, IpscRepeatedHead, IpscTerm, IpscVoice, IpscIgnored,
     IpscReflected, IpscRefused, IpscWithoutMetadata, KeepOutCall, outVars
<1>0. CASE /\ out_stream_id'[ts] \in {out_stream_id[ts], None}
           /\ out_frame_pos'[ts] = out_frame_pos[ts]
           /\ toHbp'[ts] = <<>>
  BY <1>0, <1>l, <1>o, <1>w, FollowsStill DEF PositionFollows
<1>s. ASSUME out_stream_id'[ts] # None => Follows(ts)' PROVE PositionFollows'
  BY <1>s, <1>l, <1>o, <1>w, FollowsStill DEF PositionFollows
<1>1. CASE b = "HEAD" /\ IpscHead(ts, c)
  <2> DEFINE stream == IF OpenStream(ts, c, "HEAD") = None THEN c ELSE out_stream_id[ts]
             n == IF Legacy THEN 2 ELSE 1
  <2>1. /\ out_stream_id'[ts] = stream /\ out_frame_pos'[ts] = 0
        /\ toHbp' = [Silent EXCEPT ![ts] = Frames(n, "HEAD", c, stream, c, 0)]
    BY <1>1, <1>t DEF IpscHead, SendDmrd
  <2>n. n \in Nat \ {0}
    OBVIOUS
  <2> HIDE DEF n, stream
  <2>2. last_fwd'[ts].frame = "HEAD" /\ last_fwd'[ts].stream = stream /\ last_fwd'[ts] # None
    <3>1. toHbp'[ts] = Frames(n, "HEAD", c, stream, c, 0)
      BY <2>1, SentOnSlot
    <3>2. toHbp'[ts] # <<>> /\ Last(toHbp'[ts]).frame = "HEAD" /\ Last(toHbp'[ts]).stream = stream
      BY <2>n, <3>1, LastFrame
    <3> QED
      BY <1>w, <3>2, SentAFrame
  <2> QED
    BY <1>s, <2>1, <2>2 DEF Follows
<1>2. CASE IpscTerm(ts, c)
  BY <1>s, <1>t, <1>2 DEF IpscTerm
<1>3. CASE IpscVoice(ts, c, b)
  <2> DEFINE late   == LateEntry(ts, b)
             stream == IF late THEN c ELSE out_stream_id[ts]
             lc     == IF late THEN c ELSE out_lc[ts]
             pos    == IF late THEN LateEntryPosition ELSE out_frame_pos[ts]
  <2>1. /\ out_stream_id[ts] # None \/ late
        /\ out_stream_id'[ts] = stream
        /\ \/ b \in TruncatedBursts /\ out_frame_pos'[ts] = pos /\ toHbp' = Silent
           \/ /\ out_frame_pos'[ts] = (pos + 1) % SuperframeLen
              /\ toHbp' = [Silent EXCEPT ![ts] = Frames(1, "VOICE", c, stream, lc, pos)]
    BY <1>3, <1>t DEF IpscVoice, SendDmrd
  <2>2. CASE out_frame_pos'[ts] = pos /\ toHbp' = Silent
    <3>1. CASE late
      BY <1>s, <2>2, <3>1 DEF Follows, LateEntry
    <3>2. CASE ~late
      BY <1>0, <1>t, <2>1, <2>2, <3>2
    <3> QED
      BY <3>1, <3>2
  <2>3. CASE /\ out_frame_pos'[ts] = (pos + 1) % SuperframeLen
             /\ toHbp' = [Silent EXCEPT ![ts] = Frames(1, "VOICE", c, stream, lc, pos)]
    <3> HIDE DEF late, stream, lc, pos
    <3>1. toHbp'[ts] = Frames(1, "VOICE", c, stream, lc, pos)
      BY <2>3, SentOnSlot
    <3>2. /\ toHbp'[ts] # <<>> /\ Last(toHbp'[ts]).frame = "VOICE"
          /\ Last(toHbp'[ts]).stream = stream /\ Last(toHbp'[ts]).pos = pos
      <4> DEFINE n == 1
      <4>1. n \in Nat \ {0}
        OBVIOUS
      <4>2. toHbp'[ts] = Frames(n, "VOICE", c, stream, lc, pos)
        BY <3>1
      <4> HIDE DEF n
      <4> QED
        BY <4>1, <4>2, LastFrame
    <3> QED
      BY <1>s, <1>w, <2>1, <2>3, <3>2, SentAFrame DEF Follows
  <2> QED
    BY <2>1, <2>2, <2>3
<1>4. CASE \/ b = "HEAD" /\ IpscRepeatedHead(ts, c)
           \/ IpscIgnored(ts, c, b) \/ IpscReflected(ts, c, b)
           \/ IpscRefused(ts, c, b) \/ IpscWithoutMetadata(ts, c, b)
  BY <1>0, <1>4, <1>t DEF IpscRepeatedHead, IpscIgnored, IpscReflected, IpscRefused,
                          IpscWithoutMetadata, KeepOutCall, OpenStream, outVars
<1> QED
  BY <1>w, <1>1, <1>2, <1>3, <1>4 DEF ipsc_voice_received

LEMMA PositionFollowsNext ==
  TypeOK /\ TypeOK' /\ MonTypeOK /\ PositionFollows /\ [MonNext]_allVars => PositionFollows'
<1> SUFFICES ASSUME TypeOK, TypeOK', MonTypeOK, PositionFollows, [MonNext]_allVars
             PROVE  PositionFollows'
  OBVIOUS
<1>0. CASE \A t \in TS : /\ out_stream_id'[t] \in {out_stream_id[t], None}
                         /\ out_frame_pos'[t] = out_frame_pos[t]
                         /\ last_fwd'[t] = last_fwd[t]
  BY <1>0, FollowsStill DEF PositionFollows
<1>1. CASE \E ts \in TS, c \in IpscCalls, b \in IpscBursts : WatchIpsc(ts, c, b)
  BY <1>1, PositionFollowsIpsc
<1>2. CASE \E ts \in TS, c \in HbpCalls, frame \in HbpFrames : WatchHbp(ts, c, frame)
  <2>1. PICK ts \in TS, c \in HbpCalls, frame \in HbpFrames : WatchHbp(ts, c, frame)
    BY <1>2
  <2>2. UNCHANGED outVars /\ toHbp'[ts] = <<>>
    BY <2>1, HbpFrame DEF WatchHbp, HbpHeard, Silent
  <2> QED
    BY <1>0, <2>1, <2>2, WiresSeen DEF WatchHbp, outVars
<1>3. CASE \E ts \in TS : Drain(ts) /\ WatchWires(ts) /\ UNCHANGED turned_away
  <2>1. PICK ts \in TS : Drain(ts) /\ WatchWires(ts)
    BY <1>3
  <2>2. UNCHANGED outVars /\ toHbp'[ts] = <<>>
    BY <2>1 DEF Drain, Silent
  <2> QED
    BY <1>0, <2>1, <2>2, WiresSeen DEF outVars
<1>4. CASE Tick /\ ElapseClocks
  BY <1>0, <1>4 DEF Tick, outVars, ElapseClocks
<1>5. CASE PeerLost \/ WatchDisconnect
  <2>1. \A t \in TS : out_stream_id'[t] = None
    BY <1>5, PeerLossForgets, DisconnectForgets DEF ForgetCalls
  <2> QED
    BY <2>1 DEF PositionFollows
<1>6. CASE /\ Watchdog \/ PeerRegistered \/ HbpConnected \/ HbpDropped \/ UNCHANGED vars
           /\ UNCHANGED monVars
  BY <1>0, <1>6 DEF Watchdog, PeerRegistered, HbpConnected, HbpDropped, SetLinks, vars, outVars,
                    monVars, wireVars
<1> QED
  BY <1>1, <1>2, <1>3, <1>4, <1>5, <1>6, MonSteps DEF allVars

\* Voice is sent by IpscVoice alone, one frame, of the open stream and at its position,
\* or of the call it opens.
LEMMA VoiceForwards ==
  ASSUME TypeOK', [MonNext]_allVars, ~UNCHANGED allVars, NEW t \in TS, NEW i \in 1..Len(toHbp'[t]),
         toHbp'[t][i].frame = "VOICE"
  PROVE  \/ ~Legacy /\ toHbp'[t][i].pos = LateEntryPosition
         \/ /\ out_stream_id[t] # None
            /\ toHbp'[t][i].stream = out_stream_id[t]
            /\ toHbp'[t][i].pos = out_frame_pos[t]
<1>0. toHbp'[t] # <<>>
  BY DEF TypeOK, WireTypeOK
<1>1. CASE \E ts \in TS, c \in IpscCalls, b \in IpscBursts : WatchIpsc(ts, c, b)
  <2>1. PICK ts \in TS, c \in IpscCalls, b \in IpscBursts : ipsc_voice_received(ts, c, b)
    BY <1>1 DEF WatchIpsc
  <2>2. ASSUME NEW n \in Nat, NEW frame, NEW stream, NEW lc, NEW pos,
               toHbp' = [Silent EXCEPT ![ts] = Frames(n, frame, c, stream, lc, pos)]
        PROVE  /\ t = ts /\ frame = "VOICE"
               /\ toHbp'[t][i].stream = stream /\ toHbp'[t][i].pos = pos
    <3> DEFINE frames == Frames(n, frame, c, stream, lc, pos)
    <3>1. Len(frames) = n /\ \A j \in 1..n : LET d == frames[j]
                                             IN d.frame = frame /\ d.stream = stream /\ d.pos = pos
      BY FrameFields
    <3>2. toHbp'[ts] = frames /\ \A s \in TS \ {ts} : toHbp'[s] = <<>>
      BY <2>2, SentOnSlot
    <3> HIDE DEF frames
    <3> QED
      BY <1>0, <3>1, <3>2
  <2>3. CASE IpscVoice(ts, c, b)
    <3> DEFINE late   == LateEntry(ts, b)
               stream == IF late THEN c ELSE out_stream_id[ts]
               lc     == IF late THEN c ELSE out_lc[ts]
               pos    == IF late THEN LateEntryPosition ELSE out_frame_pos[ts]
    <3>1. /\ out_stream_id[ts] # None \/ late
          /\ toHbp' = [Silent EXCEPT ![ts] = Frames(1, "VOICE", c, stream, lc, pos)]
      BY <1>0, <2>3 DEF IpscVoice, SendDmrd, Silent
    <3>2. t = ts /\ toHbp'[t][i].stream = stream /\ toHbp'[t][i].pos = pos
      <4> HIDE DEF stream, lc, pos
      <4> DEFINE n == 1
      <4>1. n \in Nat /\ toHbp' = [Silent EXCEPT ![ts] = Frames(n, "VOICE", c, stream, lc, pos)]
        BY <3>1
      <4> HIDE DEF n
      <4> QED
        BY <2>2, <4>1
    <3> QED
      BY <3>1, <3>2 DEF LateEntry
  <2>4. ~(b = "HEAD" /\ IpscHead(ts, c))
    <3> SUFFICES ASSUME b = "HEAD" /\ IpscHead(ts, c) PROVE FALSE
      OBVIOUS
    <3> DEFINE stream == IF OpenStream(ts, c, "HEAD") = None THEN c ELSE out_stream_id[ts]
               n == IF Legacy THEN 2 ELSE 1
    <3>1. n \in Nat /\ toHbp' = [Silent EXCEPT ![ts] = Frames(n, "HEAD", c, stream, c, 0)]
      BY DEF IpscHead, SendDmrd
    <3> HIDE DEF n, stream
    <3>2. "HEAD" = "VOICE"
      BY <2>2, <3>1
    <3> QED
      BY <3>2
  <2>5. ~(b = "TERM" /\ IpscTerm(ts, c))
    <3> SUFFICES ASSUME b = "TERM" /\ IpscTerm(ts, c) PROVE FALSE
      OBVIOUS
    <3> DEFINE n == 1
               stream == out_stream_id[ts]
               lc == out_lc[ts]
    <3>1. n \in Nat /\ toHbp' = [Silent EXCEPT ![ts] = Frames(n, "TERM", c, stream, lc, 0)]
      BY DEF IpscTerm, SendDmrd
    <3> HIDE DEF n, stream, lc
    <3>2. "TERM" = "VOICE"
      BY <2>2, <3>1
    <3> QED
      BY <3>2
  <2>6. ~(\/ b = "HEAD" /\ IpscRepeatedHead(ts, c)
          \/ IpscIgnored(ts, c, b) \/ IpscReflected(ts, c, b)
          \/ IpscRefused(ts, c, b) \/ IpscWithoutMetadata(ts, c, b))
    BY <1>0 DEF IpscRepeatedHead, IpscIgnored, IpscReflected, IpscRefused, IpscWithoutMetadata,
                KeepOutCall, Silent
  <2> QED
    BY <2>1, <2>3, <2>4, <2>5, <2>6 DEF ipsc_voice_received
<1>2. CASE \E ts \in TS, c \in HbpCalls, frame \in HbpFrames : WatchHbp(ts, c, frame)
  BY <1>0, <1>2, HbpFrame DEF WatchHbp, HbpHeard, Silent
<1>3. CASE \E ts \in TS : Drain(ts) /\ WatchWires(ts) /\ UNCHANGED turned_away
  BY <1>0, <1>3 DEF Drain, Silent
<1>4. CASE Tick \/ PeerLost \/ Watchdog \/ PeerRegistered \/ HbpConnected \/ HbpDropped
  BY <1>0, <1>4, OthersAreSilent DEF Silent
<1>5. CASE HbpDisconnected
  BY <1>0, <1>5 DEF HbpDisconnected, NothingForwarded, Silent
<1>6. CASE \E ts \in TS, c \in IpscCalls, b \in IpscBursts : SendDmrdFails(ts, c, b)
  <2>1. PICK ts \in TS, c \in IpscCalls, b \in IpscBursts : SendDmrdFails(ts, c, b)
    BY <1>6
  <2>2. PICK k \in 1..(IF Legacy /\ b = "HEAD" THEN 2 ELSE 1) :
               toHbp' = [Silent EXCEPT ![ts] = Frames(k - 1, "HEAD", c, c, c, 0)]
    BY <2>1 DEF SendDmrdFails
  <2> DEFINE frames == Frames(k - 1, "HEAD", c, c, c, 0)
  <2>3. Len(frames) = k - 1 /\ \A j \in 1..(k - 1) : frames[j].frame = "HEAD"
    BY FrameFields
  <2>4. toHbp'[ts] = frames /\ \A s \in TS \ {ts} : toHbp'[s] = <<>>
    BY <2>2, SentOnSlot
  <2> HIDE DEF frames
  <2> QED
    BY <1>0, <2>3, <2>4
<1> QED
  BY <1>1, <1>2, <1>3, <1>4, <1>5, <1>6, MonSteps DEF WatchDisconnect

\* The voice frames of every stream towards HBP are numbered through its superframes
\* from its head on, over refused, truncated and foreign packets in between, for every
\* superframe length; only a late entry starts elsewhere, and always at the same position.
THEOREM SuperframesContinue == MonSpec => SuperframeInStep
<1> DEFINE Inv == TypeOK /\ MonTypeOK /\ PositionFollows
<1>1. MonInit => Inv
  BY MonInitType DEF MonInit, Init, PositionFollows
<1>2. Inv /\ [MonNext]_allVars => Inv'
  BY MonitorWatches, NextTypeOK, MonTypeNext, PositionFollowsNext
<1>3. Inv /\ Inv' /\ [MonNext]_allVars
        => [\A ts \in TS : \A i \in 1..Len(toHbp'[ts]) :
              LET d == toHbp'[ts][i]
                  continues == /\ last_fwd[ts] # None
                               /\ d.stream = last_fwd[ts].stream
                               /\ \/ last_fwd[ts].frame = "HEAD" /\ d.pos = 0
                                  \/ /\ last_fwd[ts].frame = "VOICE"
                                     /\ d.pos = (last_fwd[ts].pos + 1) % SuperframeLen
                  enters == ~Legacy /\ d.pos = 4 % SuperframeLen
              IN d.frame = "VOICE" => continues \/ enters]_allVars
  <2> SUFFICES ASSUME Inv, Inv', [MonNext]_allVars, ~UNCHANGED allVars,
                      NEW t \in TS, NEW i \in 1..Len(toHbp'[t]), toHbp'[t][i].frame = "VOICE"
               PROVE  \/ ~Legacy /\ toHbp'[t][i].pos = 4 % SuperframeLen
                      \/ /\ last_fwd[t] # None
                         /\ toHbp'[t][i].stream = last_fwd[t].stream
                         /\ \/ last_fwd[t].frame = "HEAD" /\ toHbp'[t][i].pos = 0
                            \/ /\ last_fwd[t].frame = "VOICE"
                               /\ toHbp'[t][i].pos = (last_fwd[t].pos + 1) % SuperframeLen
    OBVIOUS
  <2>1. CASE ~Legacy /\ toHbp'[t][i].pos = LateEntryPosition
    BY <2>1 DEF LateEntryPosition
  <2>2. CASE /\ out_stream_id[t] # None
             /\ toHbp'[t][i].stream = out_stream_id[t]
             /\ toHbp'[t][i].pos = out_frame_pos[t]
    BY <2>2 DEF PositionFollows, Follows, LateEntryPosition
  <2> QED
    BY <2>1, <2>2, VoiceForwards
<1> QED
  BY <1>1, <1>2, <1>3, PTL DEF MonSpec, SuperframeInStep

(***************************************************************************)
(* What the repeater is keyed with.                                        *)
(***************************************************************************)
\* KeyedAfter looks at the last head or terminator.
LEMMA LastMark ==
  ASSUME NEW key, NEW pkts \in Seq(Packet), NEW l \in 1..Len(pkts), pkts[l].burst # "VOICE",
         \A j \in 1..Len(pkts) : j > l => pkts[j].burst = "VOICE"
  PROVE  KeyedAfter(key, pkts) = IF pkts[l].burst = "HEAD" THEN pkts[l].sid ELSE NoStream
<1> DEFINE marks == {i \in 1..Len(pkts) : pkts[i].burst # "VOICE"}
           last == CHOOSE i \in marks : \A j \in marks : j <= i
<1>1. l \in marks /\ \A j \in marks : j <= l
  <2>1. \A j \in marks : j \in Int /\ ~(j > l)
    OBVIOUS
  <2> QED
    BY <2>1
<1>2. last \in marks /\ \A j \in marks : j <= last
  BY <1>1
<1>3. last <= l /\ l <= last /\ last \in Int
  BY <1>1, <1>2
<1>4. last = l
  BY <1>3
<1>5. marks # {}
  BY <1>1
<1>6. KeyedAfter(key, pkts) =
        IF marks = {} THEN key
        ELSE IF pkts[last].burst = "HEAD" THEN pkts[last].sid ELSE NoStream
  BY DEF KeyedAfter
<1> HIDE DEF marks, last
<1> QED
  BY <1>4, <1>5, <1>6

LEMMA NoMark ==
  ASSUME NEW key, NEW pkts \in Seq(Packet), \A j \in 1..Len(pkts) : pkts[j].burst = "VOICE"
  PROVE  KeyedAfter(key, pkts) = key
BY DEF KeyedAfter

LEMMA KeyedAfterNone == ASSUME NEW key PROVE KeyedAfter(key, <<>>) = key
<1>1. {i \in 1..Len(<<>>) : <<>>[i].burst # "VOICE"} = {}
  OBVIOUS
<1> QED
  BY <1>1 DEF KeyedAfter

LEMMA MarkOrNone ==
  ASSUME NEW pkts \in Seq(Packet)
  PROVE  \/ \A j \in 1..Len(pkts) : pkts[j].burst = "VOICE"
         \/ \E l \in 1..Len(pkts) : /\ pkts[l].burst # "VOICE"
                                    /\ \A j \in 1..Len(pkts) : j > l => pkts[j].burst = "VOICE"
<1> DEFINE marks == {i \in 1..Len(pkts) : pkts[i].burst # "VOICE"}
<1>1. CASE marks = {}
  BY <1>1
<1>2. CASE marks # {}
  <2>1. Len(pkts) \in Nat /\ marks \in SUBSET (1..Len(pkts))
    OBVIOUS
  <2> HIDE DEF marks
  <2>2. PICK l \in marks : \A j \in marks : j <= l
    BY <1>2, <2>1, HasMaximum
  <2> USE DEF marks
  <2>3. \A j \in 1..Len(pkts) : j > l => j \notin marks
    BY <2>2
  <2> QED
    BY <2>2, <2>3
<1> QED
  BY <1>1, <1>2

\* Receiving packets and then more packets.
LEMMA KeyedAfterBoth ==
  ASSUME NEW key, NEW s \in Seq(Packet), NEW u \in Seq(Packet)
  PROVE  KeyedAfter(key, s \o u) = KeyedAfter(KeyedAfter(key, s), u)
<1> DEFINE all == s \o u
<1>1. /\ all \in Seq(Packet) /\ Len(all) = Len(s) + Len(u)
      /\ Len(s) \in Nat /\ Len(u) \in Nat
      /\ \A i \in 1..Len(s) : all[i] = s[i]
      /\ \A i \in 1..Len(u) : all[Len(s) + i] = u[i]
  OBVIOUS
<1>2. \A j \in 1..Len(all) : j > Len(s) => j - Len(s) \in 1..Len(u) /\ all[j] = u[j - Len(s)]
  <2> SUFFICES ASSUME NEW j \in 1..Len(all), j > Len(s)
               PROVE  j - Len(s) \in 1..Len(u) /\ all[j] = u[j - Len(s)]
    OBVIOUS
  <2>1. j - Len(s) \in 1..Len(u) /\ Len(s) + (j - Len(s)) = j
    BY <1>1
  <2> QED
    BY <1>1, <2>1
<1>s. all \in Seq(Packet)
  BY <1>1
<1> HIDE DEF all
<1>3. ASSUME NEW l \in 1..Len(u), u[l].burst # "VOICE",
             \A j \in 1..Len(u) : j > l => u[j].burst = "VOICE"
      PROVE  KeyedAfter(key, all) = KeyedAfter(KeyedAfter(key, s), u)
  <2>1. Len(s) + l \in 1..Len(all) /\ all[Len(s) + l] = u[l]
    BY <1>1
  <2>2. \A j \in 1..Len(all) : j > Len(s) + l => all[j].burst = "VOICE"
    <3> SUFFICES ASSUME NEW j \in 1..Len(all), j > Len(s) + l PROVE all[j].burst = "VOICE"
      OBVIOUS
    <3>1. j > Len(s) /\ j - Len(s) > l
      BY <1>1
    <3>2. j - Len(s) \in 1..Len(u) /\ all[j] = u[j - Len(s)]
      BY <1>2, <3>1
    <3> QED
      BY <1>3, <3>1, <3>2
  <2>3. KeyedAfter(key, all) = IF u[l].burst = "HEAD" THEN u[l].sid ELSE NoStream
    <3> DEFINE m == Len(s) + l
    <3> HIDE DEF m
    <3>1. m \in 1..Len(all) /\ all[m] = u[l] /\ \A j \in 1..Len(all) : j > m => all[j].burst = "VOICE"
      BY <2>1, <2>2 DEF m
    <3> QED
      BY <1>s, <1>3, <3>1, LastMark
  <2>4. KeyedAfter(KeyedAfter(key, s), u) = IF u[l].burst = "HEAD" THEN u[l].sid ELSE NoStream
    BY <1>3, LastMark
  <2> QED
    BY <2>3, <2>4
<1>4. ASSUME \A j \in 1..Len(u) : u[j].burst = "VOICE"
      PROVE  KeyedAfter(key, all) = KeyedAfter(KeyedAfter(key, s), u)
  <2>1. KeyedAfter(KeyedAfter(key, s), u) = KeyedAfter(key, s)
    BY <1>4, NoMark
  <2>2. ASSUME NEW l \in 1..Len(s), s[l].burst # "VOICE",
               \A j \in 1..Len(s) : j > l => s[j].burst = "VOICE"
        PROVE  KeyedAfter(key, all) = KeyedAfter(key, s)
    <3>1. l \in 1..Len(all) /\ all[l] = s[l]
      BY <1>1
    <3>2. \A j \in 1..Len(all) : j > l => all[j].burst = "VOICE"
      <4> SUFFICES ASSUME NEW j \in 1..Len(all), j > l PROVE all[j].burst = "VOICE"
        OBVIOUS
      <4>1. CASE j > Len(s)
        BY <1>2, <1>4, <4>1
      <4>2. CASE j <= Len(s)
        BY <1>1, <2>2, <4>2
      <4> QED
        BY <1>1, <4>1, <4>2
    <3>3. KeyedAfter(key, all) = IF s[l].burst = "HEAD" THEN s[l].sid ELSE NoStream
      BY <1>s, <2>2, <3>1, <3>2, LastMark
    <3>4. KeyedAfter(key, s) = IF s[l].burst = "HEAD" THEN s[l].sid ELSE NoStream
      BY <2>2, LastMark
    <3> QED
      BY <3>3, <3>4
  <2>3. ASSUME \A j \in 1..Len(s) : s[j].burst = "VOICE"
        PROVE  KeyedAfter(key, all) = KeyedAfter(key, s)
    <3>1. \A j \in 1..Len(all) : all[j].burst = "VOICE"
      <4> SUFFICES ASSUME NEW j \in 1..Len(all) PROVE all[j].burst = "VOICE"
        OBVIOUS
      <4>1. CASE j > Len(s)
        BY <1>2, <1>4, <4>1
      <4>2. CASE j <= Len(s)
        BY <1>1, <2>3, <4>2
      <4> QED
        BY <1>1, <4>1, <4>2
    <3> QED
      BY <1>1, <2>3, <3>1, NoMark
  <2> QED
    BY <2>1, <2>2, <2>3, MarkOrNone
<1> QED
  BY <1>3, <1>4, MarkOrNone DEF all

\* Packets in key followed by packets in key.
LEMMA InKeyBoth ==
  ASSUME NEW key, NEW s \in Seq(Packet), NEW u \in Seq(Packet),
         InKey(key, s), InKey(KeyedAfter(key, s), u)
  PROVE  InKey(key, s \o u)
<1> SUFFICES ASSUME NEW i \in 1..Len(s \o u), (s \o u)[i].burst # "HEAD"
             PROVE  (s \o u)[i].sid = KeyedAfter(key, SubSeq(s \o u, 1, i - 1))
  BY DEF InKey
<1>1. Len(s) \in Nat /\ Len(u) \in Nat /\ Len(s \o u) = Len(s) + Len(u)
  OBVIOUS
<1>2. CASE i <= Len(s)
  <2>1. (s \o u)[i] = s[i] /\ i \in 1..Len(s)
    BY <1>1, <1>2
  <2>2. SubSeq(s \o u, 1, i - 1) = SubSeq(s, 1, i - 1)
    BY <1>1, <1>2
  <2> QED
    BY <2>1, <2>2 DEF InKey
<1>3. CASE i > Len(s)
  <2> DEFINE k == i - Len(s)
  <2>1. k \in 1..Len(u) /\ (s \o u)[i] = u[k] /\ i = Len(s) + k
    BY <1>1, <1>3
  <2>2. SubSeq(u, 1, k - 1) \in Seq(Packet)
    BY <1>1, <2>1
  <2>3. SubSeq(s \o u, 1, i - 1) = s \o SubSeq(u, 1, k - 1)
    BY <1>1, <2>1
  <2> DEFINE before == SubSeq(u, 1, k - 1)
  <2>4. u[k].sid = KeyedAfter(KeyedAfter(key, s), before)
    BY <2>1 DEF InKey
  <2>5. before \in Seq(Packet) /\ SubSeq(s \o u, 1, i - 1) = s \o before
    BY <2>2, <2>3
  <2> HIDE DEF k, before
  <2>6. KeyedAfter(key, s \o before) = KeyedAfter(KeyedAfter(key, s), before)
    BY <2>5, KeyedAfterBoth
  <2> QED
    BY <2>1, <2>4, <2>5, <2>6
<1> QED
  BY <1>1, <1>2, <1>3

\* What a call issues: its heads key the repeater, voice and terminator are of the key.
LEMMA HeadsKey ==
  ASSUME NEW key, NEW sid \in 0..StreamMod-1, NEW c \in HbpCalls
  PROVE  /\ Heads(sid, c) \in Seq(Packet) /\ Len(Heads(sid, c)) = HeaderRepeats
         /\ InKey(key, Heads(sid, c))
         /\ KeyedAfter(key, Heads(sid, c)) = sid
<1>1. /\ Heads(sid, c) \in Seq(Packet) /\ Len(Heads(sid, c)) = HeaderRepeats
      /\ HeaderRepeats \in Nat \ {0}
      /\ \A i \in 1..HeaderRepeats : Heads(sid, c)[i].burst = "HEAD" /\ Heads(sid, c)[i].sid = sid
  <2>1. \A i \in 1..HeaderRepeats : Heads(sid, c)[i].burst = "HEAD" /\ Heads(sid, c)[i].sid = sid
    BY DEF Heads
  <2>2. Len(Heads(sid, c)) = HeaderRepeats /\ HeaderRepeats \in Nat \ {0}
    BY ConstantsType DEF Heads
  <2> QED
    BY <2>1, <2>2, PacketsType
<1>2. KeyedAfter(key, Heads(sid, c)) = sid
  <2> DEFINE l == HeaderRepeats
             pkts == Heads(sid, c)
  <2>1. /\ l \in 1..Len(pkts) /\ pkts[l].burst = "HEAD" /\ pkts[l].sid = sid
        /\ \A j \in 1..Len(pkts) : ~(j > l)
    BY <1>1
  <2> HIDE DEF l, pkts
  <2>2. KeyedAfter(key, pkts) = sid
    BY <1>1, <2>1, LastMark DEF pkts
  <2> QED
    BY <2>2 DEF pkts
<1> QED
  BY <1>1, <1>2 DEF InKey

LEMMA OneInKey ==
  ASSUME NEW p \in Packet
  PROVE  /\ <<p>> \in Seq(Packet) /\ Len(<<p>>) = 1
         /\ InKey(p.sid, <<p>>)
         /\ p.burst = "VOICE" => KeyedAfter(p.sid, <<p>>) = p.sid
<1>1. <<p>> \in Seq(Packet) /\ Len(<<p>>) = 1 /\ <<p>>[1] = p
  OBVIOUS
<1>2. SubSeq(<<p>>, 1, 0) = <<>>
  OBVIOUS
<1>3. InKey(p.sid, <<p>>)
  <2> SUFFICES ASSUME NEW i \in 1..Len(<<p>>)
               PROVE  <<p>>[i].sid = KeyedAfter(p.sid, SubSeq(<<p>>, 1, i - 1))
    BY DEF InKey
  <2>1. i = 1 /\ i - 1 = 0
    BY <1>1
  <2> QED
    BY <1>1, <1>2, <2>1, KeyedAfterNone
<1>4. p.burst = "VOICE" => KeyedAfter(p.sid, <<p>>) = p.sid
  <2> SUFFICES ASSUME p.burst = "VOICE" PROVE KeyedAfter(p.sid, <<p>>) = p.sid
    OBVIOUS
  <2> DEFINE pkts == <<p>>
  <2>1. pkts \in Seq(Packet) /\ \A j \in 1..Len(pkts) : pkts[j].burst = "VOICE"
    <3>1. \A j \in 1..Len(pkts) : pkts[j] = p
      BY <1>1
    <3> QED
      BY <1>1, <3>1
  <2> HIDE DEF pkts
  <2>2. KeyedAfter(p.sid, pkts) = p.sid
    BY <2>1, NoMark
  <2> QED
    BY <2>2 DEF pkts
<1> QED
  BY <1>1, <1>3, <1>4

LEMMA VoiceInKey ==
  ASSUME NEW key, NEW sid \in 0..StreamMod-1, NEW c \in HbpCalls,
         NEW hs \in {<<>>, Heads(sid, c)}, hs = <<>> => key = sid
  PROVE  /\ hs \o VoiceOf(sid, c) \in Seq(Packet)
         /\ Len(hs \o VoiceOf(sid, c)) <= HeaderRepeats + 1
         /\ hs \o VoiceOf(sid, c) # <<>>
         /\ InKey(key, hs \o VoiceOf(sid, c))
         /\ KeyedAfter(key, hs \o VoiceOf(sid, c)) = sid
<1> DEFINE v == [burst |-> "VOICE", sid |-> sid, call |-> c]
<1>1. v \in Packet /\ v.sid = sid /\ v.burst = "VOICE" /\ VoiceOf(sid, c) = <<v>>
  BY DEF Packet, HbpFrames, VoiceOf
<1> HIDE DEF v
<1>2. hs \in Seq(Packet) /\ Len(hs) <= HeaderRepeats /\ InKey(key, hs) /\ KeyedAfter(key, hs) = sid
  <2>1. CASE hs = <<>>
    <3>1. <<>> \in Seq(Packet) /\ Len(<<>>) = 0
      OBVIOUS
    <3> QED
      BY <2>1, <3>1, KeyedAfterNone, ConstantsType DEF InKey
  <2>2. CASE hs = Heads(sid, c)
    BY <2>2, HeadsKey, ConstantsType
  <2> QED
    BY <2>1, <2>2
<1>3. InKey(sid, <<v>>) /\ KeyedAfter(sid, <<v>>) = sid /\ <<v>> \in Seq(Packet) /\ Len(<<v>>) = 1
  BY <1>1, OneInKey
<1>4. /\ hs \o <<v>> \in Seq(Packet) /\ Len(hs \o <<v>>) = Len(hs) + 1 /\ Len(hs) \in Nat
      /\ hs \o <<v>> # <<>>
  BY <1>1, <1>2
<1>5. InKey(key, hs \o <<v>>) /\ KeyedAfter(key, hs \o <<v>>) = sid
  <2>1. KeyedAfter(key, hs \o <<v>>) = KeyedAfter(KeyedAfter(key, hs), <<v>>)
    BY <1>2, <1>3, KeyedAfterBoth
  <2>2. InKey(KeyedAfter(key, hs), <<v>>)
    BY <1>2, <1>3
  <2>3. InKey(key, hs \o <<v>>)
    BY <1>2, <1>3, <2>2, InKeyBoth
  <2> QED
    BY <1>2, <1>3, <2>1, <2>3
<1>6. Len(hs \o <<v>>) <= HeaderRepeats + 1
  BY <1>2, <1>4, ConstantsType
<1> QED
  BY <1>1, <1>4, <1>5, <1>6

\* A repeater in key receives packets in key: what a transmission issues, queued
\* behind the packets waiting or sent at once.
LEMMA IssuedInKey ==
  ASSUME TypeOK, MonTypeOK, QueueInKey, TransmitterTakesAll, NEW ts \in TS, NEW c \in HbpCalls,
         NEW pkts \in Seq(Packet), pkts # <<>>, Len(pkts) <= HeaderRepeats + 1,
         InKey(KeyedAfter(keyed[ts], queue[ts]), pkts), Transmit(ts, pkts, c), WatchWires(ts)
  PROVE  /\ InKey(keyed[ts], toIpsc'[ts])
         /\ InKey(keyed'[ts], queue'[ts])
         /\ KeyedAfter(keyed'[ts], queue'[ts]) = KeyedAfter(KeyedAfter(keyed[ts], queue[ts]), pkts)
         /\ ~Pacing => queue'[ts] = <<>>
         /\ \A t \in TS \ {ts} : /\ queue'[t] = queue[t] /\ keyed'[t] = keyed[t]
                                 /\ toIpsc'[t] = <<>>
<1>q. queue[ts] \in Seq(Packet) /\ InKey(keyed[ts], queue[ts]) /\ queue \in [TS -> Seq(Packet)]
  BY DEF TypeOK, TxTypeOK, QueueInKey
<1>w. keyed'[ts] = KeyedAfter(keyed[ts], toIpsc'[ts]) /\ \A t \in TS \ {ts} : keyed'[t] = keyed[t]
  BY WiresSeen
<1>e. \A key : KeyedAfter(key, <<>>) = key /\ InKey(key, <<>>)
  BY KeyedAfterNone DEF InKey
<1>1. CASE Pacing
  <2> DEFINE all == queue[ts] \o pkts
  <2>1. queue' = [queue EXCEPT ![ts] = Enqueued(queue[ts], pkts)] /\ toIpsc' = Silent
    BY <1>1 DEF Transmit
  <2>2. all \in Seq(Packet) /\ Len(all) = Len(queue[ts]) + Len(pkts)
    BY <1>q
  <2>3. Len(queue[ts]) + HeaderRepeats + 1 <= QueueLimit
    BY <1>1 DEF TransmitterTakesAll
  <2>4. Len(all) <= QueueLimit
    BY <1>q, <2>2, <2>3, ConstantsType
  <2>5. Enqueued(queue[ts], pkts) = all
    <3>1. Enqueued(queue[ts], pkts) = SubSeq(all, 1, Len(all))
      BY <2>4 DEF Enqueued
    <3> HIDE DEF all
    <3> QED
      BY <2>2, <3>1
  <2>6. InKey(keyed[ts], all) /\ KeyedAfter(keyed[ts], all) = KeyedAfter(KeyedAfter(keyed[ts], queue[ts]), pkts)
    BY <1>q, InKeyBoth, KeyedAfterBoth
  <2>7. toIpsc'[ts] = <<>> /\ keyed'[ts] = keyed[ts] /\ queue'[ts] = all
    BY <1>q, <1>w, <1>e, <2>1, <2>5 DEF Silent
  <2>8. \A t \in TS \ {ts} : queue'[t] = queue[t] /\ toIpsc'[t] = <<>>
    BY <1>q, <2>1 DEF Silent
  <2> HIDE DEF all
  <2> QED
    BY <1>1, <1>w, <1>e, <2>6, <2>7, <2>8
<1>2. CASE ~Pacing
  <2>1. NotBusy(ts) /\ queue[ts] = <<>>
    BY <1>2 DEF TransmitterTakesAll, QueueInKey
  <2>2. toIpsc' = [Silent EXCEPT ![ts] = pkts] /\ UNCHANGED queue
    BY <1>2, <2>1 DEF Transmit, txVars
  <2>3. toIpsc'[ts] = pkts /\ \A t \in TS \ {ts} : toIpsc'[t] = <<>>
    BY <2>2 DEF Silent
  <2> QED
    BY <1>w, <1>e, <2>1, <2>2, <2>3
<1> QED
  BY <1>1, <1>2

\* The packets a frame from HBP issues are in key, and leave the repeater keyed for
\* the call in progress.
LEMMA HbpInKey ==
  ASSUME TypeOK, TypeOK', MonTypeOK, QueueInKey, TransmitterTakesAll,
         NEW ts \in TS, NEW c \in HbpCalls, NEW frame \in HbpFrames, WatchHbp(ts, c, frame)
  PROVE  QueueInKey' /\ \A t \in TS : InKey(keyed[t], toIpsc'[t])
<1> DEFINE k == KeyedAfter(keyed[ts], queue[ts])
           Goal == QueueInKey' /\ \A t \in TS : InKey(keyed[t], toIpsc'[t])
<1> SUFFICES Goal
  OBVIOUS
<1>t. /\ in_started \in [TS -> BOOLEAN] /\ in_stream_id \in [TS -> 0..StreamMod-1]
      /\ in_stream_id[ts] \in 0..StreamMod-1
      /\ (in_stream_ctr + 1) % StreamMod \in 0..StreamMod-1
  BY NextStreamByte DEF TypeOK, InTypeOK
<1>q. \A t \in TS : /\ InKey(keyed[t], queue[t])
                    /\ in_started[t] => KeyedAfter(keyed[t], queue[t]) = in_stream_id[t]
                    /\ ~Pacing => queue[t] = <<>>
  BY DEF QueueInKey
<1>w. WatchWires(ts) /\ hbp_voice_received(ts, c, frame)
  BY DEF WatchHbp
<1>e. \A key : KeyedAfter(key, <<>>) = key /\ InKey(key, <<>>)
  BY KeyedAfterNone DEF InKey
<1>o. \A t \in TS \ {ts} : in_started'[t] = in_started[t] /\ in_stream_id'[t] = in_stream_id[t]
  BY <1>t, <1>w DEF hbp_voice_received, HbpRefused, HbpHead, HbpDuplicateHead, HbpTerm, HbpForeignTerm,
     HbpVoice, HbpLateEntry, HbpVoiceWithoutHead, BeginInCall, ResetInCall, inVars
<1>n. ASSUME TransmitNothing,
             in_started'[ts] => in_started[ts] /\ in_stream_id'[ts] = in_stream_id[ts]
      PROVE  Goal
  <2>1. UNCHANGED queue /\ \A t \in TS : toIpsc'[t] = <<>> /\ keyed'[t] = keyed[t]
    BY <1>n, <1>w, <1>e, WiresSeen DEF TransmitNothing, txVars, Silent
  <2> QED
    BY <1>n, <1>o, <1>q, <1>e, <2>1 DEF QueueInKey
<1>s. ASSUME NEW pkts \in Seq(Packet), pkts # <<>>, Len(pkts) <= HeaderRepeats + 1, InKey(k, pkts),
             Transmit(ts, pkts, c), in_started'[ts] => KeyedAfter(k, pkts) = in_stream_id'[ts]
      PROVE  Goal
  <2>1. /\ InKey(keyed[ts], toIpsc'[ts])
        /\ InKey(keyed'[ts], queue'[ts])
        /\ KeyedAfter(keyed'[ts], queue'[ts]) = KeyedAfter(k, pkts)
        /\ ~Pacing => queue'[ts] = <<>>
        /\ \A t \in TS \ {ts} : /\ queue'[t] = queue[t] /\ keyed'[t] = keyed[t]
                                /\ toIpsc'[t] = <<>>
    BY <1>s, <1>w, IssuedInKey
  <2>2. ASSUME NEW t \in TS \ {ts}
        PROVE  /\ InKey(keyed'[t], queue'[t])
               /\ in_started'[t] => KeyedAfter(keyed'[t], queue'[t]) = in_stream_id'[t]
               /\ ~Pacing => queue'[t] = <<>>
               /\ InKey(keyed[t], toIpsc'[t])
    BY <1>o, <1>q, <1>e, <2>1
  <2> QED
    BY <1>s, <2>1, <2>2 DEF QueueInKey
<1> HIDE DEF Goal
<1>1. CASE HbpHead(ts, c)
  <2>1. CASE StartOnVoice
    <3>1. in_started'[ts] = FALSE /\ TransmitNothing
      BY <1>1, <1>t, <2>1 DEF HbpHead, BeginInCall
    <3> QED
      BY <1>n, <3>1
  <2>2. CASE ~StartOnVoice
    <3> DEFINE sid == (in_stream_ctr + 1) % StreamMod
    <3>1. Transmit(ts, Heads(sid, c), c) /\ in_stream_id'[ts] = sid
      BY <1>1, <1>t, <2>2 DEF HbpHead, BeginInCall
    <3>2. sid \in 0..StreamMod-1
      BY <1>t
    <3> HIDE DEF sid, k
    <3>3. /\ Heads(sid, c) \in Seq(Packet) /\ Len(Heads(sid, c)) = HeaderRepeats
          /\ InKey(k, Heads(sid, c)) /\ KeyedAfter(k, Heads(sid, c)) = sid
          /\ Heads(sid, c) # <<>>
      BY <3>2, HeadsKey, PacketsType
    <3> QED
      BY <1>s, <3>1, <3>3, ConstantsType
  <2> QED
    BY <2>1, <2>2
<1>2. CASE HbpTerm(ts, c)
  <2>1. in_started'[ts] = FALSE
    BY <1>2, <1>t DEF HbpTerm, ResetInCall
  <2>2. CASE ~in_started[ts]
    BY <1>2, <1>n, <2>1, <2>2 DEF HbpTerm
  <2>3. CASE in_started[ts]
    <3> DEFINE p == [burst |-> "TERM", sid |-> in_stream_id[ts], call |-> c]
    <3>1. Transmit(ts, <<p>>, c)
      BY <1>2, <2>3, Zenon DEF HbpTerm
    <3>2. p \in Packet /\ p.sid = in_stream_id[ts]
      BY <1>t DEF Packet, HbpFrames
    <3>3. k = in_stream_id[ts]
      BY <1>q, <2>3
    <3> HIDE DEF p, k
    <3>4. <<p>> \in Seq(Packet) /\ Len(<<p>>) = 1 /\ InKey(k, <<p>>) /\ <<p>> # <<>>
      BY <3>2, <3>3, OneInKey
    <3> QED
      <4> DEFINE pkts == <<p>>
      <4>1. /\ pkts \in Seq(Packet) /\ pkts # <<>> /\ Len(pkts) <= HeaderRepeats + 1
            /\ InKey(k, pkts) /\ Transmit(ts, pkts, c)
        BY <3>1, <3>4, ConstantsType
      <4> HIDE DEF pkts
      <4> QED
        BY <1>s, <2>1, <4>1
  <2> QED
    BY <2>2, <2>3
<1>3. CASE HbpVoice(ts, c)
  <2> DEFINE sid == in_stream_id[ts]
             hs == IF in_started[ts] THEN <<>> ELSE Heads(sid, c)
  <2>1. Transmit(ts, hs \o VoiceOf(sid, c), c) /\ in_stream_id'[ts] = sid
    BY <1>3 DEF HbpVoice
  <2>2. hs \in {<<>>, Heads(sid, c)} /\ (hs = <<>> => k = sid) /\ sid \in 0..StreamMod-1
    BY <1>q, <1>t, PacketsType
  <2> HIDE DEF sid, hs, k
  <2> QED
    BY <1>s, <2>1, <2>2, VoiceInKey
<1>4. CASE HbpLateEntry(ts, c)
  <2> DEFINE sid == (in_stream_ctr + 1) % StreamMod
             hs == Heads(sid, c)
  <2>1. Transmit(ts, hs \o VoiceOf(sid, c), c) /\ in_stream_id'[ts] = sid
    BY <1>4, <1>t DEF HbpLateEntry, BeginInCall
  <2>2. hs \in {<<>>, Heads(sid, c)} /\ (hs = <<>> => k = sid) /\ sid \in 0..StreamMod-1
    BY <1>t, PacketsType
  <2> HIDE DEF sid, hs, k
  <2> QED
    BY <1>s, <2>1, <2>2, VoiceInKey
<1>5. CASE \/ HbpRefused(ts, c, frame) \/ HbpDuplicateHead(ts, c)
           \/ HbpForeignTerm(ts, c) \/ HbpVoiceWithoutHead(ts, c)
  BY <1>5, <1>n DEF HbpRefused, HbpDuplicateHead, HbpForeignTerm, HbpVoiceWithoutHead, inVars
<1> QED
  BY <1>w, <1>1, <1>2, <1>3, <1>4, <1>5 DEF hbp_voice_received

LEMMA QueueInKeyInit == MonInit => QueueInKey
<1> SUFFICES ASSUME MonInit PROVE QueueInKey
  OBVIOUS
<1>1. \A t \in TS : queue[t] = <<>> /\ in_started[t] = FALSE
  BY DEF MonInit, Init
<1>2. \A key : InKey(key, <<>>)
  BY DEF InKey
<1> QED
  BY <1>1, <1>2 DEF QueueInKey

\* A drain hands the repeater the packet at the head of the queue.
LEMMA DrainInKey ==
  ASSUME TypeOK, MonTypeOK, QueueInKey, TransmitterTakesAll, NEW ts \in TS, Drain(ts), WatchWires(ts)
  PROVE  QueueInKey' /\ \A t \in TS : InKey(keyed[t], toIpsc'[t])
<1> DEFINE q == queue[ts]
           p == Head(q)
           rest == Tail(q)
<1>q. \A t \in TS : /\ InKey(keyed[t], queue[t])
                    /\ in_started[t] => KeyedAfter(keyed[t], queue[t]) = in_stream_id[t]
                    /\ ~Pacing => queue[t] = <<>>
  BY DEF QueueInKey
<1>e. \A key : KeyedAfter(key, <<>>) = key /\ InKey(key, <<>>)
  BY KeyedAfterNone DEF InKey
<1>1. q \in Seq(Packet) /\ q # <<>> /\ queue \in [TS -> Seq(Packet)]
  BY DEF Drain, TypeOK, TxTypeOK
<1>2. /\ queue' = [queue EXCEPT ![ts] = rest]
      /\ toIpsc' = [Silent EXCEPT ![ts] = <<p>>]
      /\ UNCHANGED <<in_started, in_stream_id>>
  BY DEF Drain, TransmitterTakesAll, inVars
<1>3. toIpsc'[ts] = <<p>> /\ queue'[ts] = rest
  BY <1>1, <1>2 DEF Silent
<1>o. \A t \in TS \ {ts} : queue'[t] = queue[t] /\ toIpsc'[t] = <<>> /\ keyed'[t] = keyed[t]
  BY <1>1, <1>2, WiresSeen DEF Silent
<1>k. keyed'[ts] = KeyedAfter(keyed[ts], <<p>>)
  BY <1>3, WiresSeen
<1>4. /\ p \in Packet /\ rest \in Seq(Packet) /\ q = <<p>> \o rest
      /\ <<p>> \in Seq(Packet) /\ Len(<<p>>) = 1 /\ <<p>>[1] = p
      /\ Len(q) \in Nat /\ Len(q) > 0 /\ Len(rest) = Len(q) - 1
      /\ \A i \in 1..Len(rest) : /\ rest[i] = q[i + 1]
                                 /\ SubSeq(q, 1, i) = <<p>> \o SubSeq(rest, 1, i - 1)
                                 /\ SubSeq(rest, 1, i - 1) \in Seq(Packet)
      /\ q[1] = p /\ SubSeq(q, 1, 0) = <<>> /\ SubSeq(<<p>>, 1, 0) = <<>>
  <2>1. p \in Packet /\ rest \in Seq(Packet) /\ q[1] = p
    BY <1>1
  <2>2. Len(q) \in Nat /\ Len(q) > 0 /\ Len(rest) = Len(q) - 1 /\ \A i \in 1..Len(rest) : rest[i] = q[i + 1]
    BY <1>1
  <2> HIDE DEF p, rest, q
  <2>3. <<p>> \in Seq(Packet) /\ Len(<<p>>) = 1 /\ <<p>>[1] = p
    BY <2>1
  <2>4. q = <<p>> \o rest
    BY <1>1, <2>1, <2>2, <2>3
  <2>5. SubSeq(q, 1, 0) = <<>> /\ SubSeq(<<p>>, 1, 0) = <<>>
    BY <1>1, <2>3
  <2>6. ASSUME NEW i \in 1..Len(rest)
        PROVE  /\ SubSeq(q, 1, i) = <<p>> \o SubSeq(rest, 1, i - 1)
               /\ SubSeq(rest, 1, i - 1) \in Seq(Packet)
    BY <1>1, <2>1, <2>2, <2>3
  <2> QED
    BY <2>1, <2>2, <2>3, <2>4, <2>5, <2>6
<1> HIDE DEF p, rest, q
<1>b. \A u \in Seq(Packet) : KeyedAfter(keyed[ts], <<p>> \o u) = KeyedAfter(keyed'[ts], u)
  <2> DEFINE one == <<p>>
             after == keyed'[ts]
             key == keyed[ts]
  <2>1. one \in Seq(Packet) /\ after = KeyedAfter(key, one)
    BY <1>k, <1>4
  <2> HIDE DEF one, after, key
  <2>2. \A u \in Seq(Packet) : KeyedAfter(key, one \o u) = KeyedAfter(after, u)
    BY <2>1, KeyedAfterBoth
  <2> QED
    BY <2>2 DEF one, after, key
<1>i. InKey(keyed[ts], q)
  BY <1>q DEF q
<1>5. InKey(keyed[ts], <<p>>)
  <2> SUFFICES ASSUME NEW i \in 1..Len(<<p>>), <<p>>[i].burst # "HEAD"
               PROVE  <<p>>[i].sid = KeyedAfter(keyed[ts], SubSeq(<<p>>, 1, i - 1))
    BY DEF InKey
  <2>1. i = 1 /\ i - 1 = 0 /\ 1 \in 1..Len(q) /\ 1 - 1 = 0
    BY <1>4
  <2>2. p.burst # "HEAD" => p.sid = KeyedAfter(keyed[ts], <<>>)
    BY <1>i, <1>4, <2>1 DEF InKey
  <2> QED
    BY <1>4, <2>1, <2>2
<1>6. InKey(keyed'[ts], rest)
  <2> SUFFICES ASSUME NEW i \in 1..Len(rest), rest[i].burst # "HEAD"
               PROVE  rest[i].sid = KeyedAfter(keyed'[ts], SubSeq(rest, 1, i - 1))
    BY DEF InKey
  <2> DEFINE before == SubSeq(rest, 1, i - 1)
             j == i + 1
  <2>1. j \in 1..Len(q) /\ j - 1 = i /\ rest[i] = q[j]
    BY <1>4
  <2>2. before \in Seq(Packet) /\ SubSeq(q, 1, i) = <<p>> \o before
    BY <1>4
  <2> HIDE DEF before, j
  <2>3. q[j].sid = KeyedAfter(keyed[ts], SubSeq(q, 1, i))
    BY <1>i, <2>1 DEF InKey
  <2>4. KeyedAfter(keyed[ts], <<p>> \o before) = KeyedAfter(keyed'[ts], before)
    BY <1>b, <2>2
  <2>5. rest[i].sid = KeyedAfter(keyed'[ts], before)
    BY <2>1, <2>2, <2>3, <2>4
  <2> QED
    BY <2>5 DEF before
<1>7. KeyedAfter(keyed'[ts], rest) = KeyedAfter(keyed[ts], q)
  BY <1>b, <1>4
<1>8. /\ in_started'[ts] => KeyedAfter(keyed'[ts], queue'[ts]) = in_stream_id'[ts]
      /\ InKey(keyed'[ts], queue'[ts])
      /\ ~Pacing => queue'[ts] = <<>>
      /\ InKey(keyed[ts], toIpsc'[ts])
  BY <1>q, <1>1, <1>2, <1>3, <1>5, <1>6, <1>7 DEF q
<1>9. ASSUME NEW t \in TS \ {ts}
      PROVE  /\ in_started'[t] => KeyedAfter(keyed'[t], queue'[t]) = in_stream_id'[t]
             /\ InKey(keyed'[t], queue'[t])
             /\ ~Pacing => queue'[t] = <<>>
             /\ InKey(keyed[t], toIpsc'[t])
  BY <1>q, <1>e, <1>2, <1>o
<1> QED
  BY <1>8, <1>9 DEF QueueInKey

LEMMA QueueInKeyNext ==
  ASSUME TypeOK, TypeOK', MonTypeOK, QueueInKey, TransmitterTakesAll, [MonNext]_allVars
  PROVE  QueueInKey' /\ (UNCHANGED allVars \/ \A t \in TS : InKey(keyed[t], toIpsc'[t]))
<1>e. \A key : KeyedAfter(key, <<>>) = key /\ InKey(key, <<>>)
  BY KeyedAfterNone DEF InKey
<1>0. ASSUME UNCHANGED <<queue, keyed, in_stream_id>>, \A t \in TS : in_started'[t] => in_started[t]
      PROVE  QueueInKey'
  BY <1>0 DEF QueueInKey
<1>1. CASE \E ts \in TS, c \in IpscCalls, b \in IpscBursts : WatchIpsc(ts, c, b)
  <2>1. PICK ts \in TS, c \in IpscCalls, b \in IpscBursts : WatchIpsc(ts, c, b)
    BY <1>1
  <2>2. UNCHANGED <<queue, in_stream_id, in_started>> /\ toIpsc' = Silent
    BY <2>1, IpscFrame DEF WatchIpsc, IpscHeard, inVars, txVars
  <2>3. \A t \in TS : toIpsc'[t] = <<>> /\ keyed'[t] = keyed[t]
    BY <1>e, <2>1, <2>2, WiresSeen DEF WatchIpsc, Silent
  <2> QED
    BY <1>e, <2>2, <2>3 DEF QueueInKey
<1>2. CASE \E ts \in TS, c \in HbpCalls, frame \in HbpFrames : WatchHbp(ts, c, frame)
  BY <1>2, HbpInKey
<1>3. CASE \E ts \in TS : Drain(ts) /\ WatchWires(ts) /\ UNCHANGED turned_away
  BY <1>3, DrainInKey
<1>4. CASE Tick /\ ElapseClocks
  BY <1>0, <1>4, <1>e, OthersAreSilent DEF Tick, ElapseClocks, Silent
<1>5. CASE PeerLost \/ WatchDisconnect
  <2>1. \A t \in TS : queue'[t] = <<>> /\ in_started'[t] = FALSE /\ toIpsc'[t] = <<>>
    BY <1>5, PeerLossForgets, DisconnectForgets DEF ForgetCalls, ClearTxQueues, Silent
  <2> QED
    BY <1>e, <2>1 DEF QueueInKey
<1>6. CASE /\ Watchdog \/ PeerRegistered \/ HbpConnected \/ HbpDropped
           /\ UNCHANGED monVars
  <2>1. /\ UNCHANGED <<queue, keyed, in_stream_id>> /\ toIpsc' = Silent
        /\ \A t \in TS : in_started'[t] => in_started[t]
    BY <1>6 DEF Watchdog, PeerRegistered, HbpConnected, HbpDropped, SetLinks, inVars, txVars,
                monVars, wireVars
  <2> QED
    BY <1>0, <1>e, <2>1 DEF Silent
<1>7. CASE UNCHANGED allVars
  BY <1>0, <1>7 DEF allVars, vars, monVars, wireVars, inVars, txVars
<1> QED
  BY <1>1, <1>2, <1>3, <1>4, <1>5, <1>6, <1>7, MonSteps

\* As long as the transmitter takes what the calls issue, a repeater receives voice and
\* terminators only of the call it was keyed for, with and without pacing, for every number
\* of repeated heads; a transmitter that drops packets can drop the heads of a call.
THEOREM VoiceIsKeyedFor == MonSpec /\ []TransmitterTakesAll => VoiceFollowsHead
<1> DEFINE Inv == TypeOK /\ MonTypeOK /\ QueueInKey
<1>1. MonInit => Inv
  BY MonInitType, QueueInKeyInit
<1>2. Inv /\ TransmitterTakesAll /\ [MonNext]_allVars => Inv'
  BY MonitorWatches, NextTypeOK, MonTypeNext, QueueInKeyNext
<1>3. Inv /\ Inv' /\ TransmitterTakesAll /\ [MonNext]_allVars
        => [\A ts \in TS : \A i \in 1..Len(toIpsc'[ts]) :
              LET p == toIpsc'[ts][i]
              IN p.burst # "HEAD" => p.sid = KeyedAfter(keyed[ts], SubSeq(toIpsc'[ts], 1, i - 1))
           ]_allVars
  <2> SUFFICES ASSUME Inv, Inv', TransmitterTakesAll, [MonNext]_allVars, ~UNCHANGED allVars, NEW t \in TS
               PROVE  InKey(keyed[t], toIpsc'[t])
    BY DEF InKey
  <2> QED
    BY QueueInKeyNext
<1> QED
  BY <1>1, <1>2, <1>3, PTL DEF MonSpec, VoiceFollowsHead
=============================================================================
