----------------------------- MODULE WireMonitor -----------------------------
(***************************************************************************)
(* An observer beside the translator.  It sees what arrives and what is    *)
(* sent, and keeps a history of its own; the properties compare the        *)
(* packets of a step with that history, not with the translator's          *)
(* bookkeeping.                                                            *)
(***************************************************************************)
EXTENDS CallTranslator

VARIABLES
  since_tx,    \* ticks since the last packet sent on IPSC, per timeslot
  last_tx,     \* the call that packet named, or None
  since_fwd,   \* ticks since the last DMRD frame sent to HBP, per timeslot
  last_fwd,    \* that frame, or None
  keyed,       \* stream byte the repeater is keyed with, or NoStream
  turned_away  \* ticks for which a call whose head opened nothing stays out

wireVars == <<since_tx, last_tx, since_fwd, last_fwd, keyed>>
monVars == <<wireVars, turned_away>>
allVars == <<vars, monVars>>

\* None stands for the frame of a slot on which none was sent.
ASSUME NoFrameAssumption == None \notin Dmrd

NoStream == -1

\* Beyond every delay of interest.
Far == CHOOSE n \in {Hang + 1, Interval, Holdoff, ReflectWindow} :
         n >= Hang + 1 /\ n >= Interval /\ n >= Holdoff /\ n >= ReflectWindow

\* Only the lock turns a call away.  Else the reflection filter does, or both do:
\* a lock that lets other talkgroups pass leaves echoes to the filter.
ByLockAlone == CallLock /\ (SameTgOnly => ~ReflectSuppression)

\* How long a stream turned away is remembered, whichever of them did it.
StayOut == IF ByLockAlone \/ (CallLock /\ BlockFor <= ReflectWindow)
           THEN BlockFor ELSE ReflectWindow

Forgiven == [ts \in TS |-> [s \in Streams |-> 0]]

MonInit ==
  /\ Init
  /\ since_tx = [ts \in TS |-> Far]
  /\ last_tx = [ts \in TS |-> None]
  /\ since_fwd = [ts \in TS |-> Far]
  /\ last_fwd = [ts \in TS |-> None]
  /\ keyed = [ts \in TS |-> NoStream]
  /\ turned_away = Forgiven

Last(s) == s[Len(s)]

\* What the repeater is keyed with after receiving the packets pkts.
KeyedAfter(key, pkts) ==
  LET marks == {i \in 1..Len(pkts) : pkts[i].burst # "VOICE"}
      last  == CHOOSE i \in marks : \A j \in marks : j <= i
  IN IF marks = {} THEN key
     ELSE IF pkts[last].burst = "HEAD" THEN pkts[last].sid ELSE NoStream

\* What was sent on a slot.
WatchWires(ts) ==
  /\ since_tx' = [since_tx EXCEPT ![ts] = IF toIpsc'[ts] = <<>> THEN @ ELSE 0]
  /\ since_fwd' = [since_fwd EXCEPT ![ts] = IF toHbp'[ts] = <<>> THEN @ ELSE 0]
  /\ last_tx' = [last_tx EXCEPT ![ts] =
                   IF toIpsc'[ts] = <<>> THEN @ ELSE Last(toIpsc'[ts]).call]
  /\ last_fwd' = [last_fwd EXCEPT ![ts] = IF toHbp'[ts] = <<>> THEN @ ELSE Last(toHbp'[ts])]
  /\ keyed' = [keyed EXCEPT ![ts] = KeyedAfter(@, toIpsc'[ts])]

\* A packet of stream s was heard.  A head that opens nothing turns its call
\* away; later packets of the stream prolong that, its terminator ends it.
WatchStream(ts, s, is_head, is_end, opened) ==
  turned_away' = [turned_away EXCEPT ![ts][s] =
    CASE is_end -> 0
      [] is_head /\ ~opened -> StayOut
      [] OTHER -> IF @ > 0 THEN StayOut ELSE 0]

ElapseClocks ==
  /\ since_tx' = [ts \in TS |-> Up(since_tx[ts], Far)]
  /\ since_fwd' = [ts \in TS |-> Up(since_fwd[ts], Far)]
  /\ turned_away' = [ts \in TS |-> [s \in Streams |-> Down(turned_away[ts][s])]]
  /\ UNCHANGED <<last_tx, last_fwd, keyed>>

\* The delays towards a wire start afresh with a new session on either side.
NewSession ==
  /\ since_tx' = [ts \in TS |-> Far]
  /\ since_fwd' = [ts \in TS |-> Far]
  /\ UNCHANGED <<last_tx, last_fwd, keyed>>

WatchIpsc(ts, c, b) ==
  /\ ipsc_voice_received(ts, c, b)
  /\ WatchStream(ts, c.stream, b = "HEAD", b = "TERM", out_stream_id'[ts] # None)
  /\ WatchWires(ts)

WatchHbp(ts, c, frame) ==
  /\ hbp_voice_received(ts, c, frame)
  /\ WatchStream(ts, c.stream, frame = "HEAD", frame = "TERM", in_call'[ts] # None)
  /\ WatchWires(ts)

\* The lock's refusals outlive the HBP session, the filter's do not.
WatchDisconnect ==
  /\ \/ HbpDisconnected
     \/ \E ts \in TS, c \in IpscCalls, b \in IpscBursts : SendDmrdFails(ts, c, b)
  /\ NewSession
  /\ turned_away' = IF ByLockAlone THEN turned_away ELSE Forgiven

MonNext ==
  \/ \E ts \in TS :
       \/ \E c \in IpscCalls, b \in IpscBursts : WatchIpsc(ts, c, b)
       \/ \E c \in HbpCalls, frame \in HbpFrames : WatchHbp(ts, c, frame)
       \/ Drain(ts) /\ WatchWires(ts) /\ UNCHANGED turned_away
  \/ Tick /\ ElapseClocks
  \/ PeerLost /\ NewSession /\ turned_away' = Forgiven
  \/ WatchDisconnect
  \/ (Watchdog \/ PeerRegistered \/ HbpConnected \/ HbpDropped) /\ UNCHANGED monVars

\* The transmitter takes every packet a callback may issue: no slot is busy, and
\* the heads and the voice burst of one callback fit in the queue.
TransmitterTakesAll ==
  \A ts \in TS : /\ NotBusy(ts)
                 /\ Pacing => Len(queue[ts]) + HeaderRepeats + 1 <= QueueLimit

MonSpec == MonInit /\ [][MonNext]_allVars
MonFairSpec == MonSpec /\ Fairness

-----------------------------------------------------------------------------
\* Packets for the repeater leave one by one and at least Interval ticks
\* apart, however they were generated: a callback may issue several heads and
\* a voice burst at once, calls may follow each other, the loop may lag
\* (_send_hbp_to_ipsc and the drain).  A new session starts afresh.
Cadence ==
  [][Pacing => \A ts \in TS : toIpsc'[ts] # <<>> =>
       Len(toIpsc'[ts]) = 1 /\ since_tx[ts] >= Interval]_allVars

\* The direction of a slot turns around only after a pause of more than Hang
\* ticks on the wire: no frame is forwarded to HBP that soon after a packet was
\* transmitted on IPSC, and none is transmitted that soon after one was forwarded
\* (the call lock with its hang, over all talkgroups).
Turnaround ==
  [][CallLock /\ ~SameTgOnly => \A ts \in TS :
       /\ toHbp'[ts] # <<>> => since_tx[ts] > Hang
       /\ toIpsc'[ts] # <<>> => since_fwd[ts] > Hang]_allVars

\* HBP traffic is not transmitted into a slot on which an IPSC call was
\* forwarded less than Holdoff ticks ago, also when the call lock is off
\* (_ipsc_busy_last, _is_ipsc_slot_busy).
BusySlotIsLeftAlone ==
  [][\A ts \in TS : toIpsc'[ts] # <<>> => since_fwd[ts] >= Holdoff]_allVars

\* The repeater never receives voice or a terminator of a call it was not
\* keyed for by a head of that call: interrupted calls, late entries, timeouts
\* and resets included (_emit_hbp_ipsc_start, in_started).  A transmitter that drops
\* packets, from a busy slot or a full queue, may drop the head and not the voice.
VoiceFollowsHead ==
  [][\A ts \in TS : \A i \in 1..Len(toIpsc'[ts]) :
       LET p == toIpsc'[ts][i]
       IN p.burst # "HEAD" => p.sid = KeyedAfter(keyed[ts], SubSeq(toIpsc'[ts], 1, i - 1))
    ]_allVars

\* A call whose head was refused does not get through later, in the middle,
\* when the call it collided with is over: its stream stays out until its
\* terminator or until it has been silent for StayOut ticks.  The same of the
\* echo of our own call that the reflection filter dropped the head of
\* (_call_lock_blocked_ipsc, _call_lock_blocked_hbp, _reflect_ignore).  Not in
\* LEGACY_AMBE, where packets without metadata never reach the lock and the filter
\* and so do not prolong anything.
TurnedAwayStaysOut ==
  [][~Legacy => \A ts \in TS :
       /\ \A i \in 1..Len(toHbp'[ts]) : turned_away[ts][toHbp'[ts][i].call.stream] = 0
       /\ in_call'[ts] \notin {None, in_call[ts]} => turned_away[ts][in_call'[ts].stream] = 0
    ]_allVars

\* The echo of an HBP call under way is not forwarded back as a call of its own:
\* no head goes to HBP that repeats source and talkgroup of what was transmitted
\* for that call less than ReflectWindow ticks ago (_should_suppress_ipsc_reflection,
\* _remember_hbp_to_ipsc, in PEER mode).
EchoIsSuppressed ==
  [][ReflectSuppression => \A ts \in TS : \A i \in 1..Len(toHbp'[ts]) :
       LET d == toHbp'[ts][i]
       IN d.frame = "HEAD" /\ in_started[ts] /\ since_tx[ts] < ReflectWindow
            => <<last_tx[ts].src, last_tx[ts].tg>> # <<d.call.src, d.call.tg>>
    ]_allVars

\* Voice forwarded to HBP continues the superframe of its stream: position 0
\* after the head, the next position after a voice frame, and 4 when it opens
\* the stream itself, which LEGACY_AMBE never lets it do (_out_frame_pos, with its
\* resets; terminators, timeouts, disconnections and stream changes between).
SuperframeInStep ==
  [][\A ts \in TS : \A i \in 1..Len(toHbp'[ts]) :
       LET d == toHbp'[ts][i]
           continues == /\ last_fwd[ts] # None
                        /\ d.stream = last_fwd[ts].stream
                        /\ \/ last_fwd[ts].frame = "HEAD" /\ d.pos = 0
                           \/ /\ last_fwd[ts].frame = "VOICE"
                              /\ d.pos = (last_fwd[ts].pos + 1) % SuperframeLen
           enters == ~Legacy /\ d.pos = 4 % SuperframeLen
       IN d.frame = "VOICE" => continues \/ enters
    ]_allVars
=============================================================================
