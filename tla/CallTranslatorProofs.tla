------------------------ MODULE CallTranslatorProofs ------------------------
(***************************************************************************)
(* Theorems about CallTranslator, for every set of calls and timeslots,    *)
(* every configuration and every length of the timers.                     *)
(***************************************************************************)
EXTENDS CallTranslator, TLAPS

(***************************************************************************)
(* The constants, as the provers need them.                                *)
(***************************************************************************)
LEMMA ConstantsType ==
  /\ HeaderRepeats \in Nat \ {0} /\ QueueLimit \in Nat \ {0}
  /\ BlockFor \in Nat \ {0} /\ ReflectWindow \in Nat \ {0}
  /\ SeqMod \in Nat \ {0} /\ SuperframeLen \in Nat \ {0} /\ StreamMod \in Nat \ {0}
  /\ Interval \in Nat /\ Holdoff \in Nat /\ Hang \in Nat
  /\ DupWindow \in Nat /\ CallTimeout \in Nat
  /\ CallLock \in BOOLEAN /\ SameTgOnly \in BOOLEAN /\ Legacy \in BOOLEAN
  /\ Pacing \in BOOLEAN /\ StartOnVoice \in BOOLEAN /\ ReflectSuppression \in BOOLEAN
  /\ Tracking \in BOOLEAN
  BY NumbersAssumption, SwitchesAssumption

LEMMA CallsType ==
  /\ \A c \in IpscCalls : c.stream \in IpscStreams /\ c.src \in Srcs /\ c.tg \in Tgs
  /\ \A c \in HbpCalls : c.stream \in HbpStreams /\ c.src \in Srcs /\ c.tg \in Tgs
  /\ None \notin IpscCalls \cup HbpCalls \cup IpscStreams
  BY CallsAssumption DEF IpscCall, HbpCall

\* A counter that wraps stays below its modulus.
LEMMA Wraps == ASSUME NEW m \in Nat \ {0}, NEW n \in Nat PROVE n % m \in 0..m-1
  OBVIOUS

(***************************************************************************)
(* The pacing queue: what _send_hbp_to_ipsc appends fits, and appending    *)
(* something leaves something queued.                                      *)
(***************************************************************************)
LEMMA EnqueuedType ==
  ASSUME NEW q \in Seq(Packet), NEW pkts \in Seq(Packet), pkts # <<>>
  PROVE  /\ Enqueued(q, pkts) \in Seq(Packet)
         /\ Len(Enqueued(q, pkts)) <= QueueLimit
         /\ Enqueued(q, pkts) # <<>>
<1> DEFINE all == q \o pkts
           n == IF Len(all) <= QueueLimit THEN Len(all) ELSE QueueLimit
<1>1. all \in Seq(Packet) /\ Len(all) = Len(q) + Len(pkts) /\ Len(pkts) > 0
  OBVIOUS
<1>2. n \in 1..Len(all) /\ n <= QueueLimit
  BY <1>1, ConstantsType
<1>3. SubSeq(all, 1, n) \in Seq(Packet) /\ Len(SubSeq(all, 1, n)) = n
  BY <1>1, <1>2
<1> HIDE DEF n
<1>4. Enqueued(q, pkts) = SubSeq(all, 1, n)
  BY DEF Enqueued, n
<1>5. Len(Enqueued(q, pkts)) = n /\ n > 0
  BY <1>1, <1>2, <1>3, <1>4
<1>6. Enqueued(q, pkts) # <<>>
  BY <1>5
<1> QED
  BY <1>2, <1>3, <1>4, <1>5, <1>6

LEMMA SilentType == Silent \in [TS -> Seq(Packet)] /\ Silent \in [TS -> Seq(Dmrd)]
<1>1. \A S : <<>> \in Seq(S)
  OBVIOUS
<1>2. \A S : Silent \in [TS -> Seq(S)]
  BY <1>1 DEF Silent
<1> QED
  BY <1>2

LEMMA InitTypeOK == Init => TypeOK
<1> SUFFICES ASSUME Init PROVE TypeOK
  OBVIOUS
<1> USE ConstantsType DEF Init
<1>1. OutTypeOK /\ LcWithStream
  BY DEF OutTypeOK, LcWithStream
<1>2. InTypeOK
  BY DEF InTypeOK
<1>3. LockTypeOK
  BY DEF LockTypeOK, Owners, Expired
<1>4. TxTypeOK
  BY DEF TxTypeOK, NoHandle
<1>5. ReflectTypeOK
  BY DEF ReflectTypeOK
<1>6. WireTypeOK
  BY SilentType DEF WireTypeOK
<1> QED
  BY <1>1, <1>2, <1>3, <1>4, <1>5, <1>6 DEF TypeOK

(***************************************************************************)
(* Type correctness.  One lemma per handler: which parts of the state it   *)
(* leaves alone, then its actions one by one for the parts it writes.      *)
(***************************************************************************)
\* The frames of a burst are well formed.
LEMMA FramesType ==
  ASSUME TypeOK, NEW n \in Nat, NEW frame \in HbpFrames,
         NEW c \in IpscCalls, NEW stream \in IpscCalls, NEW lc \in IpscCalls,
         NEW pos \in 0..SuperframeLen-1
  PROVE  Frames(n, frame, c, stream, lc, pos) \in Seq(Dmrd)
<1> DEFINE d(i) == [frame |-> frame, call |-> c, stream |-> stream, lc |-> lc,
                    pos |-> pos, dtype |-> Dtype(frame, pos),
                    seq |-> (out_seq + i - 1) % SeqMod]
<1>1. out_seq \in Nat /\ SeqMod \in Nat \ {0} /\ SuperframeLen \in Nat \ {0}
  BY ConstantsType DEF TypeOK, OutTypeOK
<1>2. \A i \in 1..n : (out_seq + i - 1) % SeqMod \in 0..SeqMod-1
  BY <1>1, Wraps
<1>3. Dtype(frame, pos) \in Nat
  BY <1>1 DEF Dtype
<1>4. \A i \in 1..n : d(i) \in Dmrd
  BY <1>2, <1>3 DEF Dmrd
<1>5. Frames(n, frame, c, stream, lc, pos) = [i \in 1..n |-> d(i)]
  BY DEF Frames
<1> HIDE DEF d
<1> QED
  BY <1>4, <1>5

\* So SendDmrd sends well-formed frames.
LEMMA SendDmrdType ==
  ASSUME TypeOK, NEW ts \in TS, NEW n \in Nat, NEW frame \in HbpFrames,
         NEW c \in IpscCalls, NEW stream \in IpscCalls, NEW lc \in IpscCalls,
         NEW pos \in 0..SuperframeLen-1, SendDmrd(ts, n, frame, c, stream, lc, pos)
  PROVE  toHbp' \in [TS -> Seq(Dmrd)] /\ out_seq' \in 0..SeqMod-1
<1>1. out_seq \in Nat /\ SeqMod \in Nat \ {0}
  BY ConstantsType DEF TypeOK, OutTypeOK
<1>2. out_seq' \in 0..SeqMod-1
  BY <1>1, Wraps DEF SendDmrd
<1>3. Frames(n, frame, c, stream, lc, pos) \in Seq(Dmrd)
  BY FramesType
<1> QED
  BY <1>2, <1>3, SilentType DEF SendDmrd

LEMMA IpscFrame ==
  ASSUME NEW ts \in TS, NEW c \in IpscCalls, NEW b \in IpscBursts,
         ipsc_voice_received(ts, c, b)
  PROVE  IpscHeard(ts)
BY DEF ipsc_voice_received, IpscHead, IpscRepeatedHead, IpscTerm, IpscVoice, IpscIgnored,
       IpscReflected, IpscRefused, IpscWithoutMetadata, IpscAccepted, IpscUnblocked

LEMMA IpscOutType ==
  ASSUME TypeOK, NEW ts \in TS, NEW c \in IpscCalls, NEW b \in IpscBursts,
         ipsc_voice_received(ts, c, b)
  PROVE  OutTypeOK' /\ LcWithStream' /\ toHbp' \in [TS -> Seq(Dmrd)]
<1> USE ConstantsType, CallsType DEF TypeOK, OutTypeOK
<1>1. out_idle' \in [TS -> 0..CallTimeout+1]
  BY IpscFrame DEF IpscHeard
<1>2. AcceptedByte(ts, c, b) \in IpscStreams \cup {None}
  BY DEF AcceptedByte
<1>3. CASE KeepOutCall(ts, c, b)
  BY <1>1, <1>2, <1>3, SilentType DEF KeepOutCall, OpenStream, LcWithStream
<1>4. CASE UNCHANGED outVars /\ toHbp' = Silent
  BY <1>1, <1>4, SilentType DEF outVars, LcWithStream
<1>5. CASE b = "HEAD" /\ IpscHead(ts, c)
  <2> DEFINE stream == IF OpenStream(ts, c, "HEAD") = None THEN c ELSE out_stream_id[ts]
  <2>1. stream \in IpscCalls
    BY DEF OpenStream
  <2>2. SendDmrd(ts, IF Legacy THEN 2 ELSE 1, "HEAD", c, stream, c, 0)
    BY <1>5 DEF IpscHead
  <2>3. toHbp' \in [TS -> Seq(Dmrd)] /\ out_seq' \in 0..SeqMod-1
    BY <2>1, <2>2, SendDmrdType DEF HbpFrames
  <2>4. /\ out_stream_id' = [out_stream_id EXCEPT ![ts] = stream]
        /\ out_lc' = [out_lc EXCEPT ![ts] = c]
        /\ out_frame_pos' = [out_frame_pos EXCEPT ![ts] = 0]
        /\ out_ipsc_stream_byte' = [out_ipsc_stream_byte EXCEPT ![ts] = AcceptedByte(ts, c, b)]
    BY <1>5 DEF IpscHead
  <2> HIDE DEF stream
  <2> QED
    BY <1>1, <1>2, <2>1, <2>3, <2>4 DEF LcWithStream
<1>6. CASE IpscTerm(ts, c)
  <2>1. out_stream_id[ts] \in IpscCalls /\ out_lc[ts] \in IpscCalls
    BY <1>6 DEF IpscTerm, LcWithStream
  <2>2. SendDmrd(ts, 1, "TERM", c, out_stream_id[ts], out_lc[ts], 0)
    BY <1>6 DEF IpscTerm
  <2>3. toHbp' \in [TS -> Seq(Dmrd)] /\ out_seq' \in 0..SeqMod-1
    BY <2>1, <2>2, SendDmrdType DEF HbpFrames
  <2> QED
    BY <1>1, <1>6, <2>3 DEF IpscTerm, LcWithStream
<1>7. CASE IpscVoice(ts, c, b)
  <2> DEFINE late   == LateEntry(ts, b)
             stream == IF late THEN c ELSE out_stream_id[ts]
             lc     == IF late THEN c ELSE out_lc[ts]
             pos    == IF late THEN LateEntryPosition ELSE out_frame_pos[ts]
  <2>1. out_stream_id[ts] # None \/ late
    BY <1>7 DEF IpscVoice
  <2>2. stream \in IpscCalls /\ lc \in IpscCalls
    BY <2>1 DEF LcWithStream
  <2> HIDE DEF late
  <2>p. pos \in 0..SuperframeLen-1
    <3>1. LateEntryPosition \in 0..SuperframeLen-1
      BY Wraps DEF LateEntryPosition
    <3> QED
      BY <3>1
  <2>3. (pos + 1) % SuperframeLen \in 0..SuperframeLen-1
    <3> HIDE DEF pos
    <3>1. pos + 1 \in Nat /\ SuperframeLen \in Nat \ {0}
      BY <2>p
    <3> QED
      BY <3>1, Wraps
  <2>4. /\ out_stream_id' = [out_stream_id EXCEPT ![ts] = stream]
        /\ out_lc' = [out_lc EXCEPT ![ts] = lc]
        /\ out_ipsc_stream_byte' = out_ipsc_stream_byte
        /\ \/ /\ out_frame_pos' = [out_frame_pos EXCEPT ![ts] = pos]
              /\ out_seq' = out_seq
              /\ toHbp' = Silent
           \/ /\ out_frame_pos' = [out_frame_pos EXCEPT ![ts] = (pos + 1) % SuperframeLen]
              /\ SendDmrd(ts, 1, "VOICE", c, stream, lc, pos)
    BY <1>7 DEF IpscVoice, late
  <2>5. toHbp' \in [TS -> Seq(Dmrd)] /\ out_seq' \in 0..SeqMod-1
    BY <2>2, <2>p, <2>4, SendDmrdType, SilentType DEF HbpFrames
  <2> HIDE DEF stream, lc, pos
  <2>6. out_frame_pos' \in [TS -> 0..SuperframeLen-1]
    BY <2>p, <2>3, <2>4
  <2>7. /\ out_stream_id' \in [TS -> IpscCalls \cup {None}]
        /\ out_lc' \in [TS -> IpscCalls \cup {None}]
        /\ out_ipsc_stream_byte' \in [TS -> IpscStreams \cup {None}]
    BY <2>2, <2>4
  <2>8. LcWithStream'
    BY <2>2, <2>4 DEF LcWithStream
  <2> QED
    BY <1>1, <2>5, <2>6, <2>7, <2>8
<1> QED
  BY <1>3, <1>4, <1>5, <1>6, <1>7
     DEF ipsc_voice_received, IpscRepeatedHead, IpscIgnored, IpscReflected, IpscRefused,
         IpscWithoutMetadata

\* The lock and the refused streams, whichever packet is at the door.
LEMMA LockStepType ==
  ASSUME TypeOK, NEW ts \in TS, NEW dir \in {"IPSC", "HBP"}, NEW tg \in Tgs
  PROVE  /\ UntilAfter(ts) \in Expired..Hang
         /\ OwnerAfter(ts, dir) \in Owners
         /\ TakeLock(ts, dir, tg) => /\ lock_owner' \in [TS -> Owners]
                                     /\ lock_tg' \in [TS -> Tgs \cup {None}]
<1>1. UntilAfter(ts) \in Expired..Hang
  BY ConstantsType DEF UntilAfter, TypeOK, LockTypeOK, Expired
<1>2. OwnerAfter(ts, dir) \in Owners
  BY DEF OwnerAfter, TypeOK, LockTypeOK, Owners
<1> QED
  BY <1>1, <1>2 DEF TakeLock, TypeOK, LockTypeOK

LEMMA RefusedUntilType ==
  ASSUME TypeOK, NEW ts \in TS, NEW s \in Streams, NEW e \in BOOLEAN
  PROVE  [blocked EXCEPT ![ts][s] = RefusedUntil(ts, s, e)] \in [TS -> [Streams -> 0..BlockFor]]
<1>1. RefusedUntil(ts, s, e) \in 0..BlockFor
  BY ConstantsType DEF RefusedUntil
<1> QED
  BY <1>1 DEF TypeOK, LockTypeOK

LEMMA IpscLockType ==
  ASSUME TypeOK, NEW ts \in TS, NEW c \in IpscCalls, NEW b \in IpscBursts,
         ipsc_voice_received(ts, c, b)
  PROVE  LockTypeOK'
<1>h. Hang \in Expired..Hang /\ Expired \in Expired..Hang
  BY ConstantsType DEF Expired
<1>c. c.tg \in Tgs /\ c.stream \in Streams
  BY CallsType DEF Streams
<1>0. LockTypeOK
  BY DEF TypeOK
<1>u. UntilRekeyed(ts, c, b) \in Expired..Hang /\ UntilAfter(ts) \in Expired..Hang
  BY <1>h, <1>c, LockStepType DEF UntilRekeyed
<1>1. CASE UNCHANGED <<lockVars, blocked>>
  BY <1>0, <1>1 DEF lockVars, LockTypeOK
<1>2. CASE /\ TakeLock(ts, "IPSC", c.tg)
           /\ UNCHANGED blocked
           /\ \E u \in Expired..Hang : lock_until' = [lock_until EXCEPT ![ts] = u]
  BY <1>0, <1>2, <1>c, LockStepType DEF LockTypeOK
<1>3. CASE IpscRefused(ts, c, b)
  <2>1. blocked' \in [TS -> [Streams -> 0..BlockFor]]
    BY <1>3, <1>c, RefusedUntilType DEF IpscRefused
  <2> QED
    BY <1>0, <1>3, <1>h, <2>1 DEF IpscRefused, LockTypeOK
<1>4. CASE IpscTerm(ts, c)
  BY <1>2, <1>4, <1>h, <1>u DEF IpscTerm, IpscAccepted, IpscUnblocked
<1>5. CASE b = "HEAD" /\ IpscHead(ts, c)
  BY <1>2, <1>5, <1>u DEF IpscHead, IpscAccepted, IpscUnblocked
<1>6. CASE \/ IpscRepeatedHead(ts, c) \/ IpscVoice(ts, c, b)
           \/ IpscIgnored(ts, c, b) \/ IpscReflected(ts, c, b)
  BY <1>2, <1>6, <1>u DEF IpscRepeatedHead, IpscVoice, IpscIgnored, IpscReflected,
                          IpscAccepted, IpscUnblocked
<1>7. CASE IpscWithoutMetadata(ts, c, b)
  BY <1>1, <1>7 DEF IpscWithoutMetadata
<1> QED
  BY <1>3, <1>4, <1>5, <1>6, <1>7 DEF ipsc_voice_received

LEMMA IpscStepType ==
  ASSUME TypeOK, NEW ts \in TS, NEW c \in IpscCalls, NEW b \in IpscBursts,
         ipsc_voice_received(ts, c, b)
  PROVE  TypeOK'
<1>h. IpscHeard(ts)
  BY IpscFrame
<1>1. OutTypeOK' /\ LcWithStream' /\ toHbp' \in [TS -> Seq(Dmrd)]
  BY IpscOutType
<1>2. InTypeOK'
  BY <1>h DEF IpscHeard, TypeOK, InTypeOK, inVars
<1>3. LockTypeOK'
  BY IpscLockType
<1>b. UNCHANGED busy \/ busy' = [busy EXCEPT ![ts] = Holdoff]
  BY DEF ipsc_voice_received, IpscHead, IpscRepeatedHead, IpscTerm, IpscVoice, IpscIgnored,
         IpscReflected, IpscRefused, IpscWithoutMetadata, IpscAccepted
<1>4. TxTypeOK'
  <2>1. busy' \in [TS -> 0..Holdoff]
    <3>1. busy \in [TS -> 0..Holdoff] /\ Holdoff \in 0..Holdoff
      BY ConstantsType DEF TypeOK, TxTypeOK
    <3> QED
      BY <1>b, <3>1
  <2>2. UNCHANGED <<queue, handle, cooldown>>
    BY <1>h DEF IpscHeard, txVars
  <2> QED
    BY <2>1, <2>2 DEF TypeOK, TxTypeOK
<1>r. \/ UNCHANGED reflect_ignore
      \/ \E u \in 0..ReflectWindow : reflect_ignore' = [reflect_ignore EXCEPT ![ts][c.stream] = u]
  BY ConstantsType
     DEF ipsc_voice_received, IpscHead, IpscRepeatedHead, IpscTerm, IpscVoice, IpscIgnored,
         IpscReflected, IpscRefused, IpscWithoutMetadata, IpscAccepted
<1>5. ReflectTypeOK'
  <2>1. c.stream \in IpscStreams /\ reflect_ignore \in [TS -> [IpscStreams -> 0..ReflectWindow]]
    BY CallsType DEF TypeOK, ReflectTypeOK
  <2>2. reflect_ignore' \in [TS -> [IpscStreams -> 0..ReflectWindow]]
    BY <1>r, <2>1
  <2>3. UNCHANGED reflect_recent
    BY <1>h DEF IpscHeard
  <2> QED
    BY <2>2, <2>3 DEF TypeOK, ReflectTypeOK
<1>6. WireTypeOK'
  BY <1>h, <1>1, SilentType DEF IpscHeard, TypeOK, WireTypeOK, linkVars
<1> QED
  BY <1>1, <1>2, <1>3, <1>4, <1>5, <1>6 DEF TypeOK

(***************************************************************************)
(* The paced transmitter and the HBP side.                                 *)
(***************************************************************************)
LEMMA RememberedType ==
  ASSUME TypeOK, NEW ts \in TS, NEW c \in HbpCalls
  PROVE  Remembered(ts, c) \in [TS -> [Srcs \X Tgs -> 0..ReflectWindow]]
<1>1. <<c.src, c.tg>> \in Srcs \X Tgs
  BY CallsType
<1>2. reflect_recent \in [TS -> [Srcs \X Tgs -> 0..ReflectWindow]]
  BY DEF TypeOK, ReflectTypeOK
<1>3. ReflectWindow \in 0..ReflectWindow
  BY ConstantsType
<1> QED
  BY <1>1, <1>2, <1>3 DEF Remembered

LEMMA TransmitType ==
  ASSUME TypeOK, NEW ts \in TS, NEW pkts \in Seq(Packet), pkts # <<>>,
         NEW c \in HbpCalls, Transmit(ts, pkts, c), UNCHANGED busy
  PROVE  /\ TxTypeOK'
         /\ reflect_recent' \in [TS -> [Srcs \X Tgs -> 0..ReflectWindow]]
         /\ toIpsc' \in [TS -> Seq(Packet)]
<1>0. TxTypeOK /\ ReflectTypeOK
  BY DEF TypeOK
<1>r. Remembered(ts, c) \in [TS -> [Srcs \X Tgs -> 0..ReflectWindow]]
  BY RememberedType
<1>1. CASE /\ Pacing
           /\ queue' = [queue EXCEPT ![ts] = Enqueued(@, pkts)]
           /\ handle' = [handle EXCEPT ![ts] = ScheduledDrain(ts)]
           /\ toIpsc' = Silent
           /\ UNCHANGED <<cooldown, reflect_recent>>
  <2>1. queue[ts] \in Seq(Packet)
    BY <1>0 DEF TxTypeOK
  <2>2. Enqueued(queue[ts], pkts) \in Seq(Packet) /\ Len(Enqueued(queue[ts], pkts)) <= QueueLimit
    BY <2>1, EnqueuedType
  <2>3. ScheduledDrain(ts) \in NoHandle..Interval
    BY <1>0, ConstantsType DEF ScheduledDrain, TxTypeOK, NoHandle
  <2>4. queue' \in [TS -> Seq(Packet)] /\ \A t \in TS : Len(queue'[t]) <= QueueLimit
    BY <1>0, <1>1, <2>2 DEF TxTypeOK
  <2>5. handle' \in [TS -> NoHandle..Interval]
    BY <1>0, <1>1, <2>3 DEF TxTypeOK
  <2> QED
    BY <1>0, <1>1, <2>4, <2>5, SilentType DEF TxTypeOK, ReflectTypeOK
<1>2. CASE UNCHANGED txVars
  <2>1. TxTypeOK'
    BY <1>0, <1>2 DEF TxTypeOK, txVars
  <2> QED
    BY <1>0, <1>r, <2>1, SilentType DEF Transmit, ReflectTypeOK
<1> QED
  BY <1>1, <1>2 DEF Transmit

\* The packets of a callback, and when there are any.
LEMMA PacketsType ==
  ASSUME NEW sid \in 0..StreamMod-1, NEW c \in HbpCalls
  PROVE  /\ Heads(sid, c) \in Seq(Packet) /\ Heads(sid, c) # <<>>
         /\ VoiceOf(sid, c) \in Seq(Packet)
         /\ <<[burst |-> "TERM", sid |-> sid, call |-> c]>> \in Seq(Packet)
         /\ Heads(sid, c) \o VoiceOf(sid, c) \in Seq(Packet)
         /\ Heads(sid, c) \o VoiceOf(sid, c) # <<>>
         /\ <<>> \o VoiceOf(sid, c) = VoiceOf(sid, c)
         /\ VoiceOf(sid, c) # <<>>
<1> DEFINE p(b) == [burst |-> b, sid |-> sid, call |-> c]
<1>1. \A b \in HbpFrames : p(b) \in Packet
  BY DEF Packet
<1>2. p("HEAD") \in Packet /\ p("VOICE") \in Packet /\ p("TERM") \in Packet
  BY <1>1 DEF HbpFrames
<1> HIDE DEF p
<1>3. [i \in 1..HeaderRepeats |-> p("HEAD")] \in Seq(Packet)
      /\ Len([i \in 1..HeaderRepeats |-> p("HEAD")]) = HeaderRepeats
  BY <1>2, ConstantsType
<1>4. Heads(sid, c) \in Seq(Packet) /\ Len(Heads(sid, c)) > 0
  BY <1>3, ConstantsType DEF Heads, p
<1>5. VoiceOf(sid, c) \in Seq(Packet) /\ Len(VoiceOf(sid, c)) = 1
  BY <1>2 DEF VoiceOf, p
<1>6. <<p("TERM")>> \in Seq(Packet)
  BY <1>2
<1>7. <<>> \o VoiceOf(sid, c) = VoiceOf(sid, c)
  BY <1>5
<1> HIDE DEF Heads, VoiceOf
<1>8. Heads(sid, c) \o VoiceOf(sid, c) \in Seq(Packet)
      /\ Len(Heads(sid, c) \o VoiceOf(sid, c)) > 0
  BY <1>4, <1>5
<1>9. <<[burst |-> "TERM", sid |-> sid, call |-> c]>> \in Seq(Packet)
  BY <1>6 DEF p
<1>10. Heads(sid, c) # <<>> /\ VoiceOf(sid, c) # <<>> /\ Heads(sid, c) \o VoiceOf(sid, c) # <<>>
  <2>1. \A s \in Seq(Packet) : Len(s) > 0 => s # <<>>
    OBVIOUS
  <2>2. Heads(sid, c) # <<>>
    BY <1>4, <2>1
  <2>3. VoiceOf(sid, c) # <<>>
    BY DEF VoiceOf
  <2>4. Heads(sid, c) \o VoiceOf(sid, c) # <<>>
    BY <1>8, <2>1
  <2> QED
    BY <2>2, <2>3, <2>4
<1> QED
  BY <1>4, <1>5, <1>7, <1>8, <1>9, <1>10

LEMMA HbpFrame ==
  ASSUME NEW ts \in TS, NEW c \in HbpCalls, NEW frame \in HbpFrames,
         hbp_voice_received(ts, c, frame)
  PROVE  HbpHeard(ts)
BY DEF hbp_voice_received, HbpRefused, HbpHead, HbpDuplicateHead, HbpTerm, HbpForeignTerm,
       HbpVoice, HbpLateEntry, HbpVoiceWithoutHead, HbpUnblocked

LEMMA NextStreamByte == TypeOK => (in_stream_ctr + 1) % StreamMod \in 0..StreamMod-1
<1> SUFFICES ASSUME TypeOK PROVE (in_stream_ctr + 1) % StreamMod \in 0..StreamMod-1
  OBVIOUS
<1>1. in_stream_ctr + 1 \in Nat /\ StreamMod \in Nat \ {0}
  BY ConstantsType DEF TypeOK, InTypeOK
<1> QED
  BY <1>1, Wraps

LEMMA HbpInType ==
  ASSUME TypeOK, NEW ts \in TS, NEW c \in HbpCalls, NEW frame \in HbpFrames,
         hbp_voice_received(ts, c, frame)
  PROVE  InTypeOK'
<1>0. InTypeOK
  BY DEF TypeOK
<1>i. in_idle' \in [TS -> 0..CallTimeout+1]
  BY <1>0, HbpFrame, ConstantsType DEF HbpHeard, InTypeOK
<1>1. CASE UNCHANGED inVars
  BY <1>0, <1>i, <1>1 DEF inVars, InTypeOK
<1>2. CASE \E started \in BOOLEAN : BeginInCall(ts, c, started)
  <2>1. (in_stream_ctr + 1) % StreamMod \in 0..StreamMod-1
    BY NextStreamByte
  <2> QED
    BY <1>0, <1>i, <1>2, <2>1, ConstantsType DEF BeginInCall, InTypeOK
<1>3. CASE ResetInCall(ts)
  BY <1>0, <1>i, <1>3, ConstantsType DEF ResetInCall, InTypeOK
<1>4. CASE HbpDuplicateHead(ts, c)
  <2>1. head_age' \in [TS -> 0..DupWindow+1]
    BY <1>0, <1>4, ConstantsType DEF HbpDuplicateHead, InTypeOK
  <2> QED
    BY <1>0, <1>i, <1>4, <2>1 DEF HbpDuplicateHead, InTypeOK
<1>8. CASE HbpVoice(ts, c)
  <2>1. in_started' \in [TS -> BOOLEAN]
    BY <1>0, <1>8 DEF HbpVoice, InTypeOK
  <2> QED
    BY <1>0, <1>i, <1>8, <2>1 DEF HbpVoice, InTypeOK
<1>5. CASE \/ HbpHead(ts, c) \/ HbpLateEntry(ts, c)
  BY <1>2, <1>5, ConstantsType DEF HbpHead, HbpLateEntry
<1>6. CASE HbpTerm(ts, c)
  BY <1>3, <1>6 DEF HbpTerm
<1>7. CASE \/ HbpRefused(ts, c, frame) \/ HbpForeignTerm(ts, c) \/ HbpVoiceWithoutHead(ts, c)
  BY <1>1, <1>7 DEF HbpRefused, HbpForeignTerm, HbpVoiceWithoutHead
<1> QED
  BY <1>4, <1>5, <1>6, <1>7, <1>8 DEF hbp_voice_received

LEMMA HbpLockType ==
  ASSUME TypeOK, NEW ts \in TS, NEW c \in HbpCalls, NEW frame \in HbpFrames,
         hbp_voice_received(ts, c, frame)
  PROVE  LockTypeOK'
<1>0. LockTypeOK
  BY DEF TypeOK
<1>c. c.tg \in Tgs /\ c.stream \in Streams
  BY CallsType DEF Streams
<1>u. UntilAfter(ts) \in Expired..Hang /\ Hang \in Expired..Hang
  BY <1>c, LockStepType, ConstantsType DEF Expired
<1>1. CASE /\ TakeLock(ts, "HBP", c.tg)
           /\ UNCHANGED blocked
           /\ \E u \in Expired..Hang : lock_until' = [lock_until EXCEPT ![ts] = u]
  BY <1>0, <1>1, <1>c, LockStepType DEF LockTypeOK
<1>2. CASE HbpRefused(ts, c, frame)
  <2>1. blocked' \in [TS -> [Streams -> 0..BlockFor]]
    BY <1>2, <1>c, RefusedUntilType DEF HbpRefused
  <2> QED
    BY <1>0, <1>2, <2>1 DEF HbpRefused, lockVars, LockTypeOK
<1>3. CASE HbpTerm(ts, c)
  BY <1>1, <1>3, <1>u DEF HbpTerm, HbpUnblocked, AcquireAndReleaseCallLock
<1>4. CASE \/ HbpHead(ts, c) \/ HbpDuplicateHead(ts, c) \/ HbpForeignTerm(ts, c)
           \/ HbpVoice(ts, c) \/ HbpLateEntry(ts, c) \/ HbpVoiceWithoutHead(ts, c)
  BY <1>1, <1>4, <1>u DEF HbpHead, HbpDuplicateHead, HbpForeignTerm, HbpVoice, HbpLateEntry,
                          HbpVoiceWithoutHead, HbpUnblocked, AcquireCallLock
<1> QED
  BY <1>2, <1>3, <1>4 DEF hbp_voice_received

LEMMA HbpTxType ==
  ASSUME TypeOK, NEW ts \in TS, NEW c \in HbpCalls, NEW frame \in HbpFrames,
         hbp_voice_received(ts, c, frame)
  PROVE  /\ TxTypeOK'
         /\ reflect_recent' \in [TS -> [Srcs \X Tgs -> 0..ReflectWindow]]
         /\ toIpsc' \in [TS -> Seq(Packet)]
<1>b. UNCHANGED busy
  BY HbpFrame DEF HbpHeard
<1>s. in_stream_id[ts] \in 0..StreamMod-1 /\ (in_stream_ctr + 1) % StreamMod \in 0..StreamMod-1
  BY NextStreamByte DEF TypeOK, InTypeOK
<1>1. CASE TransmitNothing
  BY <1>b, <1>1, SilentType DEF TransmitNothing, txVars, TypeOK, TxTypeOK, ReflectTypeOK
<1>2. CASE \E pkts \in Seq(Packet) : pkts # <<>> /\ Transmit(ts, pkts, c)
  BY <1>b, <1>2, TransmitType
<1>3. CASE \/ HbpRefused(ts, c, frame) \/ HbpDuplicateHead(ts, c)
           \/ HbpForeignTerm(ts, c) \/ HbpVoiceWithoutHead(ts, c)
  BY <1>1, <1>3 DEF HbpRefused, HbpDuplicateHead, HbpForeignTerm, HbpVoiceWithoutHead
<1>4. CASE HbpHead(ts, c)
  BY <1>1, <1>2, <1>4, <1>s, PacketsType DEF HbpHead
<1>5. CASE HbpTerm(ts, c)
  <2>1. <<[burst |-> "TERM", sid |-> in_stream_id[ts], call |-> c]>> \in Seq(Packet)
    BY <1>s, PacketsType
  <2>2. <<[burst |-> "TERM", sid |-> in_stream_id[ts], call |-> c]>> # <<>>
    OBVIOUS
  <2> QED
    BY <1>1, <1>2, <1>5, <2>1, <2>2 DEF HbpTerm
<1>6. CASE HbpVoice(ts, c)
  BY <1>2, <1>6, <1>s, PacketsType DEF HbpVoice
<1>7. CASE HbpLateEntry(ts, c)
  BY <1>2, <1>7, <1>s, PacketsType DEF HbpLateEntry
<1> QED
  BY <1>3, <1>4, <1>5, <1>6, <1>7 DEF hbp_voice_received

LEMMA HbpStepType ==
  ASSUME TypeOK, NEW ts \in TS, NEW c \in HbpCalls, NEW frame \in HbpFrames,
         hbp_voice_received(ts, c, frame)
  PROVE  TypeOK'
<1>h. HbpHeard(ts)
  BY HbpFrame
<1>1. OutTypeOK' /\ LcWithStream'
  BY <1>h DEF HbpHeard, TypeOK, OutTypeOK, LcWithStream, outVars
<1>2. InTypeOK' /\ LockTypeOK' /\ TxTypeOK'
  BY HbpInType, HbpLockType, HbpTxType
<1>3. ReflectTypeOK'
  BY <1>h, HbpTxType DEF HbpHeard, TypeOK, ReflectTypeOK
<1>4. WireTypeOK'
  BY <1>h, HbpTxType, SilentType DEF HbpHeard, TypeOK, WireTypeOK, linkVars
<1> QED
  BY <1>1, <1>2, <1>3, <1>4 DEF TypeOK

(***************************************************************************)
(* The drain, time, the watchdog and the registrations.                    *)
(***************************************************************************)
LEMMA DrainType == ASSUME TypeOK, NEW ts \in TS, Drain(ts) PROVE TypeOK'
<1>1. OutTypeOK' /\ LcWithStream' /\ InTypeOK'
  BY DEF Drain, TypeOK, OutTypeOK, LcWithStream, InTypeOK, outVars, inVars
<1>2. LockTypeOK'
  BY ConstantsType DEF Drain, TypeOK, LockTypeOK, Expired
<1>q. /\ queue[ts] \in Seq(Packet) /\ queue[ts] # <<>>
      /\ Head(queue[ts]) \in Packet /\ Tail(queue[ts]) \in Seq(Packet)
      /\ Len(Tail(queue[ts])) <= QueueLimit
  BY ConstantsType DEF Drain, TypeOK, TxTypeOK
<1>3. TxTypeOK'
  <2>1. queue' \in [TS -> Seq(Packet)] /\ \A t \in TS : Len(queue'[t]) <= QueueLimit
    BY <1>q DEF Drain, TypeOK, TxTypeOK
  <2>2. handle' \in [TS -> NoHandle..Interval] /\ cooldown' \in [TS -> 0..Interval]
    BY ConstantsType DEF Drain, TypeOK, TxTypeOK, NoHandle
  <2> QED
    BY <2>1, <2>2 DEF Drain, TypeOK, TxTypeOK
<1>4. ReflectTypeOK'
  <2>1. Head(queue[ts]).call \in HbpCalls
    BY <1>q DEF Packet
  <2>2. UNCHANGED reflect_recent \/ reflect_recent' = Remembered(ts, Head(queue[ts]).call)
    BY DEF Drain
  <2>3. reflect_recent' \in [TS -> [Srcs \X Tgs -> 0..ReflectWindow]]
    <3>1. reflect_recent \in [TS -> [Srcs \X Tgs -> 0..ReflectWindow]]
      BY DEF TypeOK, ReflectTypeOK
    <3>2. Remembered(ts, Head(queue[ts]).call) \in [TS -> [Srcs \X Tgs -> 0..ReflectWindow]]
      BY <2>1, RememberedType
    <3> QED
      BY <2>2, <3>1, <3>2
  <2> QED
    BY <2>3 DEF Drain, TypeOK, ReflectTypeOK
<1>5. WireTypeOK'
  <2>1. toIpsc' \in [TS -> Seq(Packet)]
    <3>1. toIpsc' = Silent \/ toIpsc' = [Silent EXCEPT ![ts] = <<Head(queue[ts])>>]
      BY DEF Drain
    <3>2. <<Head(queue[ts])>> \in Seq(Packet)
      BY <1>q
    <3> QED
      BY <3>1, <3>2, SilentType
  <2> QED
    BY <2>1, SilentType DEF Drain, TypeOK, WireTypeOK, linkVars
<1> QED
  BY <1>1, <1>2, <1>3, <1>4, <1>5 DEF TypeOK

\* Timers only move between their bounds.
LEMMA TimersMove ==
  ASSUME NEW m \in Nat
  PROVE  /\ \A n \in 0..m : Down(n) \in 0..m /\ Up(n, m) \in 0..m
         /\ \A n \in NoHandle..m : Down(n) \in NoHandle..m
         /\ \A n \in Expired..m : (IF n >= 0 THEN n - 1 ELSE Expired) \in Expired..m
  BY DEF Down, Up, NoHandle, Expired

LEMMA TickType == ASSUME TypeOK, Tick PROVE TypeOK'
<1> USE ConstantsType
<1>1. OutTypeOK' /\ LcWithStream'
  <2>1. out_idle' \in [TS -> 0..CallTimeout+1]
    BY TimersMove DEF Tick, TypeOK, OutTypeOK
  <2> QED
    BY <2>1 DEF Tick, TypeOK, OutTypeOK, LcWithStream, outVars
<1>2. InTypeOK'
  <2>1. in_idle' \in [TS -> 0..CallTimeout+1] /\ head_age' \in [TS -> 0..DupWindow+1]
    BY TimersMove DEF Tick, TypeOK, InTypeOK
  <2> QED
    BY <2>1 DEF Tick, TypeOK, InTypeOK
<1>3. LockTypeOK'
  <2>1. lock_until' \in [TS -> Expired..Hang] /\ blocked' \in [TS -> [Streams -> 0..BlockFor]]
    BY TimersMove DEF Tick, TypeOK, LockTypeOK
  <2> QED
    BY <2>1 DEF Tick, TypeOK, LockTypeOK
<1>4. TxTypeOK'
  <2>1. /\ handle' \in [TS -> NoHandle..Interval] /\ cooldown' \in [TS -> 0..Interval]
        /\ busy' \in [TS -> 0..Holdoff]
    BY TimersMove DEF Tick, TypeOK, TxTypeOK
  <2> QED
    BY <2>1 DEF Tick, TypeOK, TxTypeOK
<1>5. ReflectTypeOK'
  BY TimersMove DEF Tick, TypeOK, ReflectTypeOK
<1>6. WireTypeOK'
  BY SilentType DEF Tick, TypeOK, WireTypeOK, linkVars
<1> QED
  BY <1>1, <1>2, <1>3, <1>4, <1>5, <1>6 DEF TypeOK

LEMMA WatchdogType == ASSUME TypeOK, Watchdog PROVE TypeOK'
<1> USE ConstantsType
<1>1. OutTypeOK' /\ LcWithStream'
  BY DEF Watchdog, TypeOK, OutTypeOK, LcWithStream
<1>2. InTypeOK'
  BY DEF Watchdog, TypeOK, InTypeOK
<1>3. LockTypeOK'
  BY DEF Watchdog, TypeOK, LockTypeOK, Expired
<1>4. TxTypeOK' /\ ReflectTypeOK'
  BY DEF Watchdog, TypeOK, TxTypeOK, ReflectTypeOK, txVars, reflectVars
<1>5. WireTypeOK'
  BY SilentType DEF Watchdog, TypeOK, WireTypeOK, linkVars
<1> QED
  BY <1>1, <1>2, <1>3, <1>4, <1>5 DEF TypeOK

\* Resetting the calls gives a well-typed state if what it leaves alone is.
LEMMA ForgetCallsType ==
  ASSUME TypeOK, ForgetCalls,
         out_frame_pos' \in [TS -> 0..SuperframeLen-1], out_seq' \in 0..SeqMod-1,
         busy' \in [TS -> 0..Holdoff]
  PROVE  /\ OutTypeOK' /\ LcWithStream' /\ InTypeOK' /\ TxTypeOK' /\ ReflectTypeOK'
         /\ toIpsc' \in [TS -> Seq(Packet)]
<1> USE ConstantsType
<1>1. OutTypeOK' /\ LcWithStream'
  BY DEF ForgetCalls, TypeOK, OutTypeOK, LcWithStream
<1>2. InTypeOK'
  BY DEF ForgetCalls, TypeOK, InTypeOK
<1>3. TxTypeOK'
  <2>1. queue' = Silent
    BY DEF ForgetCalls, ClearTxQueues, Silent
  <2>2. \A t \in TS : Len(queue'[t]) <= QueueLimit
    BY <2>1 DEF Silent
  <2> QED
    BY <2>1, <2>2, SilentType DEF ForgetCalls, ClearTxQueues, TypeOK, TxTypeOK, NoHandle
<1>4. ReflectTypeOK'
  BY DEF ForgetCalls, ReflectTypeOK
<1> QED
  BY <1>1, <1>2, <1>3, <1>4, SilentType DEF ForgetCalls

LEMMA NothingForwardedType ==
  ASSUME TypeOK, NothingForwarded
  PROVE  /\ out_frame_pos' \in [TS -> 0..SuperframeLen-1] /\ out_seq' \in 0..SeqMod-1
         /\ busy' \in [TS -> 0..Holdoff]
         /\ toHbp' \in [TS -> Seq(Dmrd)]
  BY SilentType DEF NothingForwarded, TypeOK, OutTypeOK, TxTypeOK

LEMMA LinksType ==
  ASSUME TypeOK,
         PeerRegistered \/ PeerLost \/ HbpConnected \/ HbpDisconnected \/ HbpDropped
  PROVE  TypeOK'
<1> USE ConstantsType
<1>1. CASE PeerLost
  <2>1. LockTypeOK'
    BY <1>1 DEF PeerLost, ClearCallLocks, LockTypeOK, Owners, Expired
  <2>2. ForgetCalls /\ NothingForwarded /\ hbp_up' \in BOOLEAN /\ ipsc_up' \in BOOLEAN
    BY <1>1 DEF PeerLost, TypeOK, WireTypeOK
  <2> QED
    BY <2>1, <2>2, NothingForwardedType, ForgetCallsType DEF TypeOK, WireTypeOK
<1>2. CASE HbpDisconnected
  <2>1. LockTypeOK'
    BY <1>2 DEF HbpDisconnected, TypeOK, LockTypeOK, lockVars
  <2>2. ForgetCalls /\ NothingForwarded /\ hbp_up' \in BOOLEAN /\ ipsc_up' \in BOOLEAN
    BY <1>2 DEF HbpDisconnected, TypeOK, WireTypeOK
  <2> QED
    BY <2>1, <2>2, NothingForwardedType, ForgetCallsType DEF TypeOK, WireTypeOK
<1>3. CASE PeerRegistered \/ HbpConnected \/ HbpDropped
  <2>1. PICK i \in BOOLEAN, h \in BOOLEAN : SetLinks(i, h)
    BY <1>3 DEF PeerRegistered, HbpConnected, HbpDropped, TypeOK, WireTypeOK
  <2>2. OutTypeOK' /\ LcWithStream' /\ InTypeOK'
    BY <2>1 DEF SetLinks, TypeOK, OutTypeOK, LcWithStream, InTypeOK, outVars, inVars
  <2>3. LockTypeOK' /\ TxTypeOK' /\ ReflectTypeOK'
    BY <2>1 DEF SetLinks, TypeOK, LockTypeOK, TxTypeOK, ReflectTypeOK, lockVars, txVars, reflectVars
  <2>4. WireTypeOK'
    BY <2>1, SilentType DEF SetLinks, WireTypeOK
  <2> QED
    BY <2>2, <2>3, <2>4 DEF TypeOK
<1> QED
  BY <1>1, <1>2, <1>3

\* A failing send_dmrd: the state is reset, and what the handler writes around
\* the reset is well typed.
LEMMA SendDmrdFailsType ==
  ASSUME TypeOK, NEW ts \in TS, NEW c \in IpscCalls, NEW b \in IpscBursts,
         SendDmrdFails(ts, c, b)
  PROVE  TypeOK'
<1>1. out_frame_pos' \in [TS -> 0..SuperframeLen-1]
  <2>1. PositionAfter(ts, b) \in 0..SuperframeLen-1
    <3>1. \A n \in Nat : n % SuperframeLen \in 0..SuperframeLen-1
      BY ConstantsType, Wraps
    <3>2. out_frame_pos[ts] \in 0..SuperframeLen-1 /\ SuperframeLen \in Nat \ {0}
      BY ConstantsType DEF TypeOK, OutTypeOK
    <3>3. LateEntryPosition \in Nat
      BY <3>1, <3>2 DEF LateEntryPosition
    <3> QED
      BY <3>1, <3>2, <3>3 DEF PositionAfter
  <2> QED
    BY <2>1 DEF SendDmrdFails, TypeOK, OutTypeOK
<1>2. out_seq' \in 0..SeqMod-1 /\ toHbp' \in [TS -> Seq(Dmrd)]
  <2> DEFINE heads == IF Legacy /\ b = "HEAD" THEN 2 ELSE 1
  <2>0. PICK k \in 1..heads :
          /\ out_seq' = (out_seq + k) % SeqMod
          /\ toHbp' = [Silent EXCEPT ![ts] = Frames(k - 1, "HEAD", c, c, c, 0)]
    BY Zenon DEF SendDmrdFails
  <2>1. k \in 1..2
    OBVIOUS
  <2>2. out_seq + k \in Nat /\ SeqMod \in Nat \ {0} /\ k - 1 \in Nat
    BY ConstantsType DEF TypeOK, OutTypeOK
  <2>3. 0 \in 0..SuperframeLen-1
    BY ConstantsType
  <2>4. Frames(k - 1, "HEAD", c, c, c, 0) \in Seq(Dmrd)
    BY <2>2, <2>3, FramesType DEF HbpFrames
  <2> QED
    BY <2>0, <2>2, <2>4, Wraps, SilentType
<1>3. busy' \in [TS -> 0..Holdoff]
  BY ConstantsType DEF SendDmrdFails, TypeOK, TxTypeOK
<1>4. LockTypeOK'
  <2>1. lock_owner' \in [TS -> Owners] /\ lock_tg' \in [TS -> Tgs \cup {None}]
    BY CallsType DEF SendDmrdFails, TakeLock, OwnerAfter, TypeOK, LockTypeOK, Owners
  <2>2. lock_until' \in [TS -> Expired..Hang]
    BY ConstantsType DEF SendDmrdFails, UntilRekeyed, UntilAfter, TypeOK, LockTypeOK, Expired
  <2> QED
    BY <2>1, <2>2 DEF SendDmrdFails, TypeOK, LockTypeOK
<1>5. ForgetCalls /\ hbp_up' \in BOOLEAN /\ ipsc_up' \in BOOLEAN
  BY DEF SendDmrdFails, TypeOK, WireTypeOK
<1> QED
  BY <1>1, <1>2, <1>3, <1>4, <1>5, ForgetCallsType DEF TypeOK, WireTypeOK

LEMMA NextTypeOK == TypeOK /\ [Next]_vars => TypeOK'
<1> SUFFICES ASSUME TypeOK, [Next]_vars PROVE TypeOK'
  OBVIOUS
<1>1. CASE \E ts \in TS, c \in IpscCalls, b \in IpscBursts : ipsc_voice_received(ts, c, b)
  BY <1>1, IpscStepType
<1>2. CASE \E ts \in TS, c \in HbpCalls, frame \in HbpFrames : hbp_voice_received(ts, c, frame)
  BY <1>2, HbpStepType
<1>3. CASE \E ts \in TS : Drain(ts)
  BY <1>3, DrainType
<1>4. CASE Tick
  BY <1>4, TickType
<1>5. CASE Watchdog
  BY <1>5, WatchdogType
<1>6. CASE PeerRegistered \/ PeerLost \/ HbpConnected \/ HbpDisconnected \/ HbpDropped
  BY <1>6, LinksType
<1>7. CASE \E ts \in TS, c \in IpscCalls, b \in IpscBursts : SendDmrdFails(ts, c, b)
  BY <1>7, SendDmrdFailsType
<1>8. CASE UNCHANGED vars
  BY <1>8 DEF TypeOK, OutTypeOK, LcWithStream, InTypeOK, LockTypeOK, TxTypeOK, ReflectTypeOK,
              WireTypeOK, vars, outVars, inVars, lockVars, txVars, reflectVars, linkVars
<1> QED
  BY <1>1, <1>2, <1>3, <1>4, <1>5, <1>6, <1>7, <1>8 DEF Next

\* Every reachable state of the translator is well typed, whatever the calls,
\* the configuration and the timers: the pacing queue respects its limit, the
\* timers their delays, and an open stream always has an LC word to embed.
THEOREM TypeCorrect == Spec => []TypeOK
<1>1. Init => TypeOK
  BY InitTypeOK
<1>2. TypeOK /\ [Next]_vars => TypeOK'
  BY NextTypeOK
<1> QED
  BY <1>1, <1>2, PTL DEF Spec

(***************************************************************************)
(* Half duplex.  HalfDuplex alone is not inductive: it does not say that   *)
(* the lock covers the call in progress, which is what keeps a packet of   *)
(* the other direction out.  HolderOwnsLock says it, and implies it.       *)
(***************************************************************************)
LEMMA HolderOwnsLockInit == Init => HolderOwnsLock
<1> SUFFICES ASSUME Init PROVE \A ts \in TS : ~IpscHolds(ts) /\ ~HbpHolds(ts)
  BY DEF HolderOwnsLock
<1> QED
  BY DEF Init, IpscHolds, HbpHolds

\* A packet the lock lets pass finds no call of the other direction, and its
\* own direction owns the lock afterwards, if any call does.
LEMMA AdmittedOwner ==
  ASSUME TypeOK, HolderOwnsLock, CallLock, ~SameTgOnly, NEW ts \in TS,
         NEW dir \in {"IPSC", "HBP"}, NEW tg, ~Collides(ts, dir, tg),
         TakeLock(ts, dir, tg)
  PROVE  /\ lock_owner' = [lock_owner EXCEPT ![ts] = dir]
         /\ dir = "IPSC" => ~HbpHolds(ts)
         /\ dir = "HBP" => ~IpscHolds(ts)
<1>h. /\ IpscHolds(ts) => lock_owner[ts] = "IPSC"
      /\ HbpHolds(ts) => lock_owner[ts] = "HBP"
  BY DEF HolderOwnsLock
<1>t. lock_owner \in [TS -> Owners]
  BY DEF TypeOK, LockTypeOK
<1>1. CASE LockActive(ts)
  <2>1. lock_owner[ts] = dir
    BY <1>1 DEF Collides
  <2>2. lock_owner' = [lock_owner EXCEPT ![ts] = lock_owner[ts]]
    BY <1>1 DEF TakeLock, OwnerAfter, Acquires
  <2>3. lock_owner' = [lock_owner EXCEPT ![ts] = dir]
    BY <2>1, <2>2
  <2> QED
    BY <1>h, <2>1, <2>3
<1>2. CASE ~LockActive(ts)
  <2>1. ~IpscHolds(ts) /\ ~HbpHolds(ts)
    BY <1>2, <1>h DEF LockActive
  <2>2. lock_owner' = [lock_owner EXCEPT ![ts] = dir]
    BY <1>2 DEF TakeLock, OwnerAfter, Acquires
  <2> QED
    BY <2>1, <2>2
<1> QED
  BY <1>1, <1>2

LEMMA HolderOwnsLockIpsc ==
  ASSUME TypeOK, HolderOwnsLock, NEW ts \in TS, NEW c \in IpscCalls, NEW b \in IpscBursts,
         ipsc_voice_received(ts, c, b)
  PROVE  HolderOwnsLock'
<1> SUFFICES ASSUME CallLock, ~SameTgOnly PROVE HolderOwnsLock'
  BY DEF HolderOwnsLock
<1>h. UNCHANGED <<in_call, in_started, queue>>
  BY IpscFrame DEF IpscHeard, inVars, txVars
<1>t. out_stream_id \in [TS -> IpscCalls \cup {None}]
  BY DEF TypeOK, OutTypeOK
<1>1. CASE IpscUnblocked(ts, c, b)
  <2>1. /\ lock_owner' = [lock_owner EXCEPT ![ts] = "IPSC"]
        /\ ~HbpHolds(ts)
    BY <1>1, AdmittedOwner DEF IpscUnblocked, LockBlocks
  <2>2. \A t \in TS \ {ts} : out_stream_id'[t] = out_stream_id[t]
    BY <1>t DEF ipsc_voice_received, IpscHead, IpscRepeatedHead, IpscTerm, IpscVoice, IpscIgnored,
                IpscReflected, IpscRefused, IpscWithoutMetadata, KeepOutCall, outVars
  <2> QED
    BY <1>h, <2>1, <2>2 DEF HolderOwnsLock, IpscHolds, HbpHolds, TypeOK, LockTypeOK
<1>2. CASE IpscRefused(ts, c, b) \/ IpscWithoutMetadata(ts, c, b)
  <2>1. \A t \in TS : out_stream_id'[t] \in {None, out_stream_id[t]}
    BY <1>2, <1>t DEF IpscRefused, IpscWithoutMetadata, KeepOutCall, OpenStream, outVars
  <2>2. UNCHANGED lock_owner
    BY <1>2 DEF IpscRefused, IpscWithoutMetadata, lockVars
  <2>3. \A t \in TS : IpscHolds(t)' => IpscHolds(t)
    BY <2>1 DEF IpscHolds
  <2>4. \A t \in TS : HbpHolds(t)' => HbpHolds(t)
    BY <1>h DEF HbpHolds
  <2> QED
    BY <2>2, <2>3, <2>4 DEF HolderOwnsLock
<1> QED
  BY <1>1, <1>2 DEF ipsc_voice_received, IpscHead, IpscRepeatedHead, IpscTerm, IpscVoice,
                    IpscIgnored, IpscReflected, IpscAccepted

LEMMA HolderOwnsLockHbp ==
  ASSUME TypeOK, HolderOwnsLock, NEW ts \in TS, NEW c \in HbpCalls, NEW frame \in HbpFrames,
         hbp_voice_received(ts, c, frame)
  PROVE  HolderOwnsLock'
<1> SUFFICES ASSUME CallLock, ~SameTgOnly PROVE HolderOwnsLock'
  BY DEF HolderOwnsLock
<1>h. UNCHANGED out_stream_id
  BY HbpFrame DEF HbpHeard, outVars
<1>1. CASE HbpRefused(ts, c, frame)
  BY <1>1, <1>h DEF HbpRefused, TransmitNothing, inVars, lockVars, txVars,
                    HolderOwnsLock, IpscHolds, HbpHolds
<1>2. CASE HbpUnblocked(ts, c) /\ TakeLock(ts, "HBP", c.tg)
  <2>1. /\ lock_owner' = [lock_owner EXCEPT ![ts] = "HBP"]
        /\ ~IpscHolds(ts)
    BY <1>2, AdmittedOwner DEF HbpUnblocked, LockBlocks
  <2>2. \A t \in TS \ {ts} : queue'[t] = queue[t]
    BY DEF hbp_voice_received, HbpRefused, HbpHead, HbpDuplicateHead, HbpTerm, HbpForeignTerm,
           HbpVoice, HbpLateEntry, HbpVoiceWithoutHead, Transmit, TransmitNothing, txVars,
           TypeOK, TxTypeOK
  <2>3. \A t \in TS \ {ts} : in_call'[t] = in_call[t] /\ in_started'[t] = in_started[t]
    BY DEF hbp_voice_received, HbpRefused, HbpHead, HbpDuplicateHead, HbpTerm, HbpForeignTerm,
           HbpVoice, HbpLateEntry, HbpVoiceWithoutHead, BeginInCall, ResetInCall, inVars,
           TypeOK, InTypeOK
  <2> QED
    BY <1>h, <2>1, <2>2, <2>3 DEF HolderOwnsLock, IpscHolds, HbpHolds, TypeOK, LockTypeOK
<1> QED
  BY <1>1, <1>2 DEF hbp_voice_received, HbpHead, HbpDuplicateHead, HbpTerm, HbpForeignTerm,
                    HbpVoice, HbpLateEntry, HbpVoiceWithoutHead, AcquireCallLock,
                    AcquireAndReleaseCallLock, HbpUnblocked

LEMMA HolderOwnsLockNext == TypeOK /\ HolderOwnsLock /\ [Next]_vars => HolderOwnsLock'
<1> SUFFICES ASSUME TypeOK, HolderOwnsLock, [Next]_vars PROVE HolderOwnsLock'
  OBVIOUS
<1>1. CASE \E ts \in TS, c \in IpscCalls, b \in IpscBursts : ipsc_voice_received(ts, c, b)
  BY <1>1, HolderOwnsLockIpsc
<1>2. CASE \E ts \in TS, c \in HbpCalls, frame \in HbpFrames : hbp_voice_received(ts, c, frame)
  BY <1>2, HolderOwnsLockHbp
<1>3. CASE \E ts \in TS : Drain(ts)
  <2>1. PICK ts \in TS : Drain(ts)
    BY <1>3
  <2>2. UNCHANGED <<out_stream_id, in_call, in_started, lock_owner>>
    BY <2>1 DEF Drain, outVars, inVars
  <2>3. \A t \in TS : queue'[t] # <<>> => queue[t] # <<>>
    BY <2>1 DEF Drain, TypeOK, TxTypeOK
  <2> QED
    BY <2>2, <2>3 DEF HolderOwnsLock, IpscHolds, HbpHolds
<1>4. CASE Tick
  BY <1>4 DEF Tick, outVars, HolderOwnsLock, IpscHolds, HbpHolds
<1>5. CASE Watchdog
  <2>1. \A t \in TS : /\ out_stream_id'[t] \in {None, out_stream_id[t]}
                      /\ in_call'[t] \in {None, in_call[t]}
                      /\ in_started'[t] => in_started[t]
    BY <1>5 DEF Watchdog
  <2>2. UNCHANGED <<queue, lock_owner>>
    BY <1>5 DEF Watchdog, txVars
  <2>3. \A t \in TS : IpscHolds(t)' => IpscHolds(t)
    BY <2>1 DEF IpscHolds
  <2>4. \A t \in TS : HbpHolds(t)' => HbpHolds(t)
    BY <2>1, <2>2 DEF HbpHolds
  <2> QED
    BY <2>2, <2>3, <2>4 DEF HolderOwnsLock
<1>6. CASE PeerLost \/ HbpDisconnected \/ \E ts \in TS, c \in IpscCalls, b \in IpscBursts : SendDmrdFails(ts, c, b)
  <2>1. ForgetCalls
    BY <1>6 DEF PeerLost, HbpDisconnected, SendDmrdFails
  <2> QED
    BY <2>1 DEF ForgetCalls, ClearTxQueues, HolderOwnsLock, IpscHolds, HbpHolds
<1>7. CASE PeerRegistered \/ HbpConnected \/ HbpDropped
  BY <1>7 DEF PeerRegistered, HbpConnected, HbpDropped, SetLinks, outVars, inVars, lockVars,
              txVars, HolderOwnsLock, IpscHolds, HbpHolds
<1>8. CASE UNCHANGED vars
  BY <1>8 DEF vars, outVars, inVars, lockVars, txVars, HolderOwnsLock, IpscHolds, HbpHolds
<1> QED
  BY <1>1, <1>2, <1>3, <1>4, <1>5, <1>6, <1>7, <1>8 DEF Next

LEMMA HalfDuplexFollows == HolderOwnsLock => HalfDuplex
<1> SUFFICES ASSUME HolderOwnsLock, CallLock, ~SameTgOnly, NEW ts \in TS,
                    IpscHolds(ts), HbpHolds(ts)
             PROVE  FALSE
  BY DEF HalfDuplex
<1>1. lock_owner[ts] = "IPSC"
  BY DEF HolderOwnsLock
<1>2. lock_owner[ts] = "HBP"
  BY DEF HolderOwnsLock
<1> QED
  BY <1>1, <1>2

\* When the call lock covers every talkgroup, no timeslot ever carries calls
\* of both directions, with any number of calls and streams on either side.
THEOREM SlotsAreHalfDuplex == Spec => []HalfDuplex
<1>1. Init => TypeOK /\ HolderOwnsLock
  BY InitTypeOK, HolderOwnsLockInit
<1>2. TypeOK /\ HolderOwnsLock /\ [Next]_vars => (TypeOK /\ HolderOwnsLock)'
  BY NextTypeOK, HolderOwnsLockNext
<1>3. TypeOK /\ HolderOwnsLock => HalfDuplex
  BY HalfDuplexFollows
<1> QED
  BY <1>1, <1>2, <1>3, PTL DEF Spec

(***************************************************************************)
(* The drain timer.                                                        *)
(***************************************************************************)
LEMMA DrainScheduledInit == Init => DrainScheduled
  BY DEF Init, DrainScheduled

\* Issuing packets keeps the timer with the queue.
LEMMA DrainScheduledTransmit ==
  ASSUME TypeOK, DrainScheduled, NEW ts \in TS, NEW pkts \in Seq(Packet), pkts # <<>>,
         NEW c \in HbpCalls, Transmit(ts, pkts, c)
  PROVE  DrainScheduled'
<1>1. CASE UNCHANGED txVars
  BY <1>1 DEF DrainScheduled, txVars
<1>2. CASE /\ queue' = [queue EXCEPT ![ts] = Enqueued(@, pkts)]
           /\ handle' = [handle EXCEPT ![ts] = ScheduledDrain(ts)]
           /\ UNCHANGED cooldown
  <2>1. Enqueued(queue[ts], pkts) # <<>>
    BY EnqueuedType DEF TypeOK, TxTypeOK
  <2>t. handle[ts] \in NoHandle..Interval /\ cooldown[ts] \in 0..Interval
    BY DEF TypeOK, TxTypeOK
  <2>d. handle[ts] # NoHandle => handle[ts] >= cooldown[ts]
    BY DEF DrainScheduled
  <2>2. ScheduledDrain(ts) >= cooldown[ts] /\ ScheduledDrain(ts) # NoHandle
    BY <2>t, <2>d, ConstantsType DEF ScheduledDrain, NoHandle
  <2>3. /\ \A t \in TS : queue'[t] = IF t = ts THEN Enqueued(queue[ts], pkts) ELSE queue[t]
        /\ \A t \in TS : handle'[t] = IF t = ts THEN ScheduledDrain(ts) ELSE handle[t]
    BY <1>2 DEF TypeOK, TxTypeOK
  <2> QED
    BY <1>2, <2>1, <2>2, <2>3 DEF DrainScheduled
<1> QED
  BY <1>1, <1>2 DEF Transmit

LEMMA HbpTransmits ==
  ASSUME TypeOK, NEW ts \in TS, NEW c \in HbpCalls, NEW frame \in HbpFrames,
         hbp_voice_received(ts, c, frame)
  PROVE  \/ UNCHANGED txVars
         \/ \E pkts \in Seq(Packet) : pkts # <<>> /\ Transmit(ts, pkts, c)
<1>s. in_stream_id[ts] \in 0..StreamMod-1 /\ (in_stream_ctr + 1) % StreamMod \in 0..StreamMod-1
  BY NextStreamByte DEF TypeOK, InTypeOK
<1>1. CASE \/ HbpRefused(ts, c, frame) \/ HbpDuplicateHead(ts, c)
           \/ HbpForeignTerm(ts, c) \/ HbpVoiceWithoutHead(ts, c)
  BY <1>1 DEF HbpRefused, HbpDuplicateHead, HbpForeignTerm, HbpVoiceWithoutHead, TransmitNothing
<1>2. CASE HbpHead(ts, c)
  BY <1>2, <1>s, PacketsType DEF HbpHead, TransmitNothing
<1>3. CASE HbpTerm(ts, c)
  <2>1. <<[burst |-> "TERM", sid |-> in_stream_id[ts], call |-> c]>> \in Seq(Packet)
    BY <1>s, PacketsType
  <2>2. <<[burst |-> "TERM", sid |-> in_stream_id[ts], call |-> c]>> # <<>>
    OBVIOUS
  <2> QED
    BY <1>3, <2>1, <2>2 DEF HbpTerm, TransmitNothing
<1>4. CASE HbpVoice(ts, c)
  BY <1>4, <1>s, PacketsType DEF HbpVoice
<1>5. CASE HbpLateEntry(ts, c)
  BY <1>5, <1>s, PacketsType DEF HbpLateEntry
<1> QED
  BY <1>1, <1>2, <1>3, <1>4, <1>5 DEF hbp_voice_received

LEMMA DrainScheduledNext == TypeOK /\ DrainScheduled /\ [Next]_vars => DrainScheduled'
<1> SUFFICES ASSUME TypeOK, DrainScheduled, [Next]_vars PROVE DrainScheduled'
  OBVIOUS
<1>0. CASE UNCHANGED txVars
  BY <1>0 DEF txVars, DrainScheduled
<1>1. CASE \E ts \in TS, c \in IpscCalls, b \in IpscBursts : ipsc_voice_received(ts, c, b)
  BY <1>0, <1>1, IpscFrame DEF IpscHeard
<1>2. CASE \E ts \in TS, c \in HbpCalls, frame \in HbpFrames : hbp_voice_received(ts, c, frame)
  BY <1>0, <1>2, HbpTransmits, DrainScheduledTransmit
<1>3. CASE \E ts \in TS : Drain(ts)
  <2>1. PICK ts \in TS : Drain(ts)
    BY <1>3
  <2>2. \A t \in TS : /\ queue'[t] = IF t = ts THEN Tail(queue[ts]) ELSE queue[t]
                      /\ cooldown'[t] = IF t = ts THEN Interval ELSE cooldown[t]
                      /\ handle'[t] = IF t # ts THEN handle[t]
                                      ELSE IF Tail(queue[ts]) = <<>> THEN NoHandle ELSE Interval
    BY <2>1 DEF Drain, TypeOK, TxTypeOK
  <2>3. \A t \in TS \ {ts} : /\ queue'[t] # <<>> <=> handle'[t] # NoHandle
                             /\ handle'[t] # NoHandle => handle'[t] >= cooldown'[t]
    BY <2>2 DEF DrainScheduled
  <2>4. Interval # NoHandle /\ Interval >= Interval
    BY ConstantsType DEF NoHandle
  <2>5. /\ queue'[ts] # <<>> <=> handle'[ts] # NoHandle
        /\ handle'[ts] # NoHandle => handle'[ts] >= cooldown'[ts]
    BY <2>2, <2>4
  <2> QED
    BY <2>3, <2>5 DEF DrainScheduled
<1>4. CASE Tick
  <2>1. \A t \in TS : handle'[t] = Down(handle[t]) /\ cooldown'[t] = Down(cooldown[t])
    BY <1>4 DEF Tick
  <2>2. \A t \in TS : handle[t] \in NoHandle..Interval /\ cooldown[t] \in 0..Interval
    BY DEF TypeOK, TxTypeOK
  <2>3. UNCHANGED queue
    BY <1>4 DEF Tick
  <2> QED
    BY <2>1, <2>2, <2>3, ConstantsType DEF DrainScheduled, Down, NoHandle
<1>5. CASE Watchdog
  BY <1>0, <1>5 DEF Watchdog
<1>6. CASE PeerLost \/ HbpDisconnected \/ \E ts \in TS, c \in IpscCalls, b \in IpscBursts : SendDmrdFails(ts, c, b)
  <2>1. ForgetCalls
    BY <1>6 DEF PeerLost, HbpDisconnected, SendDmrdFails
  <2> QED
    BY <2>1 DEF ForgetCalls, ClearTxQueues, DrainScheduled
<1>7. CASE PeerRegistered \/ HbpConnected \/ HbpDropped \/ UNCHANGED vars
  BY <1>0, <1>7 DEF PeerRegistered, HbpConnected, HbpDropped, SetLinks, vars
<1> QED
  BY <1>1, <1>2, <1>3, <1>4, <1>5, <1>6, <1>7 DEF Next

\* Packets wait exactly while their drain is scheduled, and it is scheduled
\* no earlier than the cooldown of the previous packet: for every queue limit
\* and frame interval nothing is stuck in the queue and nothing leaves early.
THEOREM QueueIsDrained == Spec => []DrainScheduled
<1>1. Init => TypeOK /\ DrainScheduled
  BY InitTypeOK, DrainScheduledInit
<1>2. TypeOK /\ DrainScheduled /\ [Next]_vars => (TypeOK /\ DrainScheduled)'
  BY NextTypeOK, DrainScheduledNext
<1> QED
  BY <1>1, <1>2, PTL DEF Spec

(***************************************************************************)
(* A peer that is gone leaves nothing behind.                              *)
(***************************************************************************)
LEMMA PeerGoneIsCleanInit == Init => PeerGoneIsClean
<1> SUFFICES ASSUME Init, NEW ts \in TS
             PROVE  /\ ~IpscHolds(ts) /\ ~HbpHolds(ts) /\ ~LockActive(ts)
                    /\ \A s \in Streams : blocked[ts][s] = 0
  BY DEF PeerGoneIsClean
<1>1. ~IpscHolds(ts) /\ ~HbpHolds(ts)
  BY DEF Init, IpscHolds, HbpHolds
<1>2. ~LockActive(ts)
  BY DEF Init, LockActive
<1> QED
  BY <1>1, <1>2 DEF Init

\* A slot without calls and without lock stays so until a packet is heard.
LEMMA StaysClean ==
  ASSUME NEW ts \in TS, ~IpscHolds(ts), ~HbpHolds(ts), ~LockActive(ts),
         out_stream_id'[ts] \in {None, out_stream_id[ts]},
         in_call'[ts] \in {None, in_call[ts]},
         in_started'[ts] => in_started[ts],
         queue'[ts] \in {<<>>, queue[ts]},
         lock_owner'[ts] = lock_owner[ts],
         lock_until'[ts] >= 0 => lock_until[ts] >= 0
  PROVE  ~IpscHolds(ts)' /\ ~HbpHolds(ts)' /\ ~LockActive(ts)'
<1>1. ~IpscHolds(ts)' /\ ~HbpHolds(ts)'
  BY DEF IpscHolds, HbpHolds
<1> QED
  BY <1>1 DEF LockActive

LEMMA PeerGoneIsCleanNext == TypeOK /\ PeerGoneIsClean /\ [Next]_vars => PeerGoneIsClean'
<1> SUFFICES ASSUME TypeOK, PeerGoneIsClean, [Next]_vars, ~ipsc_up', NEW ts \in TS
             PROVE  /\ ~IpscHolds(ts)' /\ ~HbpHolds(ts)' /\ ~LockActive(ts)'
                    /\ \A s \in Streams : blocked'[ts][s] = 0
  BY DEF PeerGoneIsClean
<1>c. ~ipsc_up => /\ \A t \in TS : ~IpscHolds(t) /\ ~HbpHolds(t) /\ ~LockActive(t)
                  /\ \A t \in TS : \A s \in Streams : blocked[t][s] = 0
  BY DEF PeerGoneIsClean
<1>1. CASE \E t \in TS, c \in IpscCalls, b \in IpscBursts : ipsc_voice_received(t, c, b)
  BY <1>1, IpscFrame DEF IpscHeard, linkVars
<1>2. CASE \E t \in TS, c \in HbpCalls, frame \in HbpFrames : hbp_voice_received(t, c, frame)
  BY <1>2, HbpFrame DEF HbpHeard, linkVars
<1>3. CASE \E t \in TS : Drain(t)
  <2>1. PICK t \in TS : Drain(t)
    BY <1>3
  <2>2. HbpHolds(t) /\ ~ipsc_up
    BY <2>1 DEF Drain, HbpHolds, linkVars
  <2> QED
    BY <2>2, <1>c
<1>4. CASE Tick
  <2>1. ~ipsc_up
    BY <1>4 DEF Tick, linkVars
  <2>2. UNCHANGED <<out_stream_id, in_call, in_started, queue, lock_owner>>
    BY <1>4 DEF Tick, outVars
  <2>3. lock_until'[ts] >= 0 => lock_until[ts] >= 0
    BY <1>4, ConstantsType DEF Tick, Expired, TypeOK, LockTypeOK
  <2>4. \A s \in Streams : blocked'[ts][s] = Down(blocked[ts][s])
    BY <1>4 DEF Tick
  <2>5. \A s \in Streams : blocked'[ts][s] = 0
    BY <2>1, <2>4, <1>c DEF Down
  <2> QED
    BY <2>1, <2>2, <2>3, <2>5, <1>c, StaysClean
<1>5. CASE Watchdog
  <2>1. PICK t \in TS : OutTimedOut(t) \/ InTimedOut(t)
    BY <1>5 DEF Watchdog
  <2>2. IpscHolds(t) \/ HbpHolds(t)
    BY <2>1 DEF OutTimedOut, InTimedOut, IpscHolds, HbpHolds
  <2>3. ~ipsc_up
    BY <1>5 DEF Watchdog, linkVars
  <2> QED
    BY <2>2, <2>3, <1>c
<1>6. CASE PeerLost
  <2>1. ~IpscHolds(ts)' /\ ~HbpHolds(ts)'
    BY <1>6 DEF PeerLost, ForgetCalls, ClearTxQueues, IpscHolds, HbpHolds
  <2>2. ~LockActive(ts)'
    BY <1>6 DEF PeerLost, ClearCallLocks, LockActive
  <2>3. \A s \in Streams : blocked'[ts][s] = 0
    BY <1>6 DEF PeerLost, ClearCallLocks
  <2> QED
    BY <2>1, <2>2, <2>3
<1>7. CASE HbpDisconnected
  <2>1. /\ ~ipsc_up
        /\ UNCHANGED <<lock_owner, lock_until, blocked>>
    BY <1>7 DEF HbpDisconnected, lockVars
  <2>2. /\ out_stream_id'[ts] = None
        /\ in_call'[ts] = None
        /\ in_started'[ts] = FALSE
        /\ queue'[ts] = <<>>
    BY <1>7 DEF HbpDisconnected, ForgetCalls, ClearTxQueues
  <2> QED
    BY <2>1, <2>2, <1>c, StaysClean
<1>8. CASE PeerRegistered \/ HbpConnected \/ HbpDropped \/ UNCHANGED vars
  <2>1. /\ UNCHANGED <<out_stream_id, in_call, in_started, queue, lock_owner, lock_until, blocked>>
        /\ ~ipsc_up
    BY <1>8 DEF PeerRegistered, HbpConnected, HbpDropped, SetLinks, vars, outVars, inVars,
                lockVars, txVars, linkVars
  <2> QED
    BY <2>1, <1>c, StaysClean
<1>9. CASE \E t \in TS, c \in IpscCalls, b \in IpscBursts : SendDmrdFails(t, c, b)
  BY <1>9 DEF SendDmrdFails
<1> QED
  BY <1>1, <1>2, <1>3, <1>4, <1>5, <1>6, <1>7, <1>8, <1>9 DEF Next

\* A lost peer takes its calls, its queued packets, its locks and its refused
\* streams with it, and nothing of the kind appears before a peer is back:
\* handlers, timers, the watchdog and HBP events in between included.
THEOREM LostPeerLeavesNothing == Spec => []PeerGoneIsClean
<1>1. Init => TypeOK /\ PeerGoneIsClean
  BY InitTypeOK, PeerGoneIsCleanInit
<1>2. TypeOK /\ PeerGoneIsClean /\ [Next]_vars => (TypeOK /\ PeerGoneIsClean)'
  BY NextTypeOK, PeerGoneIsCleanNext
<1> QED
  BY <1>1, <1>2, PTL DEF Spec

(***************************************************************************)
(* The call lock implements the arbiter of HalfDuplexSlots.  What a step   *)
(* does to a slot is one of two things: it lets a packet of one direction  *)
(* pass, or it lets go of what the slot holds.                             *)
(***************************************************************************)
SlotStep(ts) ==
  \/ \E dir \in {"IPSC", "HBP"} : Slots!Begin(ts, dir)
  \/ Slots!Carry(ts)
  \/ Slots!End(ts)
  \/ Slots!Pause(ts)

\* What a slot carries and is kept for, before and after a step.
LEMMA SlotView ==
  ASSUME HolderOwnsLock, CallLock, ~SameTgOnly, NEW ts \in TS
  PROVE  /\ Carried[ts] = "IPSC" <=> IpscHolds(ts)
         /\ Carried[ts] = "HBP" <=> HbpHolds(ts)
         /\ Carried[ts] \in {"free", "IPSC", "HBP"}
         /\ Carried[ts] # "free" => Reserved[ts] = Carried[ts] /\ lock_owner[ts] = Carried[ts]
         /\ Reserved[ts] \in {"free", lock_owner[ts]}
         /\ LockActive(ts) => Reserved[ts] = lock_owner[ts]
         /\ ~LockActive(ts) => Reserved[ts] = "free"
BY DEF HolderOwnsLock, Carried, Reserved, LockActive

LEMMA SlotViewAfter ==
  ASSUME HolderOwnsLock', CallLock, ~SameTgOnly, NEW ts \in TS
  PROVE  /\ Carried'[ts] = "IPSC" <=> IpscHolds(ts)'
         /\ Carried'[ts] = "HBP" <=> HbpHolds(ts)'
         /\ Carried'[ts] \in {"free", "IPSC", "HBP"}
         /\ Carried'[ts] # "free" => Reserved'[ts] = Carried'[ts] /\ lock_owner'[ts] = Carried'[ts]
         /\ Reserved'[ts] \in {"free", lock_owner'[ts]}
BY DEF HolderOwnsLock, Carried, Reserved, LockActive

LEMMA PacketPasses ==
  ASSUME HolderOwnsLock, HolderOwnsLock', CallLock, ~SameTgOnly, NEW ts \in TS,
         NEW dir \in {"IPSC", "HBP"}, NEW tg, ~Collides(ts, dir, tg), lock_owner'[ts] = dir,
         dir = "IPSC" => ~HbpHolds(ts),
         dir = "HBP" => ~IpscHolds(ts)
  PROVE  SlotStep(ts)
<1>1. Carried[ts] \in {"free", dir} /\ Carried'[ts] \in {"free", dir}
  BY SlotView, SlotViewAfter
<1>2. Reserved[ts] \in {"free", dir} /\ Reserved'[ts] \in {"free", dir}
  BY SlotView, SlotViewAfter DEF Collides
<1>3. Carried'[ts] = dir => Reserved'[ts] = dir
  BY SlotViewAfter
<1> QED
  BY <1>1, <1>2, <1>3 DEF SlotStep, Slots!Begin, Slots!Carry, Slots!End, Slots!Pause

LEMMA LetsGo ==
  ASSUME HolderOwnsLock, HolderOwnsLock', CallLock, ~SameTgOnly, NEW ts \in TS,
         lock_owner'[ts] \in {lock_owner[ts], "free"},
         IpscHolds(ts)' => IpscHolds(ts),
         HbpHolds(ts)' => HbpHolds(ts)
  PROVE  SlotStep(ts)
<1>1. Carried'[ts] \in {"free", Carried[ts]}
  BY SlotView, SlotViewAfter
<1>2. Carried'[ts] # "free" => Reserved'[ts] = Carried'[ts]
  BY SlotViewAfter
<1>3. Carried[ts] # "free" => Reserved'[ts] \in {"free", Carried[ts]}
  BY SlotView, SlotViewAfter
<1>4. Reserved[ts] # "free" => Reserved'[ts] \in {"free", Reserved[ts]}
  BY SlotView, SlotViewAfter
<1> QED
  BY <1>1, <1>2, <1>3, <1>4 DEF SlotStep, Slots!Carry, Slots!End, Slots!Pause

LEMMA ArbitratesIpsc ==
  ASSUME TypeOK, HolderOwnsLock, HolderOwnsLock', CallLock, ~SameTgOnly,
         NEW ts \in TS, NEW c \in IpscCalls, NEW b \in IpscBursts,
         ipsc_voice_received(ts, c, b)
  PROVE  \A t \in TS : SlotStep(t)
<1>h. \A t \in TS : HbpHolds(t)' <=> HbpHolds(t)
  BY IpscFrame DEF IpscHeard, inVars, txVars, HbpHolds
<1>t. out_stream_id \in [TS -> IpscCalls \cup {None}] /\ lock_owner \in [TS -> Owners]
  BY DEF TypeOK, OutTypeOK, LockTypeOK
<1>1. CASE IpscUnblocked(ts, c, b)
  <2>1. /\ lock_owner' = [lock_owner EXCEPT ![ts] = "IPSC"]
        /\ ~HbpHolds(ts)
        /\ ~Collides(ts, "IPSC", c.tg)
    BY <1>1, AdmittedOwner DEF IpscUnblocked, LockBlocks
  <2>2. \A t \in TS \ {ts} : out_stream_id'[t] = out_stream_id[t]
    BY <1>t DEF ipsc_voice_received, IpscHead, IpscRepeatedHead, IpscTerm, IpscVoice, IpscIgnored,
                IpscReflected, IpscRefused, IpscWithoutMetadata, KeepOutCall, outVars
  <2>3. SlotStep(ts)
    BY <1>t, <2>1, PacketPasses
  <2>4. \A t \in TS \ {ts} : SlotStep(t)
    BY <1>h, <1>t, <2>1, <2>2, LetsGo DEF IpscHolds
  <2> QED
    BY <2>3, <2>4
<1>2. CASE IpscRefused(ts, c, b) \/ IpscWithoutMetadata(ts, c, b)
  <2>1. \A t \in TS : out_stream_id'[t] \in {None, out_stream_id[t]}
    BY <1>2, <1>t DEF IpscRefused, IpscWithoutMetadata, KeepOutCall, OpenStream, outVars
  <2>2. UNCHANGED lock_owner
    BY <1>2 DEF IpscRefused, IpscWithoutMetadata, lockVars
  <2>3. \A t \in TS : IpscHolds(t)' => IpscHolds(t)
    BY <2>1 DEF IpscHolds
  <2> QED
    BY <1>h, <2>2, <2>3, LetsGo
<1> QED
  BY <1>1, <1>2 DEF ipsc_voice_received, IpscHead, IpscRepeatedHead, IpscTerm, IpscVoice,
                    IpscIgnored, IpscReflected, IpscAccepted

LEMMA ArbitratesHbp ==
  ASSUME TypeOK, HolderOwnsLock, HolderOwnsLock', CallLock, ~SameTgOnly,
         NEW ts \in TS, NEW c \in HbpCalls, NEW frame \in HbpFrames,
         hbp_voice_received(ts, c, frame)
  PROVE  \A t \in TS : SlotStep(t)
<1>h. \A t \in TS : IpscHolds(t)' <=> IpscHolds(t)
  BY HbpFrame DEF HbpHeard, outVars, IpscHolds
<1>t. lock_owner \in [TS -> Owners]
  BY DEF TypeOK, LockTypeOK
<1>1. CASE HbpRefused(ts, c, frame)
  <2>1. \A t \in TS : HbpHolds(t)' <=> HbpHolds(t)
    BY <1>1 DEF HbpRefused, TransmitNothing, inVars, txVars, HbpHolds
  <2>2. UNCHANGED lock_owner
    BY <1>1 DEF HbpRefused, lockVars
  <2> QED
    BY <1>h, <2>1, <2>2, LetsGo
<1>2. CASE HbpUnblocked(ts, c) /\ TakeLock(ts, "HBP", c.tg)
  <2>1. /\ lock_owner' = [lock_owner EXCEPT ![ts] = "HBP"]
        /\ ~IpscHolds(ts)
        /\ ~Collides(ts, "HBP", c.tg)
    BY <1>2, AdmittedOwner DEF HbpUnblocked, LockBlocks
  <2>2. \A t \in TS \ {ts} : queue'[t] = queue[t]
    BY DEF hbp_voice_received, HbpRefused, HbpHead, HbpDuplicateHead, HbpTerm, HbpForeignTerm,
           HbpVoice, HbpLateEntry, HbpVoiceWithoutHead, Transmit, TransmitNothing, txVars,
           TypeOK, TxTypeOK
  <2>3. \A t \in TS \ {ts} : in_call'[t] = in_call[t] /\ in_started'[t] = in_started[t]
    BY DEF hbp_voice_received, HbpRefused, HbpHead, HbpDuplicateHead, HbpTerm, HbpForeignTerm,
           HbpVoice, HbpLateEntry, HbpVoiceWithoutHead, BeginInCall, ResetInCall, inVars,
           TypeOK, InTypeOK
  <2>4. SlotStep(ts)
    BY <1>t, <2>1, PacketPasses
  <2>5. \A t \in TS \ {ts} : SlotStep(t)
    BY <1>h, <1>t, <2>1, <2>2, <2>3, LetsGo DEF HbpHolds
  <2> QED
    BY <2>4, <2>5
<1> QED
  BY <1>1, <1>2 DEF hbp_voice_received, HbpHead, HbpDuplicateHead, HbpTerm, HbpForeignTerm,
                    HbpVoice, HbpLateEntry, HbpVoiceWithoutHead, AcquireCallLock,
                    AcquireAndReleaseCallLock, HbpUnblocked

LEMMA StepArbitrates ==
  ASSUME CallLock, ~SameTgOnly
  PROVE  TypeOK /\ HolderOwnsLock /\ HolderOwnsLock' /\ [Next]_vars => Slots!Next
<1> SUFFICES ASSUME TypeOK, HolderOwnsLock, HolderOwnsLock', [Next]_vars
             PROVE  \A ts \in TS : SlotStep(ts)
  BY DEF Slots!Next, Slots!Directions, SlotStep
<1>1. CASE \E ts \in TS, c \in IpscCalls, b \in IpscBursts : ipsc_voice_received(ts, c, b)
  BY <1>1, ArbitratesIpsc
<1>2. CASE \E ts \in TS, c \in HbpCalls, frame \in HbpFrames : hbp_voice_received(ts, c, frame)
  BY <1>2, ArbitratesHbp
<1>3. ASSUME \A t \in TS : /\ lock_owner'[t] \in {lock_owner[t], "free"}
                           /\ IpscHolds(t)' => IpscHolds(t)
                           /\ HbpHolds(t)' => HbpHolds(t)
      PROVE  \A ts \in TS : SlotStep(ts)
  BY <1>3, LetsGo
<1>4. CASE \E ts \in TS : Drain(ts)
  <2>1. PICK ts \in TS : Drain(ts)
    BY <1>4
  <2>2. UNCHANGED <<out_stream_id, in_call, in_started, lock_owner>>
    BY <2>1 DEF Drain, outVars, inVars
  <2>3. \A t \in TS : queue'[t] # <<>> => queue[t] # <<>>
    BY <2>1 DEF Drain, TypeOK, TxTypeOK
  <2> QED
    BY <1>3, <2>2, <2>3 DEF IpscHolds, HbpHolds
<1>5. CASE Watchdog
  <2>1. \A t \in TS : /\ out_stream_id'[t] \in {None, out_stream_id[t]}
                      /\ in_call'[t] \in {None, in_call[t]}
                      /\ in_started'[t] => in_started[t]
    BY <1>5 DEF Watchdog
  <2>2. UNCHANGED <<queue, lock_owner>>
    BY <1>5 DEF Watchdog, txVars
  <2>3. \A t \in TS : IpscHolds(t)' => IpscHolds(t)
    BY <2>1 DEF IpscHolds
  <2>4. \A t \in TS : HbpHolds(t)' => HbpHolds(t)
    BY <2>1, <2>2 DEF HbpHolds
  <2> QED
    BY <1>3, <2>2, <2>3, <2>4
<1>f. ASSUME ForgetCalls PROVE \A t \in TS : ~IpscHolds(t)' /\ ~HbpHolds(t)'
  BY <1>f DEF ForgetCalls, ClearTxQueues, IpscHolds, HbpHolds
<1>6. CASE PeerLost
  <2>1. \A t \in TS : lock_owner'[t] = "free"
    BY <1>6 DEF PeerLost, ClearCallLocks
  <2> QED
    BY <1>3, <1>6, <1>f, <2>1 DEF PeerLost
<1>7. CASE HbpDisconnected
  <2>1. UNCHANGED lock_owner
    BY <1>7 DEF HbpDisconnected, lockVars
  <2> QED
    BY <1>3, <1>7, <1>f, <2>1 DEF HbpDisconnected
<1>8. CASE \E ts \in TS, c \in IpscCalls, b \in IpscBursts : SendDmrdFails(ts, c, b)
  <2>1. PICK ts \in TS, c \in IpscCalls, b \in IpscBursts : SendDmrdFails(ts, c, b)
    BY <1>8
  <2>2. /\ lock_owner' = [lock_owner EXCEPT ![ts] = "IPSC"]
        /\ ~HbpHolds(ts)
        /\ ~Collides(ts, "IPSC", c.tg)
    BY <2>1, AdmittedOwner DEF SendDmrdFails, LockBlocks
  <2>3. lock_owner \in [TS -> Owners]
    BY DEF TypeOK, LockTypeOK
  <2>4. SlotStep(ts)
    BY <2>2, <2>3, PacketPasses
  <2>5. \A t \in TS \ {ts} : SlotStep(t)
    BY <1>f, <2>1, <2>2, <2>3, LetsGo DEF SendDmrdFails
  <2> QED
    BY <2>4, <2>5
<1>9. CASE Tick \/ PeerRegistered \/ HbpConnected \/ HbpDropped \/ UNCHANGED vars
  <2>1. UNCHANGED <<out_stream_id, in_call, in_started, queue, lock_owner>>
    BY <1>9 DEF Tick, PeerRegistered, HbpConnected, HbpDropped, SetLinks, vars, outVars, inVars,
                lockVars, txVars
  <2> QED
    BY <1>3, <2>1 DEF IpscHolds, HbpHolds
<1> QED
  BY <1>1, <1>2, <1>4, <1>5, <1>6, <1>7, <1>8, <1>9 DEF Next

\* When the call lock covers every talkgroup, it implements the arbiter: whatever the
\* calls, the timeouts and the lost connections, a slot changes its direction only
\* through a pause in which it is neither in use nor kept for the old one.
THEOREM LockImplementsArbiter ==
  ASSUME CallLock, ~SameTgOnly
  PROVE  Spec => ArbitratesSlots
<1>1. Init => TypeOK /\ HolderOwnsLock
  BY InitTypeOK, HolderOwnsLockInit
<1>2. TypeOK /\ HolderOwnsLock /\ [Next]_vars => (TypeOK /\ HolderOwnsLock)'
  BY NextTypeOK, HolderOwnsLockNext
<1>3. Init => Slots!Init
  BY DEF Init, Slots!Init, Carried, Reserved, IpscHolds, HbpHolds, LockActive
<1>4. TypeOK /\ HolderOwnsLock /\ HolderOwnsLock' /\ [Next]_vars
        => [Slots!Next]_<<Carried, Reserved>>
  BY StepArbitrates
<1> QED
  BY <1>1, <1>2, <1>3, <1>4, PTL DEF Spec, ArbitratesSlots, Slots!Spec
=============================================================================
