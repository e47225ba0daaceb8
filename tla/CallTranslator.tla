--------------------------- MODULE CallTranslator ---------------------------
(***************************************************************************)
(* The call translator (src/translate/translator.py): the state machine    *)
(* between the IPSC side (a Motorola repeater, or a master the bridge is a *)
(* peer of) and the HBP side (an HBlink master).  Each callback of the     *)
(* asyncio loop runs to completion, so each is one action here.            *)
(*                                                                         *)
(* Time.  The code compares time() with stored instants.  Here an instant  *)
(* is a countdown to it or an age since it, and Tick moves them all.       *)
(* Handlers may run any number of times between two ticks, and any number  *)
(* of ticks may pass between two handlers: the loop may lag.               *)
(***************************************************************************)
EXTENDS Integers, Sequences

CONSTANTS
  TS,                \* timeslots: 1 and 2
  IpscStreams,       \* stream bytes of the calls heard on IPSC
  HbpStreams,        \* stream identifiers of the calls heard on HBP
  Srcs, Tgs,         \* radio IDs and talkgroups
  IpscCalls,         \* the calls radios may make on IPSC: [stream, src, tg]
  HbpCalls,          \* the calls the HBP master may send: [stream, src, tg]
  None,
  \* configuration switches
  CallLock,          \* ipsc_call_lock
  SameTgOnly,        \* ipsc_call_lock_same_tg_only
  Legacy,            \* compat_packet_flow = LEGACY_AMBE
  Pacing,            \* hbp_to_ipsc_pacing
  StartOnVoice,      \* hbp_start_on_voice
  ReflectSuppression,\* ipsc_reflect_suppression, in PEER mode
  Tracking,          \* hbp_mode = TRACKING
  \* configuration numbers; the durations are in ticks
  HeaderRepeats,     \* hbp_to_ipsc_header_repeats
  QueueLimit,        \* hbp_to_ipsc_queue_limit
  Interval,          \* hbp_to_ipsc_frame_interval_ms
  Holdoff,           \* ipsc_busy_holdoff_ms, 0 when ipsc_busy_slot_guard is off
  Hang,              \* ipsc_call_lock_hang_ms
  BlockFor,          \* max(0.5, hang + 1.0) seconds
  DupWindow,         \* 1.5 seconds
  CallTimeout,       \* timeout of check_call_timeouts, 10 seconds
  ReflectWindow,     \* ipsc_reflect_window
  \* widths of the wire counters: 256, 6 and 256 in the code
  SeqMod, SuperframeLen, StreamMod

Streams  == IpscStreams \cup HbpStreams
IpscCall == [stream : IpscStreams, src : Srcs, tg : Tgs]
HbpCall  == [stream : HbpStreams, src : Srcs, tg : Tgs]

ASSUME CallsAssumption ==
  /\ TS # {}
  /\ IpscStreams \cap HbpStreams = {}
  /\ IpscCalls \subseteq IpscCall
  /\ HbpCalls \subseteq HbpCall
  /\ None \notin IpscCall \cup HbpCall \cup IpscStreams

ASSUME SwitchesAssumption ==
  {CallLock, SameTgOnly, Legacy, Pacing, StartOnVoice, ReflectSuppression,
   Tracking} \subseteq BOOLEAN

ASSUME NumbersAssumption ==
  /\ HeaderRepeats \in 1..5
  /\ {QueueLimit, BlockFor, ReflectWindow, SeqMod, SuperframeLen, StreamMod}
       \subseteq Nat \ {0}
  /\ {Interval, Holdoff, Hang, DupWindow, CallTimeout} \subseteq Nat
  /\ BlockFor > Hang

-----------------------------------------------------------------------------
VARIABLES
  \* IPSC to HBP, per timeslot
  out_stream_id,        \* the call the open HBP stream was opened for, or None
  out_lc,               \* the call whose LC word is embedded, or None
  out_frame_pos,        \* superframe position of the next voice frame
  out_ipsc_stream_byte, \* IPSC stream byte currently accepted, or None
  out_idle,             \* ticks since the last IPSC packet
  out_seq,              \* DMRD sequence byte, shared by the timeslots
  \* HBP to IPSC, per timeslot
  in_call,              \* the HBP call mapped to IPSC (lc, stream, src, dst), or None
  in_started,           \* an IPSC VOICE_HEAD was issued for it
  in_stream_id,         \* IPSC stream byte of the call
  in_idle,              \* ticks since the last HBP packet
  head_age,             \* ticks since the last HBP VOICE_HEAD of the call
  in_stream_ctr,        \* allocates in_stream_id, shared by the timeslots
  \* call-direction lock, per timeslot
  lock_owner, lock_tg, lock_until,
  blocked,              \* ticks a refused stream stays refused
  \* paced transmitter towards IPSC, per timeslot
  queue,                \* packets waiting
  handle,               \* ticks to the scheduled drain, NoHandle if none
  cooldown,             \* ticks to _ipsc_tx_next_at
  busy,                 \* ticks the slot still counts as busy from IPSC
  \* echoes of our own calls, per timeslot
  reflect_recent, reflect_ignore,
  \* registrations, as is_connected() and is_peer_registered() report them
  hbp_up, ipsc_up,
  \* what the last step sent, per timeslot
  toIpsc, toHbp

outVars     == <<out_stream_id, out_lc, out_frame_pos, out_ipsc_stream_byte, out_seq>>
inVars      == <<in_call, in_started, in_stream_id, head_age, in_stream_ctr>>
lockVars    == <<lock_owner, lock_tg, lock_until>>
txVars      == <<queue, handle, cooldown>>
reflectVars == <<reflect_recent, reflect_ignore>>
linkVars    == <<hbp_up, ipsc_up>>
vars == <<outVars, out_idle, inVars, in_idle, lockVars, blocked, txVars, busy,
          reflectVars, linkVars, toIpsc, toHbp>>

NoHandle == -1
Expired  == -1      \* an instant of the past: the 0.0 of _call_lock_until
Owners   == {"free", "IPSC", "HBP"}
Silent   == [ts \in TS |-> <<>>]

TruncatedBursts == {"TRUNCATED", "TRUNCATED_E"}        \* shorter than 52 bytes
BurstsE         == {"BURST_E", "TRUNCATED_E"}          \* byte 32 is 0x16
VoiceBursts     == {"VOICE"} \cup BurstsE \cup TruncatedBursts
IpscBursts      == {"HEAD", "TERM"} \cup VoiceBursts
HbpFrames       == {"HEAD", "TERM", "VOICE"}

Packet == [burst : HbpFrames, sid : 0..StreamMod-1, call : HbpCalls]
Dmrd   == [frame : HbpFrames, call : IpscCalls, stream : IpscCalls,
           lc : IpscCalls, pos : 0..SuperframeLen-1, dtype : Nat, seq : 0..SeqMod-1]

OutTypeOK ==
  /\ out_stream_id \in [TS -> IpscCalls \cup {None}]
  /\ out_lc \in [TS -> IpscCalls \cup {None}]
  /\ out_frame_pos \in [TS -> 0..SuperframeLen-1]
  /\ out_ipsc_stream_byte \in [TS -> IpscStreams \cup {None}]
  /\ out_idle \in [TS -> 0..CallTimeout+1]
  /\ out_seq \in 0..SeqMod-1

\* The LC word is there exactly while a stream is open.
LcWithStream == \A ts \in TS : out_lc[ts] = None <=> out_stream_id[ts] = None

InTypeOK ==
  /\ in_call \in [TS -> HbpCalls \cup {None}]
  /\ in_started \in [TS -> BOOLEAN]
  /\ in_stream_id \in [TS -> 0..StreamMod-1]
  /\ in_idle \in [TS -> 0..CallTimeout+1]
  /\ head_age \in [TS -> 0..DupWindow+1]
  /\ in_stream_ctr \in 0..StreamMod-1

LockTypeOK ==
  /\ lock_owner \in [TS -> Owners]
  /\ lock_tg \in [TS -> Tgs \cup {None}]
  /\ lock_until \in [TS -> Expired..Hang]
  /\ blocked \in [TS -> [Streams -> 0..BlockFor]]

TxTypeOK ==
  /\ queue \in [TS -> Seq(Packet)]
  /\ \A ts \in TS : Len(queue[ts]) <= QueueLimit
  /\ handle \in [TS -> NoHandle..Interval]
  /\ cooldown \in [TS -> 0..Interval]
  /\ busy \in [TS -> 0..Holdoff]

ReflectTypeOK ==
  /\ reflect_recent \in [TS -> [Srcs \X Tgs -> 0..ReflectWindow]]
  /\ reflect_ignore \in [TS -> [IpscStreams -> 0..ReflectWindow]]

WireTypeOK ==
  /\ hbp_up \in BOOLEAN
  /\ ipsc_up \in BOOLEAN
  /\ toIpsc \in [TS -> Seq(Packet)]
  /\ toHbp \in [TS -> Seq(Dmrd)]

\* Every variable holds a value of its kind: in particular the queue never
\* exceeds its limit, no timer exceeds its configured delay, and the embedded
\* LC word exists whenever a stream is open.
TypeOK ==
  /\ OutTypeOK
  /\ LcWithStream
  /\ InTypeOK
  /\ LockTypeOK
  /\ TxTypeOK
  /\ ReflectTypeOK
  /\ WireTypeOK

Init ==
  /\ out_stream_id = [ts \in TS |-> None]
  /\ out_lc = [ts \in TS |-> None]
  /\ out_frame_pos = [ts \in TS |-> 0]
  /\ out_ipsc_stream_byte = [ts \in TS |-> None]
  /\ out_idle = [ts \in TS |-> CallTimeout + 1]
  /\ out_seq = 0
  /\ in_call = [ts \in TS |-> None]
  /\ in_started = [ts \in TS |-> FALSE]
  /\ in_stream_id = [ts \in TS |-> 0]
  /\ in_idle = [ts \in TS |-> CallTimeout + 1]
  /\ head_age = [ts \in TS |-> DupWindow + 1]
  /\ in_stream_ctr = 0
  /\ lock_owner = [ts \in TS |-> "free"]
  /\ lock_tg = [ts \in TS |-> None]
  /\ lock_until = [ts \in TS |-> Expired]
  /\ blocked = [ts \in TS |-> [s \in Streams |-> 0]]
  /\ queue = [ts \in TS |-> <<>>]
  /\ handle = [ts \in TS |-> NoHandle]
  /\ cooldown = [ts \in TS |-> 0]
  /\ busy = [ts \in TS |-> 0]
  /\ reflect_recent = [ts \in TS |-> [st \in Srcs \X Tgs |-> 0]]
  /\ reflect_ignore = [ts \in TS |-> [s \in IpscStreams |-> 0]]
  /\ hbp_up = FALSE
  /\ ipsc_up = FALSE
  /\ toIpsc = Silent
  /\ toHbp = Silent

-----------------------------------------------------------------------------
(***************************************************************************)
(* The call-direction lock.  The first packet on a free slot takes it for  *)
(* its direction; it stays active while a call of that direction has state *)
(* left and for Hang ticks after; a colliding stream is remembered.        *)
(***************************************************************************)
\* A direction has a call in progress on the slot, or packets of one left.
IpscHolds(ts) == out_stream_id[ts] # None
HbpHolds(ts)  == in_call[ts] # None \/ in_started[ts] \/ queue[ts] # <<>>

LockActiveForgetsQueue(ts) ==   \* mutant: packets waiting do not count
  \/ lock_owner[ts] = "IPSC" /\ IpscHolds(ts)
  \/ lock_owner[ts] = "HBP" /\ (in_call[ts] # None \/ in_started[ts])
  \/ lock_owner[ts] # "free" /\ lock_until[ts] >= 0

LockActiveCutsHang(ts) ==       \* mutant: now < until
  \/ lock_owner[ts] = "IPSC" /\ IpscHolds(ts)
  \/ lock_owner[ts] = "HBP" /\ HbpHolds(ts)
  \/ lock_owner[ts] # "free" /\ lock_until[ts] > 0

LockActive(ts) ==
  \/ lock_owner[ts] = "IPSC" /\ IpscHolds(ts)
  \/ lock_owner[ts] = "HBP" /\ HbpHolds(ts)
  \/ lock_owner[ts] # "free" /\ lock_until[ts] >= 0

AlreadyRefused(ts, stream) == CallLock /\ blocked[ts][stream] > 0

CollidesInCall(ts, dir, tg) ==   \* mutant: the hang after a call is not respected
  /\ CallLock
  /\ IpscHolds(ts) \/ HbpHolds(ts)
  /\ lock_owner[ts] # dir
  /\ SameTgOnly => lock_tg[ts] = tg

Collides(ts, dir, tg) ==
  /\ CallLock
  /\ LockActive(ts)
  /\ lock_owner[ts] # dir
  /\ SameTgOnly => lock_tg[ts] = tg

LockBlocks(ts, dir, c) == AlreadyRefused(ts, c.stream) \/ Collides(ts, dir, c.tg)

RefusedOnce(ts, stream, is_end) ==   \* mutant: not prolonged
  IF AlreadyRefused(ts, stream) THEN IF is_end THEN 0 ELSE blocked[ts][stream]
  ELSE BlockFor

\* A refused stream stays refused for BlockFor ticks from its last packet,
\* or until its terminator; a terminator that collides first is remembered.
RefusedUntil(ts, stream, is_end) ==
  IF is_end /\ AlreadyRefused(ts, stream) THEN 0 ELSE BlockFor

\* Effect of a packet the lock lets pass.
Acquires(ts) == CallLock /\ ~LockActive(ts)
OwnerAfter(ts, dir) == IF Acquires(ts) THEN dir ELSE lock_owner[ts]
UntilAfter(ts) == IF Acquires(ts) THEN Expired ELSE lock_until[ts]
TakeLock(ts, dir, tg) ==
  /\ lock_owner' = [lock_owner EXCEPT ![ts] = OwnerAfter(ts, dir)]
  /\ lock_tg' = [lock_tg EXCEPT ![ts] = IF Acquires(ts) THEN tg ELSE @]

AcquireCallLock(ts, dir, tg) ==
  /\ TakeLock(ts, dir, tg)
  /\ lock_until' = [lock_until EXCEPT ![ts] = UntilAfter(ts)]

AcquireAndReleaseCallLock(ts, dir, tg) ==
  /\ TakeLock(ts, dir, tg)
  /\ lock_until' = [lock_until EXCEPT ![ts] =
                      IF OwnerAfter(ts, dir) = dir THEN Hang ELSE UntilAfter(ts)]

-----------------------------------------------------------------------------
(***************************************************************************)
(* IPSC to HBP.  ipsc_voice_received(data, ts, burst_type): the packet is  *)
(* a burst b of call c.  The handler's early returns split it in actions.  *)
(***************************************************************************)
IpscHeard(ts) ==
  /\ ipsc_up
  /\ hbp_up
  /\ out_idle' = [out_idle EXCEPT ![ts] = 0]
  /\ UNCHANGED <<inVars, in_idle, txVars, linkVars, reflect_recent>>
  /\ toIpsc' = Silent

\* LEGACY_AMBE: a packet that neither belongs to a call nor begins one.
WithoutMetadata(ts, b) ==
  /\ Legacy
  /\ b # "HEAD"
  /\ out_ipsc_stream_byte[ts] = None
  /\ out_stream_id[ts] = None

\* LEGACY_AMBE: a VOICE_HEAD whose stream byte changed drops the open call
\* before the lock and the reflection filter look at the packet.
ChangesStream(ts, c, b) ==
  /\ Legacy
  /\ b = "HEAD"
  /\ out_stream_id[ts] # None
  /\ out_ipsc_stream_byte[ts] \notin {None, c.stream}

OpenStream(ts, c, b) ==
  IF ChangesStream(ts, c, b) THEN None ELSE out_stream_id[ts]

AcceptedByte(ts, c, b) ==
  IF Legacy /\ b = "HEAD" THEN c.stream ELSE out_ipsc_stream_byte[ts]

UntilRekeyed(ts, c, b) ==
  IF ChangesStream(ts, c, b) /\ lock_owner[ts] = "IPSC" THEN Hang ELSE UntilAfter(ts)

\* The call state left when such a packet goes no further.
KeepOutCall(ts, c, b) ==
  /\ out_stream_id' = [out_stream_id EXCEPT ![ts] = OpenStream(ts, c, b)]
  /\ out_lc' = [out_lc EXCEPT ![ts] = IF ChangesStream(ts, c, b) THEN None ELSE @]
  /\ out_ipsc_stream_byte' = [out_ipsc_stream_byte EXCEPT ![ts] = AcceptedByte(ts, c, b)]
  /\ UNCHANGED <<out_frame_pos, out_seq>>
  /\ toHbp' = Silent

IpscWithoutMetadata(ts, c, b) ==
  /\ IpscHeard(ts)
  /\ WithoutMetadata(ts, b)
  /\ UNCHANGED <<outVars, lockVars, blocked, busy, reflect_ignore>>
  /\ toHbp' = Silent

IpscRefused(ts, c, b) ==
  /\ IpscHeard(ts)
  /\ ~WithoutMetadata(ts, b)
  /\ LockBlocks(ts, "IPSC", c)
  /\ blocked' = [blocked EXCEPT ![ts][c.stream] = RefusedUntil(ts, c.stream, b = "TERM")]
  /\ KeepOutCall(ts, c, b)
  /\ lock_until' = [lock_until EXCEPT ![ts] =
                      IF ChangesStream(ts, c, b) /\ lock_owner[ts] = "IPSC"
                      THEN Hang ELSE @]
  /\ UNCHANGED <<lock_owner, lock_tg, busy, reflect_ignore>>

IsReflectedHead(ts, c, b) ==   \* mutant: the stream is not remembered
  /\ ReflectSuppression
  /\ b = "HEAD"
  /\ in_started[ts]
  /\ reflect_recent[ts][<<c.src, c.tg>>] > 0

\* _should_suppress_ipsc_reflection: a stream already ignored, or the head of
\* one that repeats source and group of the HBP call being transmitted.
IsReflection(ts, c, b) ==
  /\ ReflectSuppression
  /\ \/ reflect_ignore[ts][c.stream] > 0
     \/ /\ b = "HEAD"
        /\ in_started[ts]
        /\ reflect_recent[ts][<<c.src, c.tg>>] > 0

IpscUnblocked(ts, c, b) ==
  /\ IpscHeard(ts)
  /\ ~WithoutMetadata(ts, b)
  /\ ~LockBlocks(ts, "IPSC", c)
  /\ TakeLock(ts, "IPSC", c.tg)
  /\ UNCHANGED blocked

IpscReflected(ts, c, b) ==
  /\ IpscUnblocked(ts, c, b)
  /\ IsReflection(ts, c, b)
  /\ reflect_ignore' = [reflect_ignore EXCEPT ![ts][c.stream] =
                          IF b = "TERM" THEN 0 ELSE ReflectWindow]
  /\ KeepOutCall(ts, c, b)
  /\ lock_until' = [lock_until EXCEPT ![ts] = UntilRekeyed(ts, c, b)]
  /\ UNCHANGED busy

\* The packet marks the slot busy and reaches the burst's own code.
IpscAccepted(ts, c, b) ==
  /\ IpscUnblocked(ts, c, b)
  /\ ~IsReflection(ts, c, b)
  /\ busy' = [busy EXCEPT ![ts] = Holdoff]
  /\ UNCHANGED reflect_ignore

\* Low bits of the flags byte: VHEAD, VTERM, or the superframe position.
Dtype(frame, pos) == CASE frame = "HEAD" -> 1 [] frame = "TERM" -> 2 [] OTHER -> pos

\* The DMRD frames a burst is sent as: n of them, numbered from out_seq on.
Frames(n, frame, c, stream, lc, pos) ==
  [i \in 1..n |-> [frame |-> frame, call |-> c, stream |-> stream, lc |-> lc,
                   pos |-> pos, dtype |-> Dtype(frame, pos),
                   seq |-> (out_seq + i - 1) % SeqMod]]

SendDmrd(ts, n, frame, c, stream, lc, pos) ==
  /\ toHbp' = [Silent EXCEPT ![ts] = Frames(n, frame, c, stream, lc, pos)]
  /\ out_seq' = (out_seq + n) % SeqMod

\* VOICE_HEAD: opens a stream, or restarts the superframe of the open one.
IpscHead(ts, c) ==
  LET stream == IF OpenStream(ts, c, "HEAD") = None THEN c ELSE out_stream_id[ts]
  IN /\ IpscAccepted(ts, c, "HEAD")
     /\ Legacy => OpenStream(ts, c, "HEAD") = None
     /\ out_stream_id' = [out_stream_id EXCEPT ![ts] = stream]
     /\ out_lc' = [out_lc EXCEPT ![ts] = c]
     /\ out_frame_pos' = [out_frame_pos EXCEPT ![ts] = 0]
     /\ out_ipsc_stream_byte' = [out_ipsc_stream_byte EXCEPT ![ts] = AcceptedByte(ts, c, "HEAD")]
     /\ lock_until' = [lock_until EXCEPT ![ts] = UntilRekeyed(ts, c, "HEAD")]
     /\ SendDmrd(ts, IF Legacy THEN 2 ELSE 1, "HEAD", c, stream, c, 0)

\* LEGACY_AMBE: later heads of the open stream are not sent again.
IpscRepeatedHead(ts, c) ==
  /\ IpscAccepted(ts, c, "HEAD")
  /\ Legacy
  /\ OpenStream(ts, c, "HEAD") # None
  /\ KeepOutCall(ts, c, "HEAD")
  /\ lock_until' = [lock_until EXCEPT ![ts] = UntilAfter(ts)]

IpscTerm(ts, c) ==
  /\ IpscAccepted(ts, c, "TERM")
  /\ out_stream_id[ts] # None
  /\ SendDmrd(ts, 1, "TERM", c, out_stream_id[ts], out_lc[ts], 0)
  /\ out_stream_id' = [out_stream_id EXCEPT ![ts] = None]
  /\ out_lc' = [out_lc EXCEPT ![ts] = None]
  /\ out_ipsc_stream_byte' = [out_ipsc_stream_byte EXCEPT ![ts] = None]
  /\ lock_until' = [lock_until EXCEPT ![ts] =
                      IF OwnerAfter(ts, "IPSC") = "IPSC" THEN Hang ELSE UntilAfter(ts)]
  /\ UNCHANGED out_frame_pos

LateEntryAlways(ts, b) == out_stream_id[ts] = None /\ b \in BurstsE   \* mutant: in LEGACY_AMBE too
NoPosition == 0   \* mutant: a late entry starts a superframe

\* Late entry: a burst E names source and group, so it may open a stream, at
\* superframe position 4.
LateEntryPosition == 4 % SuperframeLen
LateEntry(ts, b) == out_stream_id[ts] = None /\ ~Legacy /\ b \in BurstsE

\* SLOT_VOICE of an open stream, or a late entry; it is forwarded unless it
\* is too short to hold the three AMBE frames.
IpscVoice(ts, c, b) ==
  LET late   == LateEntry(ts, b)
      stream == IF late THEN c ELSE out_stream_id[ts]
      lc     == IF late THEN c ELSE out_lc[ts]
      pos    == IF late THEN LateEntryPosition ELSE out_frame_pos[ts]
  IN /\ IpscAccepted(ts, c, b)
     /\ b \in VoiceBursts
     /\ out_stream_id[ts] # None \/ late
     /\ out_stream_id' = [out_stream_id EXCEPT ![ts] = stream]
     /\ out_lc' = [out_lc EXCEPT ![ts] = lc]
     /\ IF b \in TruncatedBursts
        THEN /\ out_frame_pos' = [out_frame_pos EXCEPT ![ts] = pos]
             /\ UNCHANGED out_seq
             /\ toHbp' = Silent
        ELSE /\ out_frame_pos' = [out_frame_pos EXCEPT ![ts] = (pos + 1) % SuperframeLen]
             /\ SendDmrd(ts, 1, "VOICE", c, stream, lc, pos)
     /\ lock_until' = [lock_until EXCEPT ![ts] = UntilAfter(ts)]
     /\ UNCHANGED out_ipsc_stream_byte

\* A terminator or voice burst that finds no open stream and opens none.
IpscIgnored(ts, c, b) ==
  /\ IpscAccepted(ts, c, b)
  /\ b # "HEAD"
  /\ out_stream_id[ts] = None
  /\ ~LateEntry(ts, b)
  /\ lock_until' = [lock_until EXCEPT ![ts] = UntilAfter(ts)]
  /\ UNCHANGED outVars
  /\ toHbp' = Silent

ipsc_voice_received(ts, c, b) ==
  \/ b = "HEAD" /\ (IpscHead(ts, c) \/ IpscRepeatedHead(ts, c))
  \/ b = "TERM" /\ IpscTerm(ts, c)
  \/ IpscVoice(ts, c, b)
  \/ IpscIgnored(ts, c, b)
  \/ IpscReflected(ts, c, b)
  \/ IpscRefused(ts, c, b)
  \/ IpscWithoutMetadata(ts, c, b)

-----------------------------------------------------------------------------
(***************************************************************************)
(* The transmitter towards IPSC: a queue drained at a fixed cadence, or    *)
(* nothing at all when pacing is off.  A busy slot swallows the packet.    *)
(***************************************************************************)
BarelyBusy(ts) == busy[ts] <= 1   \* mutant: the holdoff ends early
NotBusy(ts) == busy[ts] = 0     \* always so when Holdoff is 0

DrainAtOnce(ts) ==   \* mutant: the queue alone paces, as before the pacer fix
  IF handle[ts] = NoHandle THEN 0 ELSE handle[ts]

\* _schedule_hbp_to_ipsc_drain, for a queue that is not empty
ScheduledDrain(ts) == IF handle[ts] = NoHandle THEN cooldown[ts] ELSE handle[ts]

EnqueuedWithoutLimit(q, pkts) == q \o pkts   \* mutant

Enqueued(q, pkts) ==
  SubSeq(q \o pkts, 1, IF Len(q \o pkts) <= QueueLimit THEN Len(q \o pkts) ELSE QueueLimit)

RememberedShortly(ts, call) ==   \* mutant: the window closes a tick early
  [reflect_recent EXCEPT ![ts][<<call.src, call.tg>>] =
     IF ReflectSuppression THEN ReflectWindow - 1 ELSE @]

Remembered(ts, call) == [reflect_recent EXCEPT ![ts][<<call.src, call.tg>>] =
                           IF ReflectSuppression THEN ReflectWindow ELSE @]

\* _send_hbp_to_ipsc of each packet of the non-empty sequence pkts of a call
Transmit(ts, pkts, call) ==
  \/ /\ Pacing
     /\ queue' = [queue EXCEPT ![ts] = Enqueued(@, pkts)]
     /\ handle' = [handle EXCEPT ![ts] = ScheduledDrain(ts)]
     /\ toIpsc' = Silent
     /\ UNCHANGED <<cooldown, reflect_recent>>
  \/ /\ ~Pacing
     /\ NotBusy(ts)
     /\ toIpsc' = [Silent EXCEPT ![ts] = pkts]
     /\ reflect_recent' = Remembered(ts, call)
     /\ UNCHANGED txVars
  \/ /\ ~Pacing
     /\ ~NotBusy(ts)
     /\ toIpsc' = Silent
     /\ UNCHANGED <<txVars, reflect_recent>>

TransmitNothing ==
  /\ toIpsc' = Silent
  /\ UNCHANGED <<txVars, reflect_recent>>

\* _drain_hbp_to_ipsc_queue, when its timer is due.  The cooldown counts from
\* the packet's departure whether or not the slot was busy.  The code also
\* handles a drain that finds no packet: DrainScheduled shows it never runs.
Drain(ts) ==
  LET packet == Head(queue[ts])
      rest   == Tail(queue[ts])
  IN /\ handle[ts] = 0
     /\ queue[ts] # <<>>
     /\ queue' = [queue EXCEPT ![ts] = rest]
     /\ cooldown' = [cooldown EXCEPT ![ts] = Interval]
     /\ handle' = [handle EXCEPT ![ts] = IF rest = <<>> THEN NoHandle ELSE Interval]
     /\ IF NotBusy(ts)
        THEN /\ toIpsc' = [Silent EXCEPT ![ts] = <<packet>>]
             /\ reflect_recent' = Remembered(ts, packet.call)
        ELSE /\ toIpsc' = Silent
             /\ UNCHANGED reflect_recent
     /\ lock_until' = [lock_until EXCEPT ![ts] =
                         IF rest = <<>> /\ lock_owner[ts] = "HBP" /\ in_call[ts] = None
                         THEN Hang ELSE @]
     /\ toHbp' = Silent
     /\ UNCHANGED <<outVars, out_idle, inVars, in_idle, lock_owner, lock_tg, blocked,
                    busy, reflect_ignore, linkVars>>

-----------------------------------------------------------------------------
(***************************************************************************)
(* HBP to IPSC.  hbp_voice_received(dmrd): a frame of call c.              *)
(***************************************************************************)
HbpHeard(ts) ==
  /\ hbp_up
  /\ ipsc_up
  /\ in_idle' = [in_idle EXCEPT ![ts] = 0]
  /\ UNCHANGED <<outVars, out_idle, busy, linkVars, reflect_ignore>>
  /\ toHbp' = Silent

HbpRefused(ts, c, frame) ==
  /\ HbpHeard(ts)
  /\ LockBlocks(ts, "HBP", c)
  /\ blocked' = [blocked EXCEPT ![ts][c.stream] = RefusedUntil(ts, c.stream, frame = "TERM")]
  /\ TransmitNothing
  /\ UNCHANGED <<inVars, lockVars>>

HbpUnblocked(ts, c) ==
  /\ HbpHeard(ts)
  /\ ~LockBlocks(ts, "HBP", c)
  /\ UNCHANGED blocked

\* LEGACY_AMBE: only the terminator of a foreign stream is ignored.
ForeignTerm(ts, c) ==
  /\ Legacy
  /\ in_call[ts] # None
  /\ in_call[ts].stream # c.stream

DuplicateHead(ts, c) ==
  /\ in_call[ts] # None
  /\ \/ in_call[ts].stream = c.stream
     \/ /\ in_call[ts].src = c.src
        /\ in_call[ts].tg = c.tg
        /\ head_age[ts] <= DupWindow

HbpDuplicateHead(ts, c) ==
  /\ HbpUnblocked(ts, c)
  /\ DuplicateHead(ts, c)
  /\ head_age' = [head_age EXCEPT ![ts] = 0]
  /\ AcquireCallLock(ts, "HBP", c.tg)
  /\ TransmitNothing
  /\ UNCHANGED <<in_call, in_started, in_stream_id, in_stream_ctr>>

\* What _emit_hbp_ipsc_start sends: the repeated heads of the call.
Heads(sid, c) == [i \in 1..HeaderRepeats |-> [burst |-> "HEAD", sid |-> sid, call |-> c]]
VoiceOf(sid, c) == <<[burst |-> "VOICE", sid |-> sid, call |-> c]>>

BeginInCallSameByte(ts, c, started) ==   \* mutant: the call keeps the old stream byte
  /\ in_call' = [in_call EXCEPT ![ts] = c]
  /\ in_started' = [in_started EXCEPT ![ts] = started]
  /\ in_stream_ctr' = (in_stream_ctr + 1) % StreamMod
  /\ head_age' = [head_age EXCEPT ![ts] = 0]
  /\ UNCHANGED in_stream_id

\* A call is mapped to a fresh IPSC stream byte; any older one is forgotten.
BeginInCall(ts, c, started) ==
  /\ in_call' = [in_call EXCEPT ![ts] = c]
  /\ in_started' = [in_started EXCEPT ![ts] = started]
  /\ in_stream_ctr' = (in_stream_ctr + 1) % StreamMod
  /\ in_stream_id' = [in_stream_id EXCEPT ![ts] = (in_stream_ctr + 1) % StreamMod]
  /\ head_age' = [head_age EXCEPT ![ts] = 0]

ResetInCallStillStarted(ts) ==   \* mutant: in_started is not reset
  /\ in_call' = [in_call EXCEPT ![ts] = None]
  /\ head_age' = [head_age EXCEPT ![ts] = DupWindow + 1]
  /\ UNCHANGED <<in_started, in_stream_id, in_stream_ctr>>

\* _reset_hbp_to_ipsc_state
ResetInCall(ts) ==
  /\ in_call' = [in_call EXCEPT ![ts] = None]
  /\ in_started' = [in_started EXCEPT ![ts] = FALSE]
  /\ head_age' = [head_age EXCEPT ![ts] = DupWindow + 1]
  /\ UNCHANGED <<in_stream_id, in_stream_ctr>>

HbpHead(ts, c) ==
  /\ HbpUnblocked(ts, c)
  /\ ~DuplicateHead(ts, c)
  /\ BeginInCall(ts, c, ~StartOnVoice)
  /\ AcquireCallLock(ts, "HBP", c.tg)
  /\ IF StartOnVoice THEN TransmitNothing
     ELSE Transmit(ts, Heads((in_stream_ctr + 1) % StreamMod, c), c)

HbpForeignTerm(ts, c) ==
  /\ HbpUnblocked(ts, c)
  /\ ForeignTerm(ts, c)
  /\ AcquireCallLock(ts, "HBP", c.tg)
  /\ TransmitNothing
  /\ UNCHANGED inVars

\* A terminator is transmitted only if the call was started on IPSC.
HbpTerm(ts, c) ==
  /\ HbpUnblocked(ts, c)
  /\ ~ForeignTerm(ts, c)
  /\ ResetInCall(ts)
  /\ AcquireAndReleaseCallLock(ts, "HBP", c.tg)
  /\ IF in_started[ts]
     THEN Transmit(ts, <<[burst |-> "TERM", sid |-> in_stream_id[ts], call |-> c]>>, c)
     ELSE TransmitNothing

\* Voice of the active call.  The first one keys the repeater.
HbpVoice(ts, c) ==
  /\ HbpUnblocked(ts, c)
  /\ in_call[ts] # None
  /\ AcquireCallLock(ts, "HBP", c.tg)
  /\ in_started' = [in_started EXCEPT ![ts] = TRUE]
  /\ Transmit(ts, (IF in_started[ts] THEN <<>> ELSE Heads(in_stream_id[ts], c))
                    \o VoiceOf(in_stream_id[ts], c), c)
  /\ UNCHANGED <<in_call, in_stream_id, head_age, in_stream_ctr>>

\* Voice without a call: a late entry, except in LEGACY_AMBE.
HbpLateEntry(ts, c) ==
  LET sid == (in_stream_ctr + 1) % StreamMod
  IN /\ HbpUnblocked(ts, c)
     /\ in_call[ts] = None
     /\ ~Legacy
     /\ AcquireCallLock(ts, "HBP", c.tg)
     /\ BeginInCall(ts, c, TRUE)
     /\ Transmit(ts, Heads(sid, c) \o VoiceOf(sid, c), c)

HbpVoiceWithoutHead(ts, c) ==
  /\ HbpUnblocked(ts, c)
  /\ in_call[ts] = None
  /\ Legacy
  /\ AcquireCallLock(ts, "HBP", c.tg)
  /\ TransmitNothing
  /\ UNCHANGED inVars

hbp_voice_received(ts, c, frame) ==
  \/ HbpRefused(ts, c, frame)
  \/ frame = "HEAD" /\ (HbpHead(ts, c) \/ HbpDuplicateHead(ts, c))
  \/ frame = "TERM" /\ (HbpTerm(ts, c) \/ HbpForeignTerm(ts, c))
  \/ frame = "VOICE" /\ \/ HbpVoice(ts, c)
                        \/ HbpLateEntry(ts, c)
                        \/ HbpVoiceWithoutHead(ts, c)

-----------------------------------------------------------------------------
(***************************************************************************)
(* Time, the watchdog and the registrations.                               *)
(***************************************************************************)
Down(n) == IF n > 0 THEN n - 1 ELSE n
Up(n, max) == IF n < max THEN n + 1 ELSE n

Tick ==
  /\ out_idle' = [ts \in TS |-> Up(out_idle[ts], CallTimeout + 1)]
  /\ in_idle' = [ts \in TS |-> Up(in_idle[ts], CallTimeout + 1)]
  /\ head_age' = [ts \in TS |-> Up(head_age[ts], DupWindow + 1)]
  /\ lock_until' = [ts \in TS |-> IF lock_until[ts] >= 0 THEN lock_until[ts] - 1 ELSE Expired]
  /\ blocked' = [ts \in TS |-> [s \in Streams |-> Down(blocked[ts][s])]]
  /\ handle' = [ts \in TS |-> Down(handle[ts])]
  /\ cooldown' = [ts \in TS |-> Down(cooldown[ts])]
  /\ busy' = [ts \in TS |-> Down(busy[ts])]
  /\ reflect_recent' = [ts \in TS |-> [st \in Srcs \X Tgs |-> Down(reflect_recent[ts][st])]]
  /\ reflect_ignore' = [ts \in TS |-> [s \in IpscStreams |-> Down(reflect_ignore[ts][s])]]
  /\ UNCHANGED <<outVars, in_call, in_started, in_stream_id, in_stream_ctr,
                 lock_owner, lock_tg, queue, linkVars>>
  /\ toIpsc' = Silent
  /\ toHbp' = Silent

OutTimedOutByInbound(ts) ==   \* mutant: the other direction's clock
  out_stream_id[ts] # None /\ in_idle[ts] > CallTimeout
InTimedOutByOutbound(ts) ==   \* mutant: the other direction's clock
  in_call[ts] # None /\ out_idle[ts] > CallTimeout

OutTimedOut(ts) == out_stream_id[ts] # None /\ out_idle[ts] > CallTimeout
InTimedOut(ts)  == in_call[ts] # None /\ in_idle[ts] > CallTimeout

\* check_call_timeouts: clears calls gone silent.  Nothing is sent for them,
\* and what is queued stays queued.
Watchdog ==
  /\ \E ts \in TS : OutTimedOut(ts) \/ InTimedOut(ts)
  /\ out_stream_id' = [ts \in TS |-> IF OutTimedOut(ts) THEN None ELSE out_stream_id[ts]]
  /\ out_lc' = [ts \in TS |-> IF OutTimedOut(ts) THEN None ELSE out_lc[ts]]
  /\ in_call' = [ts \in TS |-> IF InTimedOut(ts) THEN None ELSE in_call[ts]]
  /\ in_started' = [ts \in TS |-> in_started[ts] /\ ~InTimedOut(ts)]
  /\ head_age' = [ts \in TS |-> IF InTimedOut(ts) THEN DupWindow + 1 ELSE head_age[ts]]
  /\ lock_until' = [ts \in TS |->
                      IF \/ OutTimedOut(ts) /\ lock_owner[ts] = "IPSC"
                         \/ InTimedOut(ts) /\ lock_owner[ts] = "HBP"
                      THEN Hang ELSE lock_until[ts]]
  /\ UNCHANGED <<out_frame_pos, out_ipsc_stream_byte, out_seq, out_idle, in_stream_id,
                 in_stream_ctr, in_idle, lock_owner, lock_tg, blocked, txVars, busy,
                 reflectVars, linkVars>>
  /\ toIpsc' = Silent
  /\ toHbp' = Silent

ClearQueuesOnly ==   \* mutant: the timers are not cancelled
  /\ queue' = [ts \in TS |-> <<>>]
  /\ cooldown' = [ts \in TS |-> 0]
  /\ UNCHANGED handle

\* _clear_ipsc_tx_queues
ClearTxQueues ==
  /\ queue' = [ts \in TS |-> <<>>]
  /\ handle' = [ts \in TS |-> NoHandle]
  /\ cooldown' = [ts \in TS |-> 0]

\* The part peer_lost and hbp_disconnected share.
ForgetCalls ==
  /\ out_stream_id' = [ts \in TS |-> None]
  /\ out_lc' = [ts \in TS |-> None]
  /\ out_ipsc_stream_byte' = [ts \in TS |-> None]
  /\ out_idle' = [ts \in TS |-> CallTimeout + 1]
  /\ in_call' = [ts \in TS |-> None]
  /\ in_started' = [ts \in TS |-> FALSE]
  /\ in_stream_id' = [ts \in TS |-> 0]
  /\ in_idle' = [ts \in TS |-> CallTimeout + 1]
  /\ head_age' = [ts \in TS |-> DupWindow + 1]
  /\ ClearTxQueues
  /\ reflect_recent' = [ts \in TS |-> [st \in Srcs \X Tgs |-> 0]]
  /\ reflect_ignore' = [ts \in TS |-> [s \in IpscStreams |-> 0]]
  /\ UNCHANGED in_stream_ctr
  /\ toIpsc' = Silent

\* The superframe position, the counters and the busy mark survive it.
NothingForwarded ==
  /\ UNCHANGED <<out_frame_pos, out_seq, busy>>
  /\ toHbp' = Silent

ClearLocksOnly ==   \* mutant: the refused streams stay
  /\ lock_owner' = [ts \in TS |-> "free"]
  /\ lock_tg' = [ts \in TS |-> None]
  /\ lock_until' = [ts \in TS |-> Expired]
  /\ UNCHANGED blocked

\* _clear_call_locks
ClearCallLocks ==
  /\ lock_owner' = [ts \in TS |-> "free"]
  /\ lock_tg' = [ts \in TS |-> None]
  /\ lock_until' = [ts \in TS |-> Expired]
  /\ blocked' = [ts \in TS |-> [s \in Streams |-> 0]]

PeerLost ==
  /\ ipsc_up
  /\ ipsc_up' = FALSE
  /\ hbp_up' = (hbp_up /\ ~Tracking)
  /\ ForgetCalls
  /\ NothingForwarded
  /\ ClearCallLocks

\* hbp_disconnected: the call locks and the refused streams stay.
HbpDisconnected ==
  /\ hbp_up
  /\ hbp_up' = FALSE
  /\ ForgetCalls
  /\ NothingForwarded
  /\ UNCHANGED <<ipsc_up, lockVars, blocked>>

\* The bursts that end in a DMRD frame, and the superframe position after them.
Forwards(ts, c, b) ==
  \/ b = "HEAD" /\ (Legacy => OpenStream(ts, c, b) = None)
  \/ b = "TERM" /\ out_stream_id[ts] # None
  \/ b \in VoiceBursts \ TruncatedBursts /\ (out_stream_id[ts] # None \/ LateEntry(ts, b))

PositionAfter(ts, b) ==
  CASE b = "HEAD" -> 0
    [] b = "TERM" -> out_frame_pos[ts]
    [] OTHER -> ((IF LateEntry(ts, b) THEN LateEntryPosition ELSE out_frame_pos[ts]) + 1)
                  % SuperframeLen

\* send_dmrd fails.  asyncio calls error_received before sendto returns, so
\* hbp_disconnected runs in the middle of ipsc_voice_received, which goes on
\* with the state reset.  Either of the two heads of LEGACY_AMBE may fail.
SendDmrdFails(ts, c, b) ==
  /\ ipsc_up
  /\ hbp_up
  /\ ~WithoutMetadata(ts, b)
  /\ ~LockBlocks(ts, "IPSC", c)
  /\ ~IsReflection(ts, c, b)
  /\ Forwards(ts, c, b)
  /\ hbp_up' = FALSE
  /\ ForgetCalls
  /\ TakeLock(ts, "IPSC", c.tg)
  /\ lock_until' = [lock_until EXCEPT ![ts] =
                      IF b = "TERM" /\ OwnerAfter(ts, "IPSC") = "IPSC" THEN Hang
                      ELSE UntilRekeyed(ts, c, b)]
  /\ busy' = [busy EXCEPT ![ts] = Holdoff]
  /\ out_frame_pos' = [out_frame_pos EXCEPT ![ts] = PositionAfter(ts, b)]
  /\ \E k \in 1..(IF Legacy /\ b = "HEAD" THEN 2 ELSE 1) :
       /\ out_seq' = (out_seq + k) % SeqMod
       /\ toHbp' = [Silent EXCEPT ![ts] = Frames(k - 1, "HEAD", c, c, c, 0)]
  /\ UNCHANGED <<ipsc_up, blocked>>

\* A registration begins, or the HBP session ends without the translator
\* being told (the master's MSTNAK or MSTCL): no translator state changes.
SetLinks(ipsc, hbp) ==
  /\ ipsc_up' = ipsc
  /\ hbp_up' = hbp
  /\ toIpsc' = Silent
  /\ toHbp' = Silent
  /\ UNCHANGED <<outVars, out_idle, inVars, in_idle, lockVars, blocked, txVars, busy,
                 reflectVars>>

PeerRegistered == ~ipsc_up /\ SetLinks(TRUE, hbp_up)
HbpConnected   == ~hbp_up /\ SetLinks(ipsc_up, TRUE)
HbpDropped     == hbp_up /\ SetLinks(ipsc_up, FALSE)

-----------------------------------------------------------------------------
Next ==
  \/ \E ts \in TS :
       \/ \E c \in IpscCalls, b \in IpscBursts : ipsc_voice_received(ts, c, b)
       \/ \E c \in IpscCalls, b \in IpscBursts : SendDmrdFails(ts, c, b)
       \/ \E c \in HbpCalls, frame \in HbpFrames : hbp_voice_received(ts, c, frame)
       \/ Drain(ts)
  \/ Tick
  \/ Watchdog
  \/ PeerRegistered
  \/ PeerLost
  \/ HbpConnected
  \/ HbpDisconnected
  \/ HbpDropped

Spec == Init /\ [][Next]_vars

\* The event loop runs its timers: the drain of each slot and the watchdog.
Fairness ==
  /\ WF_vars(Tick)
  /\ WF_vars(Watchdog)
  /\ \A ts \in TS : WF_vars(Drain(ts))

FairSpec == Spec /\ Fairness

-----------------------------------------------------------------------------
(***************************************************************************)
(* Properties of the translator's state.                                   *)
(***************************************************************************)

\* When the call lock covers every talkgroup, a slot never carries calls of
\* both directions: while a stream towards HBP is open, no HBP call is mapped
\* to IPSC and none of its packets waits for the paced transmitter, whatever
\* the timeouts, terminators and disconnections in between
\* (_call_lock_blocks and everything that sets the state it reads).
HalfDuplex ==
  CallLock /\ ~SameTgOnly => \A ts \in TS : ~(IpscHolds(ts) /\ HbpHolds(ts))

\* Why: the direction that holds the slot owns the lock.  HalfDuplex follows.
HolderOwnsLock ==
  CallLock /\ ~SameTgOnly => \A ts \in TS : /\ IpscHolds(ts) => lock_owner[ts] = "IPSC"
                                            /\ HbpHolds(ts) => lock_owner[ts] = "HBP"

\* The call lock arbitrates each slot between the directions, pauses included
\* (_call_lock_blocks, _acquire_call_lock, _release_call_lock).
Carried == [ts \in TS |-> IF IpscHolds(ts) THEN "IPSC"
                          ELSE IF HbpHolds(ts) THEN "HBP" ELSE "free"]
Reserved == [ts \in TS |-> IF LockActive(ts) THEN lock_owner[ts] ELSE "free"]
Slots == INSTANCE HalfDuplexSlots WITH carrying <- Carried, reserved <- Reserved
ArbitratesSlots == Slots!Spec

\* The drain timer of a slot runs exactly while packets wait, so no packet is
\* left in the queue without anything to send it and no drain ever finds the
\* queue empty; and it never fires before the cooldown of the last packet has
\* passed (_send_hbp_to_ipsc, _schedule_hbp_to_ipsc_drain, _drain_hbp_to_ipsc_queue,
\* _clear_ipsc_tx_queues).
DrainScheduled ==
  \A ts \in TS : /\ queue[ts] # <<>> <=> handle[ts] # NoHandle
                 /\ handle[ts] # NoHandle => handle[ts] >= cooldown[ts]

\* Once the IPSC peer is gone nothing of its calls is left: no call of either
\* direction, no packet waiting to be sent to an address nobody answers at,
\* no lock and no refused stream that would hit the peer when it comes back
\* (peer_lost).
PeerGoneIsClean ==
  ~ipsc_up => \A ts \in TS : /\ ~IpscHolds(ts)
                             /\ ~HbpHolds(ts)
                             /\ ~LockActive(ts)
                             /\ \A s \in Streams : blocked[ts][s] = 0

\* A call towards HBP whose IPSC packets stop is closed, terminator or not:
\* its slot does not stay taken (check_call_timeouts, peer_lost, ...).
OutCallEnds == \A ts \in TS : []<>(out_stream_id[ts] = None \/ out_idle[ts] = 0)

\* A direction that fell silent does not keep the lock, however it came by it and while
\* the other one goes on trying: by a call that lost its terminator, by voice that opened
\* a call late, by a terminator without a call, or by packets that wait in the queue
\* (_call_lock_is_active, _release_call_lock, check_call_timeouts).
SlotIsFreed ==
  \A ts \in TS :
    /\ []<>(~LockActive(ts) \/ lock_owner[ts] # "IPSC" \/ out_idle[ts] = 0)
    /\ []<>(~LockActive(ts) \/ lock_owner[ts] # "HBP" \/ in_idle[ts] = 0)

\* "Voice is only forwarded when both sides are live" (theory_of_operation.md:330).  The
\* handlers check that, the drain of the queue does not: it relies on hbp_disconnected
\* to clear the queue, which MSTNAK and MSTCL do not call (hbp/protocol.py:118-125).
VoiceNeedsBothSides == [][\A ts \in TS : toIpsc'[ts] # <<>> => hbp_up /\ ipsc_up]_vars

\* CALL_LOCK_NOTES.md: while one side owns a call, an inverse-direction call on
\* the same talkgroup is dropped until the active call ends.  So no slot carries
\* a call in each direction on one talkgroup (_call_lock_blocks).
\* A slot forgets that as soon as the owning direction changes its talkgroup.
SameTalkgroupExcluded ==
  \A ts \in TS : out_lc[ts] # None /\ in_call[ts] # None => out_lc[ts].tg # in_call[ts].tg
=============================================================================
