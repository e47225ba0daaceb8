# ipsc2hbp: TLA+ specification, model checking and proofs

ipsc2hbp is a bridge between a Motorola IP Site Connect (IPSC) repeater, or an
IPSC master, and an HBlink master that speaks the Homebrew protocol (HBP).  It
is one asyncio process: every datagram and timer is a callback that runs to
completion, so what is hard about it is not shared memory but the order in
which callbacks run, the awaits of the HBP connect loop, lost datagrams, and
state that outlives the call or session it belonged to.

## 1. Inventory

| Component | Source | State | Operations | Modelled by |
|---|---|---|---|---|
| Call translator | `src/translate/translator.py` | per timeslot: open stream towards HBP with its LC, superframe position and accepted stream byte; the HBP call mapped to IPSC; call lock with talkgroup, hang and refused streams; paced queue with timer and cooldown; busy mark; reflection filter.  Shared by the slots: the DMRD sequence number and the IPSC stream counter | `ipsc_voice_received`, `hbp_voice_received`, the queue's drain, `check_call_timeouts`, `peer_registered`, `peer_lost`, `hbp_connected`, `hbp_disconnected` | `CallTranslator`, observed by `WireMonitor` |
| HBP client | `src/hbp/protocol.py`, `HBPClient` | active flag, connect task, current protocol, place of the loop | `start`, `stop`, `activate`, `deactivate`, `_connect_loop` | `HBPClient` |
| HBP session | `src/hbp/protocol.py`, `_HBPProtocol` | handshake state, socket, keepalive task, time of the last pong | `connection_made`, `datagram_received` with its branches, `error_received`, `connection_lost`, `_keepalive_loop`, `_disconnect` | `HBPClient` |
| HBP master | not in the repository; played by `src/tests/fake_hbp_master.py` | login state, address of the client | replies to the login and to pings, MSTNAK, MSTCL | environment in `HBPClient` |
| IPSC endpoint, MASTER mode | `src/ipsc/protocol.py`, `IPSCProtocol` | the registered repeater with its address, time of its last keepalive | registration, keepalive, peer list, de-registration, voice in and out, `_watchdog_loop` | `IpscMaster` |
| IPSC endpoint, PEER mode | `src/ipsc/protocol.py`, `IPSCPeerProtocol` | registration and whether it was reported; the master's ID, port, last datagram and unanswered keepalives; the table of peers | the replies of the master, the requests, replies and voice of peers, voice out, `_maintenance_loop`, `_watchdog_loop`, `stop` | `IpscPeer` |
| Both against each other | the same file, a network, a NAT | datagrams under way | loss, repetition, delay, moved ports, crashes, restarts | `IpscPair` |
| Start-up | `src/ipsc2hbp.py` | none of its own | opens the IPSC socket, then starts the client; stops it on a signal | the actions `start` and `stop` of `HBPClient`, `connection_made` and `stop` of `IpscPeer`, and the constant `EarlyPeer` |
| Configuration | `src/config.py` | none after loading | validation | its results are the CONSTANTS |
| Frame contents | parts of `translator.py`, `dmr_utils3` | none | AMBE bit order, LC, EMB, slot types | not modelled |
| Tools and test doubles | `src/tools`, `src/tests` | captures, fake peers | printing, scripted traffic | not modelled, except the fake master |

How they interact.  The IPSC endpoint calls the translator for registration,
loss of the peer and voice; the translator calls it to send.  The HBP session
calls the translator when it is connected, when it ends, and for voice; the
translator calls the client to send, and in TRACKING mode to activate and
deactivate it as the IPSC peer comes and goes.  All calls are synchronous.  Two
of them come back re-entrantly: a failing `sendto` makes asyncio call
`error_received` before it returns, which in the voice path runs
`hbp_disconnected` in the middle of `ipsc_voice_received`, and in the handshake
runs `_disconnect` in the middle of `_on_rptack`.

What is hard, and what makes each part correct:

- *Half duplex.*  Both sides may key up at any time on one slot.  The lock must
  hold while a call has state or packets left in the queue, and for the hang
  after it, however the call ends (terminator, timeout, disconnection, stream
  change): `HalfDuplex`, `Turnaround`.  A call it refused must not slip in
  halfway when the other ends: `TurnedAwayStaysOut`.
- *Pacing.*  One HBP frame may generate several IPSC packets; the queue, its
  timer and its cooldown have to agree over resets: `DrainScheduled`, `Cadence`.
- *Keying.*  The repeater must get the head of a call before its voice, with the
  right stream byte, although calls are interrupted and re-keyed:
  `VoiceFollowsHead`.
- *Superframes.*  The position is state that several handlers reset:
  `SuperframeInStep`.
- *Echoes* of the bridge's own calls, in PEER mode: `EchoIsSuppressed`; and the
  *busy* slot: `BusySlotIsLeftAlone`.
- *Ends.*  Terminators get lost, peers vanish: `OutCallEnds`, `SlotIsFreed`,
  `PeerGoneIsClean`.
- *Arbitration.*  All of it together has to look like an arbiter that gives each slot to
  one direction at a time: `ArbitratesSlots`.
- *Registrations.*  Each side keeps its own idea of who is registered where, and corrects it
  by datagrams that get lost, come late or come twice, after restarts and behind NATs.
  The translator may hear only of changes (`LinkIsKept`, `MasterKeepsLink`); nobody
  is given up unasked (`KeptWhileAsked`), everybody who is silent is (`SilenceIsNoticed`,
  `DeathIsNoticed`); the two find each other again (`Settles`); the master, whose ID is
  learnt late, must not get into the table of peers (`MasterIsNoPeer`).
- *Sessions.*  One at a time, alive while it says so, told to the translator
  when over, replaced afterwards: `OneSession`, `ConnectedIsServed`,
  `ConnectedIsAccepted`, `EndIsReported`, `DeadMasterNoticed`, `Reconnects`.

`PROJECT.json` lists each hazard at its line with the properties that cover it.

## 2. Plan

Done:

1. `CallTranslator` and `WireMonitor`, `HBPClient`, their runs and proofs.
2. `HalfDuplexSlots`, the abstract arbiter `CallTranslator` implements, checked and proved.
3. `IpscMaster` and `IpscPeer`; `IpscLink`, which both implement, checked and proved;
   `IpscPair`, the two composed with faults.
4. The safety invariants of `HBPClient` as theorems.
5. The properties over packets of `WireMonitor`, the order of the login in `HBPClient` and the
   contract of the master in `IpscPair` as theorems: every safety property a run checks now has one.

Left:

6. `Bridge`: the translator's link variables driven by `HBPClient` and an IPSC
   endpoint instead of by free actions.  The free actions allow more than either does,
   so what is shown of the translator holds in the composition; what `Bridge`
   would add is the end-to-end behaviour in TRACKING mode.
7. Pure parts: superframe positions against embedded LC fragments and frame types; the
   validation of the configuration.
8. Proofs: the safety half of the liveness properties, that is, the bounds within which a silent
   peer is found out; the contract of the PEER endpoint in `IpscPair`, across its restarts.

## 3. Modules

### CallTranslator

One action per path of a handler through its early returns, named for that path;
`ipsc_voice_received` and `hbp_voice_received` are their disjunctions.

| Code | Model |
|---|---|
| `_out_stream_id`, `_out_lc`, `_out_frame_pos`, `_out_ipsc_stream_byte`, `_out_seq` | the variables of the same names.  A stream is named by the call it was opened for instead of by four random bytes; the LC word by the call it was built from |
| `_in_lc`, `_in_hbp_stream`, `_in_src_sub`, `_in_dst_group` | `in_call`: they are set and reset together |
| `_in_started`, `_in_stream_id`, `_in_stream_ctr` | `in_started`, `in_stream_id`, `in_stream_ctr` |
| `_call_lock_owner`, `_call_lock_tg`, `_call_lock_until`, `_call_lock_blocked_*` | `lock_owner`, `lock_tg`, `lock_until`, `blocked` |
| `_ipsc_tx_queue`, `_ipsc_tx_handle`, `_ipsc_tx_next_at` | `queue`, `handle`, `cooldown` |
| `_ipsc_busy_last`, `_reflect_recent`, `_reflect_ignore` | `busy`, `reflect_recent`, `reflect_ignore` |
| `_out_last_pkt`, `_in_last_pkt`, `_in_last_head` | `out_idle`, `in_idle`, `head_age` |
| `is_connected()`, `is_peer_registered()` | `hbp_up`, `ipsc_up` |

Time.  The code compares `time()` with stored instants.  An instant of the future
is a countdown, one of the past an age, capped one tick beyond the largest delay
anything compares it with.  `Tick` moves all of them; any number of handlers may
run between two ticks and any number of ticks between two handlers, as when the
loop lags.

Input.  A call is a stream, a source and a talkgroup.  Every burst of every call in
`IpscCalls` and every frame of every call in `HbpCalls` may arrive at any time, in any
order and any number of times: radios that interrupt each other, lost heads and
terminators, duplicates, reordering.  Bursts are told apart as the code does: heads,
terminators, voice, voice that carries the LC (burst E), and voice too short to hold
the AMBE frames.

`SendDmrdFails` is the re-entrant failure described above: the reset, and then the
rest of the handler on top of it.  `HbpDropped` is a session whose end the translator
is not told of (MSTNAK and MSTCL).

### WireMonitor

`CallTranslator` with an observer: what was last sent on each wire and how long ago,
what the repeater is keyed with, which streams were turned away.  The properties over
packets compare a step's packets with this history, and so do not depend on the
translator's own bookkeeping.  The delays start afresh when a peer is lost or the HBP
session ends: the code forgets its cooldown then, deliberately.

How long a refused stream stays out depends on who refused it.  The lock remembers it for
`BlockFor` ticks, over an HBP disconnection too; the reflection filter for
`ReflectWindow`, and forgets with the session.  `ByLockAlone` says that the filter can have
no part in it: there is none, or the lock covers every talkgroup and so meets every echo first.
Where both may refuse, the shorter time is promised (`StayOut`).

`TransmitterTakesAll` describes states in which no packet is dropped: no slot is busy and
the queue has room for what one callback can issue.  `NoFrameAssumption` says that `None`
is not a frame.

### HBPClient

A connect loop is a task; `loop[t]` is the await it is at.  Every await is a
point where other callbacks run.  A tick is five seconds, the interval of the
keepalive.  The network delays and loses but does not reorder or duplicate; the
master is the one of the tests.  A socket's reader runs only once the connect loop
has resumed, since asyncio registers it in the callback that wakes the loop.  When a
send fails, `error_received` runs inside `sendto`, and the handler that sent goes on
and assigns its state.  `Faults` names what may go wrong in a run.

### HalfDuplexSlots

What the call lock promises, without calls, packets or queues: a slot carries one
direction's traffic and is reserved for it, perhaps for a while after; the other direction
begins only when nothing is reserved.  `CallTranslator` maps to it by
`carrying <- Carried` (the call or queue that holds the slot) and
`reserved <- Reserved` (the owner of a lock that is active).  All slots may move in one step, since a
lost peer resets all of them.

### IpscLink, IpscMaster, IpscPeer

`IpscLink` is what the translator and the HBP client rely on: `peer_registered` and
`peer_lost` alternate, each at the step that changes `is_peer_registered()`, and
voice comes only in between.

| Code | Model |
|---|---|
| `_registered`, `_peer_id`, `_peer_ip`, `_peer_port` of `IPSCProtocol` | `peer`, a record or `None`: they are set and cleared together |
| `_last_ka`, `_last_master_rx` | `ka_age`, `rx_age` |
| `_registered`, `_master_reg_reported`, `_peer_list_seen`, `_master_id_i`, `_master_port`, `_master_outstanding` of `IPSCPeerProtocol` | `registered`, `reg_reported`, `peer_list_seen`, `master_id`, `master_port`, `outstanding` |
| `_peers` | `peers`: an entry or `None` for each ID |
| the translator's callback, `sendto` | `callback`, `sent`: what the last step did |

A handler is an action on a datagram's radio ID and source address.  Which opcode it was is
the action's name; opcodes the code treats alike share one (`PeerAsks`, `PeerAnswers`,
`PeerDeregisters`).  `MasterHeard` and `PeerHeard` are the datagrams that move an address or
a clock and are then of no use: too short, too early, or for the other mode.  In
the specifications `Next` lets every datagram arrive at any time from every endpoint, so that the
theorems need nothing of the network or of the others.

Authentication either drops a datagram or has no effect and is left out.

Time.  `_maintenance_loop` sleeps for the interval after each turn, so that what one turn is late
delays all that follow: `maint` counts the sleep down and goes on below 0 while the turn is late,
by `MaxLag` ticks at most (`Tick` waits then), and a turn sets it to a whole interval again.  The
watchdogs compare fractions of a second with `>`; a tick is coarser, and `>=` in `Watchdog` lets them act at
any moment after the limit, however close.  They may be late for any time.  All conditions on time are thus
of the form "at least" and "at most", for which whole ticks show every order of events that real time allows.

### IpscPair

Extends `IpscMaster` and takes `IpscPeer` as an instance.  What one sends is put on the network,
with the address it came from or goes to.  A fresh datagram arrives within a tick;
`Lose` and `Delay` are the exceptions, and a delayed datagram may be a second copy.  `Rebind`
moves the peer's port as the master sees it.  `MasterCrash`, `PeerCrash` and `PeerStops` end a
process, which loses its state; it may start again or not.  `displaced` is history: the NAT
moved the port, or the master took a registration that was sent from an earlier one.

### The MC modules

Sets of calls, faults, endpoints and peer lists for the runs.

### CallTranslatorProofs, WireMonitorProofs, HBPClientProofs, IpscMasterProofs, IpscPeerProofs, IpscPairProofs

The theorems of section 6.

## 4. Runs

| Run | Shows |
|---|---|
| `wires` | `TypeOK`, `HalfDuplex`, `DrainScheduled`, `PeerGoneIsClean`, `ArbitratesSlots`, `Cadence`, `Turnaround`, `TurnedAwayStaysOut`, `BusySlotIsLeftAlone`, `SlotIsFreed`: the lock over all talkgroups, TRACKING mode; timers of one to three ticks, so that each can be cut short; stray terminators, voice after the terminator, packets left in the queue.  Where the lock covers every talkgroup, a call or a packet that stays holds the lock (`HolderOwnsLock`), so that `SlotIsFreed` says of both directions that calls end and the queue empties |
| `calls` | `VoiceFollowsHead`, `SuperframeInStep`, `EchoIsSuppressed`, `TurnedAwayStaysOut`: paced, the reflection filter in place of the lock, so that the calls of both directions mix freely |
| `legacy` | `VoiceFollowsHead`, `SuperframeInStep`, `OutCallEnds`: `LEGACY_AMBE`, unpaced, heads sent with the HBP head, so that streams change and terminators are foreign; one radio keys up twice, so that the duplicate-head debounce mistakes its second call for its first |
| `client` | `TypeOK`, `OneSession`, `ConnectedIsServed`, `EndIsReported`, `ConnectedIsAccepted`: sends, sockets and endpoints fail, datagrams get lost, a peer may register before the client is started |
| `reconnect` | `Reconnects`, `DeadMasterNoticed`: MSTNAK, MSTCL and lost keepalives |
| `ipsc_peer` | `TypeOK`, `MasterIsNoPeer`, `LinkIsKept`, `KeptWhileAsked`, `SilenceIsNoticed`: the loops lag; a master, a sibling that answers as one behind the same address, and a repeater that moves to another port send anything at any time |
| `ipsc_pair` | `TypeOK`, `MasterKeepsLink`, `Settles`, `DeathIsNoticed`: two faults of any kind at any time |

Five runs check what the documentation says and find it violated by the code:

- `same_tg_lock`.  `CALL_LOCK_NOTES.md` says an inverse-direction call on the same
  talkgroup is dropped while a call is active.  The lock stores the talkgroup of the
  first call after the slot was free; when the owning direction goes on with a call on
  another talkgroup, an inverse call on the talkgroup now in use passes.
- `ended_session`.  In PERSISTENT mode voice is documented to be forwarded only when both sides are
  live.  MSTNAK and MSTCL end the session, and are logged, without `hbp_disconnected`, so the
  translator keeps calls, queue and open streams, and the drain sends what is queued to
  the repeater.
- `lost_login`.  The client is documented to reconnect by itself.  One lost datagram of
  the login leaves it waiting for ever: the wait has no timeout and the keepalive
  starts only once connected.
- `tracking_race`.  In TRACKING mode HBP is documented to be connected only while an IPSC
  peer is registered.  A peer lost while `create_datagram_endpoint` is awaited leaves
  the session to log in, because `_protocol` is set only after it.
- `learnt_id`.  `PEER_MODE.md` says the upstream master's ID is learnt from its first valid
  reply.  It is learnt from the first voice or de-registration datagram as well, whoever sent
  it from the master's host, even before the registration; the master's own answers are then
  dropped for as long as the process runs.

Further divergences seen while modelling, without a run: `ipsc2hbp.peer.toml.sample:44-45` says that
the client re-registers after `max_missed` unanswered keepalives, but the watchdog measures time and never
reads the count (`_master_outstanding`): a master last heard just after a turn of the maintenance loop is given up with
`max_missed - 1` unanswered, which is what `KeptWhileAsked` promises; a busy slot or a full queue
swallows the heads of a call and not its voice; a head that finds a stream open, its
terminator lost, continues that stream; the sequence number is shared by the slots
and calls and not per call; voice at superframe position n goes out as `VOICE | n` where the
comment at `translator.py:30` says `n - 1`; a peer that registers before
`HBPClient.start` leaves an active client without a connect loop; in MASTER mode a keepalive from a new port keeps the
registration alive while voice from that port is dropped; in `LEGACY_AMBE` a packet without
metadata reaches neither the lock nor the filter, so that a refused call that sends only such
packets is forgotten, and its later voice gets through, though it never paused
(`TurnedAwayStaysOut` leaves this mode out).

## 5. Bounds

- *Timeslots.*  The runs have one.  The slots share only `_out_seq`, `_in_stream_ctr`
  and the resets, which treat all alike; the theorems hold for any set of timeslots.
- *Calls.*  Two per side are enough for one to interrupt, follow or refuse the
  other; where a property involves one call per side and its repetitions, a run has
  one, as `wires` has.  Calls repeat without bound, so a call is also its own predecessor.
- *Timers.*  One to three ticks; wherever a property compares two delays, they differ.
- *Counters.*  `StreamMod` is 2 or 3 where stream bytes matter: consecutive
  calls differ.  256 in the code.  With 2 a byte is used again after one call, which is harder
  on the property than the code is.  `SuperframeLen` is 3 in `calls`, where a late
  entry lands on position 4 % 3, and 6 in `legacy`.
- *Queue.*  `QueueLimit` is 2 in `wires`, so that it overflows, with one head.
  `calls` leaves out the states in which the next packets do not fit
  (`CONSTRAINT TransmitterTakesAll`): a full queue drops heads, see section 4.
- *Client.*  Two tasks suffice to see a second loop.  `MaxInFlight`, 2 or 3 datagrams, guards
  `Tick` and the return of a peer: an unbounded number travels only if the network keeps
  datagrams for longer than the keepalive interval.  `MaxKaAge` is three intervals as
  in the code, or one where the age does not matter.
- *IPSC endpoints.*  `ipsc_peer` has three IDs, two hosts and two ports: the least with a
  master, another radio at its address, and a peer with two addresses; a list that is empty
  and one that names all three.  `AliveInterval` and `MaxMissed` are 3 and `MaxLag` is 1: the
  most a loop may lag for `KeptWhileAsked` to promise anything, since two turns' lags make 2 < 3; with
  `MaxLag` 2 the property without this condition is violated.  `MaxMissed` is that of the sample
  configurations.  A turn of the loop is never more than `MaxLag` late: an event loop that is blocked for longer
  than that is outside the model.
- *Pair.*  `MaxFaults` is 2: a restart and a straggler of the time before it, a loss of a
  request and of its repetition's answer, a moved port and a lost registration.  A third would repeat one
  of them.  `AliveInterval` and `MaxMissed` are 2 and `MaxLag` is 1, so that keepalives come at least every
  3 ticks; both watchdogs take 4, more than that, as in the sample configurations: with a
  shorter one the two would lose each other without any fault.  One voice packet a tick each way.
- *Symmetry* of the tasks is used in the safety runs of the client only.

Fairness.  The translator's `FairSpec` asks that time passes, that a due drain runs and
that the watchdog, which the IPSC endpoint calls every five seconds, runs when a call
has timed out.  Nothing is assumed of radios or of the network.  `FairSpec` of the
client asks that the loop starts the client, that time passes, that each task's
due callbacks run, and that the master reads what reaches it; not that datagrams
arrive: whether they may get lost is what a run's `Faults` say.  In `reconnect` the logins are
not lost, and `lost_login` shows that this is needed.  `FairSpec` of `IpscPeer` asks that time
passes and that the two loops turn, which asyncio does; of the others nothing.  `PairSpec` asks
the same of both processes and that the network hands over what it has not lost; a process
that ended need not start again.  `MonFairSpec` is the translator's fairness under the monitor.
Deadlock is not checked in the client's runs and those of `IpscPeer`, since a signal ends the process.

## 6. Proofs

They hold for every value of the constants that satisfies the named assumptions of the modules: what
`config.py` accepts, widths, delays and intervals that are natural numbers, `NoFrameAssumption` (the
monitor's mark for "nothing sent yet" is no frame) and `PairAssumption` (the pair's addresses are among those
of the endpoint).  No theorem assumes fairness.  Three have a hypothesis of their own: `EndIsTold` and
`ConnectedWasAccepted` leave out MSTNAK and MSTCL, `VoiceIsKeyedFor` the states in which a busy slot or a full queue drops packets.  The
runs that check the same properties have the same restrictions.

`CallTranslatorProofs`:

| Theorem | Property | Argument |
|---|---|---|
| `TypeCorrect` | `TypeOK` | inductive as it stands.  Its parts are the variables' groups, and every handler path has a lemma.  That the LC exists with each stream is part of it, since terminators copy the LC; that the queue is within its limit rests on a lemma about `Enqueued` |
| `SlotsAreHalfDuplex` | `HalfDuplex` | not inductive: it says nothing of the lock.  The invariant is `HolderOwnsLock`, that the direction that holds a slot owns its lock.  A handler that takes the slot first passes `LockBlocks`, which lets it pass only if the lock is its own or inactive; if inactive, the other direction holds nothing and the lock is taken over.  That the lock counts queued packets as holding is what makes the step go through after a terminator |
| `QueueIsDrained` | `DrainScheduled` | inductive given `TypeOK`: the timer is armed at the cooldown, both count down together, and the resets clear all three |
| `LostPeerLeavesNothing` | `PeerGoneIsClean` | every handler that could create state needs `ipsc_up`; `PeerLost` clears all that the invariant names |
| `LockImplementsArbiter` | `ArbitratesSlots` | the refinement, given `CallLock` and not `SameTgOnly`.  Under `HolderOwnsLock` a slot that carries a direction is reserved for it, so a step falls into three kinds: a packet that passed the lock (`PacketPasses`), a step that only lets go (`LetsGo`), one that leaves the slot alone; each is one of the arbiter's |

`WireMonitorProofs` takes the properties over packets that `wires` and `calls` check.  A step of the monitor
is a step of the translator (`MonitorWatches`), so that the invariants above hold there too; each
property then needs an invariant that ties what the monitor saw on the wires to what the
translator remembers.  Between two packets of interest anything may happen, a loss of the peer or of the
session included, and the work is to show that no such step breaks the tie.

| Theorem | Property | Argument |
|---|---|---|
| `PacketsKeepCadence` | `Cadence` | `CooldownCovers`: the ticks since the last transmission and the cooldown left make up at least `Interval`.  Both count together, the resets of a slot included |
| `BusySlotIsKept` | `BusySlotIsLeftAlone` | `BusyCovers`: the ticks since the last frame forwarded and the busy mark left make up at least `Holdoff` |
| `SlotsTurnAfterPause` | `Turnaround` | `LockCovers`: for `Hang` ticks after a packet of a direction, that direction owns the lock, because it holds the slot or because its hang began no earlier than the packet.  With `HolderOwnsLock`, a packet of the other direction cannot pass in that time |
| `EchoStaysOut` | `EchoIsSuppressed` | `EchoRemembered`: source and talkgroup of what was transmitted last are in the filter for the rest of the window.  A head that passed the filter during a call therefore names another pair (`ForwardedPassed`) |
| `RefusedCallsStayOut` | `TurnedAwayStaysOut` | `RefusalRemembered`: the lock or the filter remembers a call turned away at least as long as the monitor does, which is `StayOut` and depends on which of them can do it (`ByLockAlone`).  `LockBeforeFilter`: where the lock covers every talkgroup, no echo gets as far as the filter.  The proof failed for legacy AMBE, where a refused stream does come in; the property says so and section 4 reports it |
| `SuperframesContinue` | `SuperframeInStep` | `PositionFollows`: while a stream is open, the frame sent last is of that stream and one before the position the next voice frame gets, or the stream was opened late and nothing of it was sent yet |
| `VoiceIsKeyedFor` | `VoiceFollowsHead` | under `[]TransmitterTakesAll`.  `QueueInKey`: a repeater keyed as it is finds the packets in the queue in order, each voice packet after the head of its call, and is keyed for the call in progress when it has had them.  The lemmas `KeyedAfterBoth` and `InKeyBoth` say what this means of a concatenation, so that a drain, which moves packets from one to the other, changes nothing.  Without the hypothesis the code drops heads (section 4) |

`HBPClientProofs`, whose inductive invariant `IInv` adds to `TypeOK` which task owns what:

| Theorem | Property | Argument |
|---|---|---|
| `TypeCorrect` | `TypeOK` | inductive as it stands |
| `LoopIsAlone` | `OneSession` | a task that is not idle is the `connect_task` (`OneLoop`), and so is one with a socket (`SocketOfLoop`); `activate` makes a task only when that one is done, and `NoLoopYet` covers a peer that registers before the start |
| `SessionIsServed` | `ConnectedIsServed` | `Served` says it of every task in state CONNECTED; the step to watch is `_on_rptack` after a failed send, which `error_received` has already disconnected |
| `EndIsTold` | `EndIsReported` | without MSTNAK and MSTCL: nothing on its way ends a session (`NoEnds`), the loop's open session is the one `_protocol` names (`CurrentSession`), and what was reported lives (`ReportedLives`).  The run `client` checks the same |
| `ConnectedWasAccepted` | `ConnectedIsAccepted` | without MSTNAK and MSTCL.  The invariant `LoginInOrder` follows the handshake through the network: of the session in the login there is exactly one thing under way, its request (`RequestWaits`, the master in the state before it) or the answer (`AnswerWaits`, the master in the state after it), or nothing any more because it was lost (`NothingWaits`), and nothing of its own waits in front of it; a session not yet made is unheard of (`NewIsUnheard`).  The RPTACK that makes a session CONNECTED is then the answer to its configuration |

`IpscMasterProofs`, `IpscPeerProofs` and, for the two joined by a network, `IpscPairProofs`:

| Theorem | Property | Argument |
|---|---|---|
| `TypeCorrect`, in both | `TypeOK` | inductive; in PEER mode `reg_reported = registered` is part of it, and without it a registration could go unannounced |
| `MasterImplementsLink`, `PeerImplementsLink` | `LinkIsKept` | the refinement to `IpscLink`: every action is one of its four, given `TypeOK`.  The run `ipsc_peer` checks it of the PEER endpoint |
| `TypeCorrectInPair` | `TypeOK` | of the master's variables in `PairSpec`: the network hands it only datagrams from ports that exist (`ToMasterOK`), and a process that is down reacts to nothing (`DownIsSilent`) |
| `PairKeepsLink` | `MasterKeepsLink` | `StepOfMaster`: each step of the pair is a step of the master, its crash or restart, or leaves it alone; the rest is the refinement above.  The run `ipsc_pair` checks it |
| `WatchdogWaits` | `KeptWhileAsked` | the invariant `SilenceIsCounted`: while at most `MaxMissed` keepalives are outstanding, the silence plus the time to the next turn is at most `Spell(outstanding)`, that is, `outstanding + 1` intervals and the lags of `outstanding` turns.  With fewer than `MaxMissed - 1` outstanding and the last turn as late as it can be, that is still short of the timeout (`SpellIsShort`), if the lags of `MaxMissed - 1` turns stay below an interval.  With all of them on time the watchdog may still come with `MaxMissed - 1`, which the model allows (section 4) |
| `MasterNeverListed` | `MasterIsNoPeer` | if masters have IDs: no peer is in the table before the master's ID is known (`LearntBeforeListed`), because whoever sends a list is learnt first |

Only model-checked: liveness, since fairness and ENABLED are out of the prover's reach (`OutCallEnds`,
`SlotIsFreed`, `Reconnects`, `DeadMasterNoticed`, `SilenceIsNoticed`, `Settles`, `DeathIsNoticed`).  Every
invariant and action property of the passing runs is stated by a theorem above.  Of the pair, no theorem is
about the PEER side: its table and its network are only in the run.

## 7. Not modelled, and why

- The composition of the translator with the client and an endpoint: section 2.6.
- The mode bytes and `num_peers` of IPSC datagrams, which decide nothing; `get_peer_list`, which
  only displays; datagrams of the own radio ID, which are dropped.
- The capture decoders and the test doubles other than the HBP master: they are not part of
  the bridge.
- AMBE conversion, LC and EMB coding, RTP headers, HMAC and SHA digests: pure
  functions of a packet on which no control decision depends.
- Configuration parsing: done once before the loop starts.
- Duplication and reordering of HBP control datagrams: the handshake numbers
  nothing, so that they can move it on is plain; the runs keep to loss and delay, and
  `ConnectedIsAccepted` says nothing of the other two.
- What is outside the restrictions of a property: `MasterIsNoPeer` says nothing with the wildcard fallback
  (`AllowUnknown`), `Settles` nothing of the address of a displaced peer, `SilenceIsNoticed` nothing of
  peers while the endpoint is unregistered, when it asks none.  The hazards' notes name each.
- Voice between session and translator in `HBPClient`: it changes no state of the client.
