\* One call on each side under the call lock, HBP in TRACKING mode, and what the two wires
\* see: pauses longer than one tick, so that a cooldown or a hang can be cut short, and a
\* busy slot guarded for longer than the hang. Calls lose their terminators.
SPECIFICATION MonFairSpec
CONSTANTS
  None = None
  TS = {1}
  IpscStreams = {"i1"}
  HbpStreams = {"h1"}
  Srcs = {"u1", "u2"}
  Tgs = {"g1", "g2"}
  IpscCalls <- OneIpscCall
  HbpCalls <- OneHbpCall
  CallLock = TRUE
  SameTgOnly = FALSE
  Legacy = FALSE
  Pacing = TRUE
  StartOnVoice = TRUE
  ReflectSuppression = FALSE
  Tracking = TRUE
  HeaderRepeats = 1
  QueueLimit = 2
  Interval = 2
  Holdoff = 3
  Hang = 1
  BlockFor = 3
  DupWindow = 0
  CallTimeout = 2
  ReflectWindow = 1
  SeqMod = 1
  SuperframeLen = 1
  StreamMod = 1
INVARIANTS TypeOK HalfDuplex DrainScheduled PeerGoneIsClean
PROPERTIES Cadence Turnaround TurnedAwayStaysOut BusySlotIsLeftAlone ArbitratesSlots SlotIsFreed
