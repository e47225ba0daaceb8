\* LEGACY_AMBE, without pacing and lock, the heads sent with
\* the HBP head: calls that change stream, foreign terminators, one radio keying up twice.
SPECIFICATION MonFairSpec
CONSTANTS
  None = None
  TS = {1}
  IpscStreams = {"i1", "i2"}
  HbpStreams = {"h1", "h2"}
  Srcs = {"u1", "u2"}
  Tgs = {"g1", "g2"}
  IpscCalls <- TwoIpscCalls
  HbpCalls <- TwoHbpCallsOneUser
  CallLock = FALSE
  SameTgOnly = FALSE
  Legacy = TRUE
  Pacing = FALSE
  StartOnVoice = FALSE
  ReflectSuppression = FALSE
  Tracking = FALSE
  HeaderRepeats = 1
  QueueLimit = 2
  Interval = 0
  Holdoff = 0
  Hang = 0
  BlockFor = 1
  DupWindow = 0
  CallTimeout = 0
  ReflectWindow = 1
  SeqMod = 1
  SuperframeLen = 6
  StreamMod = 3
PROPERTIES VoiceFollowsHead SuperframeInStep OutCallEnds
