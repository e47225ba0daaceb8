\* The packet translator's calls in both directions, kept apart by reflection suppression
\* only: stream bytes told apart, a superframe of three frames, nothing dropped.
SPECIFICATION MonSpec
CONSTANTS
  None = None
  TS = {1}
  IpscStreams = {"i1"}
  HbpStreams = {"h1", "h2"}
  Srcs = {"u1", "u2"}
  Tgs = {"g1", "g2"}
  IpscCalls <- OneIpscCall
  HbpCalls <- TwoHbpCalls
  CallLock = FALSE
  SameTgOnly = FALSE
  Legacy = FALSE
  Pacing = TRUE
  StartOnVoice = TRUE
  ReflectSuppression = TRUE
  Tracking = FALSE
  HeaderRepeats = 1
  QueueLimit = 4
  Interval = 1
  Holdoff = 0
  Hang = 0
  BlockFor = 1
  DupWindow = 0
  CallTimeout = 0
  ReflectWindow = 1
  SeqMod = 1
  SuperframeLen = 3
  StreamMod = 2
CONSTRAINT TransmitterTakesAll
PROPERTIES VoiceFollowsHead SuperframeInStep EchoIsSuppressed TurnedAwayStaysOut
