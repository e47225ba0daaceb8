\* The master closes the session while packets wait, PERSISTENT mode, against
\* theory_of_operation.md:330.
SPECIFICATION Spec
CONSTANTS
  None = None
  TS = {1}
  IpscStreams = {"i1"}
  HbpStreams = {"h1"}
  Srcs = {"u1", "u2"}
  Tgs = {"g1", "g2"}
  IpscCalls <- OneIpscCall
  HbpCalls <- OneHbpCall
  CallLock = TRUE
  SameTgOnly = FALSE
  Legacy = FALSE
  Pacing = TRUE
  StartOnVoice = TRUE
  ReflectSuppression = FALSE
  Tracking = FALSE
  HeaderRepeats = 1
  QueueLimit = 2
  Interval = 1
  Holdoff = 0
  Hang = 1
  BlockFor = 2
  DupWindow = 0
  CallTimeout = 0
  ReflectWindow = 1
  SeqMod = 1
  SuperframeLen = 1
  StreamMod = 1
PROPERTY VoiceNeedsBothSides
