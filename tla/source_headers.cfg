SPECIFICATION SerialSpec
CONSTANTS
  QueueMs = 1
  MaxJitterMs = 1
  FrameMs = 1
  PureAudioGuess = 1
  MixPureAv = 2
  Publisher = {1}
  Consumer = {c1}
  Jitter = "ZERO"
  Atc = FALSE
  AtcAuto = TRUE
  MixCorrect = FALSE
  ReduceSh = TRUE
  GopCacheConf <- CacheOn
  MwMsgs = 1
  Stamps = {0, 2}
  Inputs <- AtcHeaderInputs
  MaxMsgs = 3
  MaxSessions = 2
  c1 = c1
INVARIANTS HeadersInTime
