SPECIFICATION Spec
CONSTANTS
  QueueMs = 1
  MaxJitterMs = 1
  FrameMs = 1
  PureAudioGuess = 1
  MixPureAv = 2
  Publisher = {1}
  Consumer = {c1}
  Jitter = "FULL"
  Atc = FALSE
  AtcAuto = FALSE
  MixCorrect = TRUE
  ReduceSh = FALSE
  GopCacheConf <- BothCacheConfs
  MwMsgs = 1
  Stamps = {0, 2}
  Inputs <- GopInputs
  MaxMsgs = 4
  MaxSessions = 1
  c1 = c1
VIEW WithoutReceived
INVARIANTS TypeOK GopShape MixOrderly ShrinkOnlyWhenFull
