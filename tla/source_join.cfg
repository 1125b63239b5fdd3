SPECIFICATION SerialSpec
CONSTANTS
  QueueMs = 99
  MaxJitterMs = 1
  FrameMs = 1
  PureAudioGuess = 1
  MixPureAv = 2
  Publisher = {1}
  Consumer = {c1, c2}
  Jitter = "FULL"
  Atc = FALSE
  AtcAuto = FALSE
  MixCorrect = FALSE
  ReduceSh = FALSE
  GopCacheConf <- BothCacheConfs
  MwMsgs = 1
  Stamps = {0, 1, 3}
  Inputs <- JoinInputs
  MaxMsgs = 3
  MaxSessions = 1
  c1 = c1
  c2 = c2
SYMMETRY Players
INVARIANTS VideoJoined JitterSmooth
