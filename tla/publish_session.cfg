SPECIFICATION FairSpec
CONSTANTS
  Conn = {p1}
  p1 = p1
  HandlerMayFail = TRUE
  MaxMsgs = 4
INVARIANTS NoFalseTimeout AtMostOneLate
PROPERTIES ErrorSeen SilenceEnds
CHECK_DEADLOCK FALSE
