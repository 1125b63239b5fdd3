SPECIFICATION Spec
CONSTANTS
  Conn = {p1, p2}
  p1 = p1
  p2 = p2
  HandlerMayFail = TRUE
  MaxMsgs = 2
INVARIANT SinglePublisher

CHECK_DEADLOCK FALSE
