SPECIFICATION FairSpec
CONSTANTS
  Conn = {c1, c2}
  c1 = c1
  c2 = c2
  Url = {live}
  live = live
  None = None
  BlockSize = 6
  KeySize = 2
  Ssl = {TRUE, FALSE}
  Schemas <- MCSchemas
  Offsets <- MCOffsets
  Kinds <- MCKinds
  EdgeToken = TRUE
INVARIANTS HandshakeAgreed ServedAsAsked AnswersMatch RefusedForReason 
 
CHECK_DEADLOCK FALSE
