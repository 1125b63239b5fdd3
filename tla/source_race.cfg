SPECIFICATION Spec
CONSTANTS
  Conn = {c1, c2}
  c1 = c1
  c2 = c2
  Url = {live}
  live = live
  None = None
  BlockSize = 6
  KeySize = 2
  Ssl = {TRUE, FALSE}
  Schemas <- MCSchemas
  Offsets <- MCOffsets
  Kinds <- MCKinds
  EdgeToken = TRUE
INVARIANT AbsentForCreate
CHECK_DEADLOCK FALSE
