SPECIFICATION FairSpec
CONSTANTS
  h1 = h1
  h2 = h2
  b1 = b1
  Handlers = {h1, h2}
  Beats = {b1}
  Nobody = Nobody
  MaxClients = 2
  MaxMessages = 3
  MaxSeq = 2
  MaxBreaks = 1
INVARIANTS NoLostCall AloneRight
PROPERTIES HandlersReturn
CHECK_DEADLOCK FALSE
