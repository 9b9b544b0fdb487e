SPECIFICATION Spec
CONSTANTS
  c1 = c1
  c2 = c2
  c3 = c3
  b1 = b1
  NoCall = NoCall
  Calls = {c1, c2}
  Beats = {b1}
  Deadlined = {c1}
  BadArgs = {c2}
  ReconnectTryNums = 2
  HeartBeatTryNums = 1
  MaxSeq = 2
  MaxConns = 2
  MaxOutage = 2
  MaxCloses = 1
  ReadAhead = 1
INVARIANTS NoLostCall ReaderServes NoNilCall OpenWhileAvailable
PROPERTIES ImplementsRPCCall
CHECK_DEADLOCK FALSE
