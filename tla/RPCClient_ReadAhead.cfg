SPECIFICATION PeerFairSpec
CONSTANTS
  c1 = c1
  c2 = c2
  c3 = c3
  b1 = b1
  NoCall = NoCall
  Calls = {c1, c2}
  Beats = {}
  Deadlined = {}
  BadArgs = {}
  ReconnectTryNums = 1
  HeartBeatTryNums = 1
  MaxSeq = 2
  MaxConns = 1
  MaxOutage = 0
  MaxCloses = 0
  ReadAhead = 1
PROPERTIES OutstandingCallsAnswered
CHECK_DEADLOCK FALSE
