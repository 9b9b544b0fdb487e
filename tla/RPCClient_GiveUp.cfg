SPECIFICATION FairSpec
CONSTANTS
  c1 = c1
  c2 = c2
  c3 = c3
  b1 = b1
  NoCall = NoCall
  Calls = {c1}
  Beats = {}
  Deadlined = {}
  BadArgs = {}
  ReconnectTryNums = 1
  HeartBeatTryNums = 1
  MaxSeq = 1
  MaxConns = 2
  MaxOutage = 1
  MaxCloses = 0
  ReadAhead = 0
PROPERTIES GiveUpTerminates
CHECK_DEADLOCK FALSE
