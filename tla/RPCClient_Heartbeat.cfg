SPECIFICATION FairSpec
CONSTANTS
  c1 = c1
  c2 = c2
  c3 = c3
  b1 = b1
  NoCall = NoCall
  Calls = {c1}
  Beats = {b1}
  Deadlined = {}
  BadArgs = {}
  ReconnectTryNums = 1
  HeartBeatTryNums = 1
  MaxSeq = 2
  MaxConns = 2
  MaxOutage = 0
  MaxCloses = 1
  ReadAhead = 1
INVARIANTS ClosedSettled
PROPERTIES UsesRPCPeer DeadlineReturns KeepaliveExits CloseTerminates
CHECK_DEADLOCK FALSE
