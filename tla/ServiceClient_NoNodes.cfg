SPECIFICATION FairSpec
CONSTANTS
  c1 = c1
  c2 = c2
  Callers = {c1, c2}
  MayGo = {c2}
  Deadlined = {c1, c2}
  NoCaller = NoCaller
  MaxNodes = 1
  Found = {0}
  Options <- AllOrNone
  Capacity = 1
  MaxRequests = 1
  ReadyToTrip = 1
  Beating = {}
  MaxBreaks = 0
PROPERTY NoNodeReturns
CHECK_DEADLOCK FALSE
