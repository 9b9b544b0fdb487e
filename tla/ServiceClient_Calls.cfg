SPECIFICATION FairSpec
CONSTANTS
  c1 = c1
  c2 = c2
  Callers = {c1, c2}
  MayGo = {c2}
  Deadlined = {c1}
  NoCaller = NoCaller
  MaxNodes = 2
  Found = {0, 2}
  Options <- AllOrNone
  Capacity = 1
  MaxRequests = 1
  ReadyToTrip = 1
  Beating = {1}
  MaxBreaks = 1
INVARIANTS PickInRange PickFinds Balanced
PROPERTIES CallsReturn
CHECK_DEADLOCK FALSE
