SPECIFICATION FairSpec
CONSTANTS
  n1 = n1
  n2 = n2
  NoNode = NoNode
  Nodes = {n1, n2}
  MaxLease = 2
INVARIANTS CachedOnce OwnLease NoNodeDropped IInv
PROPERTIES NodesFound AddressesLeave RegisteredAgain
CHECK_DEADLOCK FALSE
