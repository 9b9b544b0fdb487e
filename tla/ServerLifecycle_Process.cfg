SPECIFICATION FairSpec
CONSTANTS
  Arith = Arith
  arith = arith
  u1 = u1
  Names = {Arith, arith}
  NoName = NoName
  Lower <- MCLower
  Exported = {Arith}
  Types <- MCTypes
  NoService = NoService
  Users = {u1}
  Handler = Handler
  FirstDelay = 1
  MaxDelay = 3
  MaxServices = 2
  MaxErrors = 3
  MaxSignals = 2
INVARIANTS PublishedFound ExitUnregisters SignalsAlone BacksOff
PROPERTIES CloseEnds
CHECK_DEADLOCK FALSE
