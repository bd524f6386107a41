SPECIFICATION FairSpec
CONSTANTS
  d1=d1 d2=d2
  Dispatches={d1}
  Capacity=1
  MaxActions=1
  MaxAsked=3
  MaxEnds=1
  MaxTicks=1
INVARIANTS TypeOK StoredInOrder ConfirmedHolds
PROPERTIES KeyNotReplaced ControlReturns
CHECK_DEADLOCK FALSE
