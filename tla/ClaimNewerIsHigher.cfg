SPECIFICATION Spec
CONSTANTS
  d1=d1 d2=d2
  Dispatches={d1}
  Capacity=2
  MaxActions=1
  MaxAsked=5
  MaxEnds=0
  MaxTicks=3
INVARIANTS NewerIsHigher
CHECK_DEADLOCK FALSE
