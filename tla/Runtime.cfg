SPECIFICATION FairSpec
CONSTANTS
  p1=p1 h1=h1 h2=h2 x1=x1 x2=x2 l1=l1
  Ops={p1}
  Handles={h1,h2}
  Stops={x1,x2}
  Labels={l1}
  Nil=Nil
INVARIANTS TypeOK ShutdownLeavesNothing
PROPERTIES ClosedAuthorityEnds ShutdownReturns CallsBack
CHECK_DEADLOCK FALSE
