SPECIFICATION FairSpec
CONSTANTS
  p1=p1 s1=s1
  Proxies={p1}
  CallIds={1,2,3}
  Scripts<-MCScripts
  MaxQueue=1
  MaxCrashes=2
  Sessions={s1}
  Nil=Nil
INVARIANTS TypeOK ForwardedInOrder SettlementIsProof NoSessionWithoutConnection
PROPERTIES EofEndsProxy SessionsEndWithProxy
CHECK_DEADLOCK FALSE
