SPECIFICATION Spec
CONSTANTS
  s1=s1 s2=s2 o1=o1 o2=o2 c1=c1 c2=c2
  Sessions={s1}
  Owners={o1,o2}
  Leased={o1}
  SelfOwned<-MCSelfOwned
  Callers={c1,c2}
  Sweeper=Sweeper
  Operator=Operator
  Hooks={1}
  Policies={}
  Serialized=FALSE
  Nil=Nil
  Unowned=Unowned
SYMMETRY CallerSymmetry
INVARIANTS TypeOK LiveExcludesEnded PendingEndHasGuard ClosedOwnerIsSwept
PROPERTIES ImplementsContract
CHECK_DEADLOCK FALSE
