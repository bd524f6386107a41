SPECIFICATION Spec
CONSTANTS
  s1=s1 s2=s2 o1=o1 o2=o2 c1=c1 c2=c2
  Sessions={s1}
  Owners={o1}
  Leased={o1}
  SelfOwned<-MCSelfOwned
  Callers={c1,c2}
  Sweeper=Sweeper
  Operator=Operator
  Hooks={1}
  Policies={}
  Serialized=TRUE
  Nil=Nil
  Unowned=Unowned
PROPERTY FirstFireRunsHooks
CHECK_DEADLOCK FALSE
