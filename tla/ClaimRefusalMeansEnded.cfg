SPECIFICATION Spec
CONSTANTS
  s1=s1 o1=o1 o2=o2 r1=r1 r2=r2
  Sessions={s1}
  Owners={o1,o2}
  Leased={o1,o2}
  Requests={r1,r2}
  Nil=Nil
INVARIANT RefusalMeansEnded
CHECK_DEADLOCK FALSE
