SPECIFICATION FairSpec
CONSTANTS
  t1=t1 t2=t2 o1=o1 o2=o2
  Tasks={t1,t2}
  Owners={o1,o2}
  MaxEpoch=2
  MaxObservations=1
  Nil=Nil
CHECK_DEADLOCK FALSE
INVARIANTS TypeOK LeaseIsExclusive AdmittedViewIsCurrent
PROPERTY QuarantineGrantsNothing AcquireReturns
